------------------------- MODULE FileWatcherProofs --------------------------
(***************************************************************************)
(* Theorems about FileWatcher: the tail never reads history and inserts no *)
(* line twice, for every directory, batch, buffer, bound and interleaving. *)
(***************************************************************************)
EXTENDS FileWatcher, IngestProofs

USE PathsAssumption, InodesAssumption, RotationAssumption, BoundsAssumption,
    ScannerAssumption, FileSourceAssumption

-----------------------------------------------------------------------------
(* Type correctness.                                                       *)

\* The lines of some cells are lines.
LEMMA LinesInType ==
    ASSUME NEW s \in Seq(Cell)
    PROVE  LinesIn(s) \subseteq Lines
<1> SUFFICES ASSUME NEW i \in DOMAIN s, s[i] # Trailer
             PROVE  s[i].line \in Lines
  BY DEF LinesIn, LinesAt
<1>1. s[i] \in Cell
  OBVIOUS
<1> QED
  BY <1>1 DEF Cell

\* What the scanner has not handed over are lines.
LEMMA UnreadType ==
    ASSUME TypeOK, fd # NoInode
    PROVE  Unread \subseteq Lines
<1>1. buf \in Seq(Cell) /\ data[fd] \in Seq(Cell) /\ pos \in Nat
  BY DEF TypeOK, ReaderTypeOK, DirTypeOK
<1>2. SubSeq(data[fd], pos + 1, Len(data[fd])) \in Seq(Cell)
  <2>1. /\ pos + 1 \in Nat \ {0} /\ Len(data[fd]) \in Nat
        /\ Len(data[fd]) <= Len(data[fd])
    BY <1>1
  <2> QED
    BY <1>1, <2>1, SubSeqType
<1> QED
  BY <1>1, <1>2, LinesInType DEF Unread

\* Every initial state is well typed.
THEOREM TypeInit == Init => TypeOK
<1> SUFFICES ASSUME Init PROVE TypeOK
  OBVIOUS
<1>1. DirTypeOK /\ StoredTypeOK
  BY DEF Init, DirInit, DirTypeOK, StoredInit, StoredTypeOK
<1>2. FsTypeOK /\ ControlTypeOK
  <2>1. watching = FALSE /\ events = <<>> /\ events \in Seq({"create", "write"})
    BY DEF Init
  <2>2. pc = "stopped" /\ todo = {}
    BY DEF Init
  <2>3. watching \in BOOLEAN
    BY <2>1
  <2> QED
    BY <2>1, <2>2, <2>3 DEF FsTypeOK, ControlTypeOK
<1>3. ReaderTypeOK
  <2>1. drained \in BOOLEAN
    BY DEF Init
  <2>2. /\ fd \in Inodes \cup {NoInode}
        /\ offset \in Nat /\ pos \in Nat /\ buf \in Seq(Cell)
    BY DEF Init
  <2> QED
    BY <2>1, <2>2 DEF ReaderTypeOK
<1>4. LifeTypeOK
  <2>1. cancelled \in BOOLEAN
    BY DEF Init
  <2>2. faults \in 0..MaxFaults /\ stops \in 0..MaxStops
    BY DEF Init
  <2> QED
    BY <2>1, <2>2 DEF LifeTypeOK
<1>5. AuxTypeOK
  BY DEF Init, AuxTypeOK
<1> QED
  BY <1>1, <1>2, <1>3, <1>4, <1>5 DEF TypeOK

\* What a step leaves alone keeps its types.
LEMMA Frame ==
    ASSUME TypeOK
    PROVE  /\ UNCHANGED dirVars => DirTypeOK'
           /\ UNCHANGED stored => StoredTypeOK'
           /\ UNCHANGED fsVars => FsTypeOK'
           /\ UNCHANGED readerVars => ReaderTypeOK'
           /\ UNCHANGED lifeVars => LifeTypeOK'
           /\ UNCHANGED auxVars => AuxTypeOK'
<1>1. UNCHANGED dirVars => DirTypeOK'
  BY DEF TypeOK, DirTypeOK, dirVars
<1>2. UNCHANGED stored => StoredTypeOK'
  BY DEF TypeOK, StoredTypeOK
<1>3. UNCHANGED fsVars => FsTypeOK'
  BY DEF TypeOK, FsTypeOK, fsVars
<1>4. UNCHANGED readerVars => ReaderTypeOK'
  BY DEF TypeOK, ReaderTypeOK, readerVars
<1>5. UNCHANGED lifeVars => LifeTypeOK'
  BY DEF TypeOK, LifeTypeOK, lifeVars
<1>6. UNCHANGED auxVars => AuxTypeOK'
  BY DEF TypeOK, AuxTypeOK, auxVars
<1> QED
  BY <1>1, <1>2, <1>3, <1>4, <1>5, <1>6

\* A scanner of an existing file, and none at all, are well typed.
LEMMA ScannerType ==
    ASSUME TypeOK
    PROVE  /\ \A i \in Inodes, n \in Nat : NewScanner(i, n) => ReaderTypeOK'
           /\ CloseFile => ReaderTypeOK'
<1>1. ASSUME NEW i \in Inodes, NEW n \in Nat, NewScanner(i, n)
      PROVE  ReaderTypeOK'
  <2>1. (drained \in BOOLEAN)'
    BY <1>1 DEF NewScanner
  <2>2. /\ fd' \in Inodes \cup {NoInode}
        /\ offset' \in Nat /\ pos' \in Nat /\ buf' \in Seq(Cell)
    BY <1>1 DEF NewScanner
  <2> QED
    BY <2>1, <2>2 DEF ReaderTypeOK
<1>2. ASSUME CloseFile
      PROVE  ReaderTypeOK'
  <2>1. (drained \in BOOLEAN)'
    BY <1>2 DEF CloseFile, TypeOK, ReaderTypeOK
  <2>2. /\ fd' \in Inodes \cup {NoInode}
        /\ offset' \in Nat /\ pos' \in Nat /\ buf' \in Seq(Cell)
    BY <1>2 DEF CloseFile, TypeOK, ReaderTypeOK
  <2> QED
    BY <2>1, <2>2 DEF ReaderTypeOK
<1> QED
  BY <1>1, <1>2

\* A file that exists has an inode, with cells.
LEMMA FileType ==
    ASSUME TypeOK, NEW p \in Paths, Exists(p)
    PROVE  dir[p] \in Inodes /\ data[dir[p]] \in Seq(Cell) /\ Len(data[dir[p]]) \in Nat
<1>1. dir[p] \in Inodes
  BY DEF TypeOK, DirTypeOK, Exists
<1>2. data[dir[p]] \in Seq(Cell)
  BY <1>1 DEF TypeOK, DirTypeOK
<1> QED
  BY <1>1, <1>2

\* watchLoop's return is well typed.
LEMMA LeaveType ==
    ASSUME TypeOK, NEW next \in {"retry", "stopped"}, LeaveLoop(next), todo' \subseteq Siblings
    PROVE  FsTypeOK' /\ ControlTypeOK' /\ ReaderTypeOK'
<1>1. ReaderTypeOK'
  BY ScannerType DEF LeaveLoop
<1>2. FsTypeOK'
  <2>1. watching' = FALSE /\ events' = <<>> /\ events' \in Seq({"create", "write"})
    BY DEF LeaveLoop
  <2>2. (watching \in BOOLEAN)'
    BY <2>1
  <2> QED
    BY <2>1, <2>2 DEF FsTypeOK
<1>3. ControlTypeOK'
  BY DEF LeaveLoop, ControlTypeOK
<1> QED
  BY <1>1, <1>2, <1>3

\* The buffer grows by cells of the open file.
LEMMA ReadType ==
    ASSUME TypeOK, ReadChunk
    PROVE  /\ data[fd] \in Seq(Cell) /\ fd \in Inodes /\ pos < Len(data[fd])
           /\ ReaderTypeOK'
<1>1. fd \in Inodes
  BY DEF ReadChunk, TypeOK, ControlTypeOK, ReaderTypeOK
<1>2. data[fd] \in Seq(Cell) /\ pos \in Nat /\ buf \in Seq(Cell)
  BY <1>1 DEF TypeOK, DirTypeOK, ReaderTypeOK
<1>3. pos < Len(data[fd])
  BY <1>2 DEF ReadChunk, AtEOF
<1> DEFINE c == Chunk(data[fd], pos)
<1>4. c \in Seq(Cell) /\ Len(c) \in Nat
  BY <1>2, <1>3, ChunkIsNext
<1> HIDE DEF c
<1>5. buf' = buf \o c /\ pos' = pos + Len(c) /\ fd' = fd /\ offset' = offset
  BY DEF ReadChunk, c
<1>6. buf' \in Seq(Cell) /\ pos' \in Nat
  BY <1>2, <1>4, <1>5
<1>7. (drained \in BOOLEAN)'
  BY DEF ReadChunk, TypeOK, ReaderTypeOK
<1>8. fd' \in Inodes \cup {NoInode} /\ offset' \in Nat
  BY <1>5 DEF TypeOK, ReaderTypeOK
<1>9. ReaderTypeOK'
  BY <1>6, <1>7, <1>8 DEF ReaderTypeOK
<1> QED
  BY <1>1, <1>2, <1>3, <1>9

\* A scan that is done closes no file.
LEMMA ScanDoneType ==
    ASSUME TypeOK, ScanDone
    PROVE  ReaderTypeOK' /\ ControlTypeOK'
<1>1. (drained \in BOOLEAN)'
  BY DEF ScanDone
<1>2. /\ fd' \in Inodes \cup {NoInode} /\ offset' \in Nat /\ pos' \in Nat
      /\ buf' \in Seq(Cell)
  BY DEF ScanDone, TypeOK, ReaderTypeOK
<1>3. ControlTypeOK'
  BY DEF ScanDone, TypeOK, ControlTypeOK, fsVars
<1> QED
  BY <1>1, <1>2, <1>3 DEF ReaderTypeOK

\* Every step keeps the types.
THEOREM TypeStep == TypeOK /\ [Next]_vars => TypeOK'
<1> SUFFICES ASSUME TypeOK, [Next]_vars PROVE TypeOK'
  OBVIOUS
<1> DEFINE Rest == /\ UNCHANGED dirVars => DirTypeOK'
                   /\ UNCHANGED stored => StoredTypeOK'
                   /\ UNCHANGED fsVars => FsTypeOK'
                   /\ UNCHANGED readerVars => ReaderTypeOK'
                   /\ UNCHANGED lifeVars => LifeTypeOK'
                   /\ UNCHANGED auxVars => AuxTypeOK'
<1>0. Rest
  BY Frame
<1> HIDE DEF Rest
<1>f. buf \in Seq(Cell) /\ faults \in Nat /\ LogPath \in Paths /\ Siblings \subseteq Paths
  BY DEF TypeOK, ReaderTypeOK, LifeTypeOK
<1>1. CASE Start
  <2>1. AuxTypeOK'
    <3>1. old' \subseteq Lines
      <4>1. CASE Exists(LogPath)
        BY <1>1, <1>f, <4>1, FileType, LinesInType DEF Start
      <4>2. CASE ~Exists(LogPath)
        BY <1>1, <4>2 DEF Start
      <4> QED
        BY <4>1, <4>2
    <3>2. (outrun \in BOOLEAN)'
      BY <1>1 DEF Start, TypeOK, AuxTypeOK
    <3> QED
      BY <1>1, <3>1, <3>2 DEF Start, TypeOK, AuxTypeOK
  <2>2. LifeTypeOK'
    <3>1. (cancelled \in BOOLEAN)'
      BY <1>1 DEF Start
    <3> QED
      BY <1>1, <3>1 DEF Start, TypeOK, LifeTypeOK
  <2>3. ControlTypeOK'
    BY <1>1 DEF Start, TypeOK, ControlTypeOK, fsVars
  <2> QED
    BY <1>0, <1>1, <2>1, <2>2, <2>3 DEF Start, TypeOK, Rest
<1>2. CASE ImportOpen
  <2>1. PICK q \in todo :
           /\ todo' = todo \ {q}
           /\ \/ /\ Exists(q)
                 /\ NewScanner(dir[q], 0)
                 /\ pc' = "importing"
              \/ /\ ~Exists(q)
                 /\ UNCHANGED <<pc, readerVars>>
    BY <1>2 DEF ImportOpen
  <2>2. q \in Paths /\ todo' \subseteq Siblings
    BY <1>f, <2>1 DEF TypeOK, ControlTypeOK
  <2>3. CASE NewScanner(dir[q], 0) /\ Exists(q) /\ pc' = "importing"
    <3>1. dir[q] \in Inodes
      BY <2>2, <2>3, FileType
    <3>2. ReaderTypeOK'
      BY <2>3, <3>1, ScannerType
    <3>3. ControlTypeOK'
      BY <1>2, <2>2, <2>3, <3>1
         DEF ImportOpen, TypeOK, ControlTypeOK, fsVars, NewScanner
    <3> QED
      BY <1>0, <1>2, <3>2, <3>3 DEF ImportOpen, TypeOK, Rest
  <2>4. CASE UNCHANGED <<pc, readerVars>>
    <3>1. ControlTypeOK'
      BY <1>2, <2>2, <2>4 DEF ImportOpen, TypeOK, ControlTypeOK, fsVars, readerVars
    <3> QED
      BY <1>0, <1>2, <2>4, <3>1 DEF ImportOpen, TypeOK, Rest
  <2> QED
    BY <2>1, <2>3, <2>4
<1>3. CASE ImportFlush
  <2>1. PICK k \in DOMAIN buf :
           /\ InsertBatch(buf, {i \in Entries(buf) : i <= k})
           /\ imported' = imported \cup LinesAt(buf, {i \in Entries(buf) : i <= k})
           /\ buf' = SubSeq(buf, k + 1, Len(buf))
    BY <1>3 DEF ImportFlush
  <2>2. StoredTypeOK'
    BY <2>1, InsertBatchType DEF TypeOK
  <2>3. AuxTypeOK'
    <3>1. imported' \subseteq Lines
      BY <1>f, <2>1, EntriesType DEF TypeOK, AuxTypeOK
    <3>2. (outrun \in BOOLEAN)'
      BY <1>3 DEF ImportFlush, TypeOK, AuxTypeOK
    <3> QED
      BY <1>3, <3>1, <3>2 DEF ImportFlush, TypeOK, AuxTypeOK
  <2>4. ReaderTypeOK'
    <3>1. k \in 0..Len(buf)
      BY <1>f
    <3>2. buf' \in Seq(Cell)
      BY <1>f, <2>1, <3>1, RestIs
    <3>3. (drained \in BOOLEAN)'
      BY <1>3 DEF ImportFlush, TypeOK, ReaderTypeOK
    <3> QED
      BY <1>3, <3>2, <3>3 DEF ImportFlush, TypeOK, ReaderTypeOK
  <2>5. ControlTypeOK'
    BY <1>3 DEF ImportFlush, TypeOK, ControlTypeOK, fsVars
  <2> QED
    BY <1>0, <1>3, <2>2, <2>3, <2>4, <2>5 DEF ImportFlush, TypeOK, Rest
<1>4. CASE ImportDone
  <2>1. StoredTypeOK'
    BY <1>4, InsertBatchType DEF ImportDone, TypeOK
  <2>2. AuxTypeOK'
    <3>1. imported' \subseteq Lines
      BY <1>4, <1>f, EntriesType DEF ImportDone, TypeOK, AuxTypeOK
    <3>2. (outrun \in BOOLEAN)'
      BY <1>4 DEF ImportDone, TypeOK, AuxTypeOK
    <3> QED
      BY <1>4, <3>1, <3>2 DEF ImportDone, TypeOK, AuxTypeOK
  <2>3. ReaderTypeOK'
    BY <1>4, ScannerType DEF ImportDone
  <2>4. ControlTypeOK'
    BY <1>4 DEF ImportDone, TypeOK, ControlTypeOK, fsVars
  <2> QED
    BY <1>0, <1>4, <2>1, <2>2, <2>3, <2>4 DEF ImportDone, TypeOK, Rest
<1>5. CASE ImportEnd
  <2>1. ControlTypeOK'
    BY <1>5 DEF ImportEnd, TypeOK, ControlTypeOK, fsVars
  <2> QED
    BY <1>0, <1>5, <2>1 DEF ImportEnd, TypeOK, Rest
<1>6. CASE AddWatch
  <2>1. ControlTypeOK' /\ FsTypeOK'
    <3>1. (watching \in BOOLEAN)' /\ watching'
      BY <1>6 DEF AddWatch
    <3>2. pc' = "open" /\ events' = events /\ todo' = todo
      BY <1>6 DEF AddWatch
    <3> QED
      BY <3>1, <3>2 DEF TypeOK, ControlTypeOK, FsTypeOK
  <2> QED
    BY <1>0, <1>6, <2>1 DEF AddWatch, TypeOK, Rest
<1>7. CASE OpenAtEnd \/ Reopen
  <2>1. dir[LogPath] \in Inodes /\ Len(data[dir[LogPath]]) \in Nat
    BY <1>7, <1>f, FileType DEF OpenAtEnd, Reopen
  <2>2. ReaderTypeOK' /\ fd' = dir[LogPath]
    BY <1>7, <2>1, ScannerType DEF OpenAtEnd, Reopen, NewScanner
  <2>3. ControlTypeOK'
    <3>1. pc' = "loop" /\ UNCHANGED <<fsVars, todo>> /\ watching
      BY <1>7 DEF OpenAtEnd, Reopen, TypeOK, ControlTypeOK
    <3> QED
      BY <2>1, <2>2, <3>1 DEF TypeOK, ControlTypeOK, fsVars
  <2>4. AuxTypeOK'
    <3>1. (outrun \in BOOLEAN)'
      BY <1>7 DEF OpenAtEnd, Reopen, TypeOK, AuxTypeOK
    <3> QED
      BY <1>7, <3>1 DEF OpenAtEnd, Reopen, TypeOK, AuxTypeOK
  <2> QED
    BY <1>0, <1>7, <2>2, <2>3, <2>4 DEF OpenAtEnd, Reopen, TypeOK, Rest
<1>8. CASE OpenFails
  <2>1. todo' \subseteq Siblings
    BY <1>8 DEF OpenFails, TypeOK, ControlTypeOK
  <2>2. FsTypeOK' /\ ControlTypeOK' /\ ReaderTypeOK'
    BY <1>8, <2>1, LeaveType DEF OpenFails
  <2> QED
    BY <1>0, <1>8, <2>2 DEF OpenFails, TypeOK, Rest
<1>9. CASE TakeCreate \/ TakeWrite
  <2>1. /\ events # <<>> /\ events \in Seq({"create", "write"}) /\ events' = Tail(events)
        /\ watching /\ UNCHANGED <<watching, todo>>
    BY <1>9 DEF TakeCreate, TakeWrite, TypeOK, FsTypeOK, ControlTypeOK
  <2>2. events' \in Seq({"create", "write"})
    BY <2>1
  <2>3. FsTypeOK'
    BY <2>1, <2>2 DEF FsTypeOK, TypeOK
  <2>4. ReaderTypeOK'
    <3>1. CASE TakeCreate
      BY <3>1, ScannerType DEF TakeCreate
    <3>2. CASE TakeWrite
      <4>1. fd \in Inodes
        BY <3>2 DEF TakeWrite, TypeOK, ControlTypeOK, ReaderTypeOK
      <4> QED
        BY <1>0, <3>2, <4>1, ScannerType DEF TakeWrite, Rest
    <3> QED
      BY <1>9, <3>1, <3>2
  <2>5. ControlTypeOK'
    <3>1. CASE TakeCreate
      BY <2>1, <3>1 DEF TakeCreate, TypeOK, ControlTypeOK
    <3>2. CASE TakeWrite
      <4>1. fd' # NoInode /\ pc' = "scan"
        BY <3>2 DEF TakeWrite, TypeOK, ControlTypeOK, NewScanner, readerVars
      <4> QED
        BY <2>1, <4>1 DEF TypeOK, ControlTypeOK
    <3> QED
      BY <1>9, <3>1, <3>2
  <2> QED
    BY <1>0, <1>9, <2>3, <2>4, <2>5 DEF TakeCreate, TakeWrite, TypeOK, Rest
<1>10. CASE ReadChunk
  <2>1. ReaderTypeOK'
    BY <1>10, ReadType
  <2>2. ControlTypeOK'
    BY <1>10 DEF ReadChunk, TypeOK, ControlTypeOK, fsVars
  <2> QED
    BY <1>0, <1>10, <2>1, <2>2 DEF ReadChunk, TypeOK, Rest
<1>11. CASE InsertScanned \/ InsertFails
  <2>1. ScanDone
    BY <1>11 DEF InsertScanned, InsertFails
  <2>2. StoredTypeOK'
    BY <1>0, <1>11, InsertBatchType DEF InsertScanned, InsertFails, TypeOK, Rest
  <2>3. missed' \subseteq Lines
    BY <1>f, <1>11, LinesInType, HalfLineType
       DEF InsertScanned, InsertFails, TypeOK, AuxTypeOK
  <2>4. AuxTypeOK'
    <3>1. (outrun \in BOOLEAN)'
      BY <2>1 DEF ScanDone, TypeOK, AuxTypeOK
    <3> QED
      BY <2>1, <2>3, <3>1 DEF ScanDone, TypeOK, AuxTypeOK
  <2>5. LifeTypeOK'
    <3>1. (cancelled \in BOOLEAN)' /\ stops' = stops
      BY <2>1 DEF ScanDone, TypeOK, LifeTypeOK
    <3>2. faults' \in 0..MaxFaults
      BY <1>11 DEF InsertScanned, InsertFails, TypeOK, LifeTypeOK
    <3> QED
      BY <3>1, <3>2 DEF TypeOK, LifeTypeOK
  <2>6. DirTypeOK' /\ FsTypeOK'
    BY <1>0, <2>1 DEF ScanDone, Rest
  <2>7. ReaderTypeOK' /\ ControlTypeOK'
    BY <2>1, ScanDoneType
  <2> QED
    BY <2>2, <2>4, <2>5, <2>6, <2>7 DEF TypeOK
<1>12. CASE ScanFails \/ Crash
  <2>1. FsTypeOK' /\ ControlTypeOK' /\ ReaderTypeOK'
    <3>1. todo' \subseteq Siblings
      BY <1>12 DEF ScanFails, Crash, TypeOK, ControlTypeOK
    <3> QED
      BY <1>12, <3>1, LeaveType DEF ScanFails, Crash
  <2>2. AuxTypeOK'
    <3>1. pc = "scan" => Unread \subseteq Lines
      BY UnreadType DEF TypeOK, ControlTypeOK
    <3>2. missed' \subseteq Lines
      BY <1>12, <3>1 DEF ScanFails, Crash, TypeOK, AuxTypeOK
    <3>3. (outrun \in BOOLEAN)'
      BY <1>12 DEF ScanFails, Crash, TypeOK, AuxTypeOK
    <3> QED
      BY <1>12, <3>2, <3>3 DEF ScanFails, Crash, TypeOK, AuxTypeOK
  <2>3. LifeTypeOK'
    <3>1. (cancelled \in BOOLEAN)' /\ stops' = stops
      BY <1>12 DEF ScanFails, Crash, TypeOK, LifeTypeOK, lifeVars
    <3>2. faults' \in 0..MaxFaults
      BY <1>12 DEF ScanFails, Crash, TypeOK, LifeTypeOK, lifeVars
    <3> QED
      BY <3>1, <3>2 DEF TypeOK, LifeTypeOK
  <2> QED
    BY <1>0, <1>12, <2>1, <2>2, <2>3 DEF ScanFails, Crash, TypeOK, Rest
<1>13. CASE Retry
  <2>1. ControlTypeOK'
    BY <1>13 DEF Retry, TypeOK, ControlTypeOK, fsVars
  <2> QED
    BY <1>0, <1>13, <2>1 DEF Retry, TypeOK, Rest
<1>14. CASE Quit
  <2>1. todo' \subseteq Siblings
    BY <1>14 DEF Quit, TypeOK, ControlTypeOK
  <2>2. FsTypeOK' /\ ControlTypeOK' /\ ReaderTypeOK'
    BY <1>14, <2>1, LeaveType DEF Quit
  <2> QED
    BY <1>0, <1>14, <2>2 DEF Quit, TypeOK, Rest
<1>15. CASE ImportFails
  <2>1. ReaderTypeOK'
    BY <1>15, ScannerType DEF ImportFails
  <2>2. ControlTypeOK'
    BY <1>15 DEF ImportFails, TypeOK, ControlTypeOK, fsVars
  <2>3. LifeTypeOK'
    <3>1. (cancelled \in BOOLEAN)' /\ stops' = stops
      BY <1>15 DEF ImportFails, TypeOK, LifeTypeOK
    <3>2. faults' \in 0..MaxFaults
      BY <1>15 DEF ImportFails, TypeOK, LifeTypeOK
    <3> QED
      BY <3>1, <3>2 DEF TypeOK, LifeTypeOK
  <2> QED
    BY <1>0, <1>15, <2>1, <2>2, <2>3 DEF ImportFails, TypeOK, Rest
<1>16. CASE Cancel
  <2>1. LifeTypeOK'
    <3>1. (cancelled \in BOOLEAN)' /\ faults' = faults
      BY <1>16 DEF Cancel
    <3>2. stops' \in 0..MaxStops
      BY <1>16 DEF Cancel, TypeOK, LifeTypeOK
    <3> QED
      BY <3>1, <3>2 DEF TypeOK, LifeTypeOK
  <2>2. ControlTypeOK'
    BY <1>16 DEF Cancel, TypeOK, ControlTypeOK, fsVars, readerVars
  <2> QED
    BY <1>0, <1>16, <2>1, <2>2 DEF Cancel, TypeOK, Rest
<1>17. CASE DirectoryStep
  <2>1. DirTypeOK'
    <3>1. CASE \E p \in Live : Serve(p, Held)
      BY <3>1, ServeType DEF TypeOK
    <3>2. CASE \E p \in Rotating : Rotate(p, Held)
      BY <3>2, RotateType DEF TypeOK
    <3> QED
      BY <1>17, <3>1, <3>2 DEF DirectoryStep
  <2>2. FsTypeOK'
    <3>1. events \in Seq({"create", "write"}) /\ (~watching => events = <<>>)
      BY DEF TypeOK, FsTypeOK
    <3>2. \A e \in {"create", "write"} : Append(events, e) \in Seq({"create", "write"})
      BY <3>1
    <3>3. events' \in Seq({"create", "write"}) /\ (~watching => events' = <<>>)
      BY <1>17, <3>1, <3>2 DEF DirectoryStep, Notify
    <3>4. (watching \in BOOLEAN)' /\ watching' = watching
      BY <1>17 DEF DirectoryStep, TypeOK, FsTypeOK
    <3> QED
      BY <3>3, <3>4 DEF FsTypeOK
  <2>3. ControlTypeOK'
    BY <1>17 DEF DirectoryStep, TypeOK, ControlTypeOK, readerVars
  <2> QED
    BY <1>0, <1>17, <2>1, <2>2, <2>3 DEF DirectoryStep, TypeOK, Rest
<1>18. CASE UNCHANGED vars
  <2>1. ControlTypeOK'
    BY <1>18 DEF vars, TypeOK, ControlTypeOK, fsVars, readerVars
  <2> QED
    BY <1>0, <1>18, <2>1 DEF vars, TypeOK, Rest
<1> QED
  BY <1>1, <1>2, <1>3, <1>4, <1>5, <1>6, <1>7, <1>8, <1>9, <1>10, <1>11, <1>12,
     <1>13, <1>14, <1>15, <1>16, <1>17, <1>18 DEF Next, Worker

\* Every state the program reaches is well typed, for every directory, source
\* configuration and bound.
THEOREM TypeCorrect == Spec => []TypeOK
<1>1. Init => TypeOK
  BY TypeInit
<1>2. TypeOK /\ [Next]_vars => TypeOK'
  BY TypeStep
<1> QED
  BY <1>1, <1>2, PTL DEF Spec

-----------------------------------------------------------------------------
(* The sources the theorems are about.                                     *)

\* The rotator never moves, copies or compresses an old log to the name that
\* is followed, and no archive has the name of a rotated log.
LogIsLive ==
    \A q \in Rotating :
        /\ RotatedName[q] # LogPath /\ ArchiveName[q] # LogPath
        /\ \A p \in Rotating : RotatedName[p] # ArchiveName[q]

-----------------------------------------------------------------------------
(* The inductive invariant.                                                *)

\* s holds no cell of a line in X; s and t hold no cells of the same line.
Clear(s, X) == \A k \in DOMAIN s : s[k].line \notin X
Disjoint(s, t) == \A k \in DOMAIN s, m \in DOMAIN t : s[k].line # t[m].line

\* The file shrank below the place of the scanner: all in it is new.
Behind(s, at, X) == at > Len(s) => Clear(s, X)

\* A scanner at this place with this buffer completes no line in X: of such a
\* line it can at most meet the second half, and without the first.
Ahead(s, at, b, X) ==
    /\ \A m \in DOMAIN b : b[m].line \in X => m = 1 /\ b[m].part = "tail"
    /\ \A k \in DOMAIN s : k > at /\ s[k].line \in X =>
          k = at + 1 /\ b = <<>> /\ s[k].part = "tail"
    /\ b # <<>> /\ at \in DOMAIN s /\ s[at].part = "head" => s[at].line \notin X

Tailing == pc \in {"loop", "scan"}

\* The next open of the log, if any, reads it from its start.
Renewed == CreatePending \/ pc = "reopen"

\* Neither the scanner nor a later one completes a line in X.
Avoids(X) ==
    /\ Tailing => Behind(data[fd], pos, X)
    /\ Tailing /\ ~drained => Ahead(data[fd], pos, buf, X)
    /\ Renewed /\ Exists(LogPath) => Clear(data[dir[LogPath]], X)

\* The lines in the table that no archive brought there.
Spent == {l \in Lines : stored[l] > 0 /\ l \notin imported}

\* What was read, and what was in the log at the start, has been written.
NumberedInv ==
    /\ CellsWritten
    /\ \A k \in DOMAIN buf : buf[k].line <= written
    /\ \A l \in Lines : l \in old \/ stored[l] > 0 => l <= written

\* The tail holds the log it opened, which is no archive; its scanner has
\* handed over its buffer whenever watchLoop waits.
ReaderInv ==
    /\ Tailing => \A q \in Rotating : dir[ArchiveName[q]] # fd
    /\ pc = "loop" => buf = <<>> /\ offset = pos
    /\ Tailing /\ drained => buf = <<>>

HistoryInv == Avoids(old)

\* The log that replaces the open one has no line in common with what was read.
SpentInv ==
    ~outrun =>
        /\ Avoids(Spent)
        /\ Tailing /\ pos > Len(data[fd]) => Disjoint(data[fd], buf)
        /\ Tailing /\ CreatePending /\ Exists(LogPath) =>
              /\ dir[LogPath] # fd
              /\ Disjoint(data[dir[LogPath]], buf)
              /\ Disjoint(data[dir[LogPath]], data[fd])

FilesInv == ApartInv /\ NumberedInv
Inv ==
    /\ LogIsLive /\ TypeOK
    /\ FilesInv /\ ReaderInv /\ HistoryInv /\ SpentInv
    /\ TailsAtMostOnce

-----------------------------------------------------------------------------
(* Lemmas about the scanner.                                               *)

\* One more cell of a new line, or of a line in the file, keeps it clear.
LEMMA ClearAppend ==
    ASSUME NEW s \in Seq(Cell), NEW c \in Cell, NEW X, NEW n \in Nat,
           \A l \in X : l \in Nat /\ l <= n, Continues(s, c, n), Clear(s, X)
    PROVE  Clear(Append(s, c), X)
<1> DEFINE t == Append(s, c)
<1>1. /\ DOMAIN t = 1..(Len(s) + 1) /\ DOMAIN s = 1..Len(s) /\ Len(s) \in Nat
      /\ t[Len(s) + 1] = c /\ \A k \in 1..Len(s) : t[k] = s[k]
  BY AppendProperties
<1> HIDE DEF t
<1>2. n + 1 \notin X
  OBVIOUS
<1>3. s # <<>> => Len(s) \in DOMAIN s
  BY <1>1
<1>4. c.line \notin X
  BY <1>2, <1>3 DEF Continues, Clear
<1>5. ASSUME NEW k \in DOMAIN t PROVE t[k].line \notin X
  <2>1. CASE k = Len(s) + 1
    BY <1>1, <1>4, <2>1
  <2>2. CASE k # Len(s) + 1
    BY <1>1, <2>2 DEF Clear
  <2> QED
    BY <2>1, <2>2
<1> QED
  BY <1>5 DEF Clear, t

\* The file that is read grows.
LEMMA AheadAppend ==
    ASSUME NEW s \in Seq(Cell), NEW c \in Cell, NEW X, NEW n \in Nat,
           \A l \in X : l \in Nat /\ l <= n, Continues(s, c, n),
           NEW at \in Nat, NEW b, Behind(s, at, X), Ahead(s, at, b, X)
    PROVE  Ahead(Append(s, c), at, b, X)
<1> DEFINE t == Append(s, c)
<1>1. /\ DOMAIN t = 1..(Len(s) + 1) /\ DOMAIN s = 1..Len(s) /\ Len(s) \in Nat
      /\ t[Len(s) + 1] = c /\ \A k \in 1..Len(s) : t[k] = s[k]
  BY AppendProperties
<1> HIDE DEF t
<1>2. n + 1 \notin X
  OBVIOUS
<1>3. s # <<>> => Len(s) \in DOMAIN s
  BY <1>1
<1>4. ASSUME NEW k \in DOMAIN t, k > at, t[k].line \in X
      PROVE  k = at + 1 /\ b = <<>> /\ t[k].part = "tail"
  <2>1. CASE k # Len(s) + 1
    <3>1. k \in DOMAIN s /\ t[k] = s[k]
      BY <1>1, <2>1
    <3> QED
      BY <1>4, <3>1 DEF Ahead
  <2>2. CASE k = Len(s) + 1
    <3>1. /\ s # <<>> /\ s[Len(s)].part = "head" /\ c.part = "tail"
          /\ c.line = s[Len(s)].line /\ t[k] = c /\ Len(s) \in DOMAIN s
      BY <1>1, <1>2, <1>3, <1>4, <2>2 DEF Continues
    <3>2. s[Len(s)].line \in X
      BY <1>4, <3>1
    <3>3. ~(Len(s) > at)
      BY <3>1, <3>2 DEF Ahead
    <3>4. Len(s) = at
      <4>1. Len(s) \in Nat /\ Len(s) + 1 > at
        BY <1>1, <1>4, <2>2
      <4> QED
        BY <3>3, <4>1
    <3>5. b = <<>>
      BY <3>1, <3>2, <3>4 DEF Ahead
    <3> QED
      BY <2>2, <3>1, <3>4, <3>5
  <2> QED
    BY <2>1, <2>2
<1>5. ASSUME at \in DOMAIN t, t[at].part = "head", b # <<>>
      PROVE  t[at].line \notin X
  <2>1. CASE at # Len(s) + 1
    <3>1. at \in DOMAIN s /\ t[at] = s[at]
      BY <1>1, <1>5, <2>1
    <3> QED
      BY <1>5, <3>1 DEF Ahead
  <2>2. CASE at = Len(s) + 1
    <3>1. Clear(s, X) /\ t[at] = c
      BY <1>1, <2>2 DEF Behind
    <3>2. Clear(t, X)
      BY <3>1, ClearAppend DEF t
    <3> QED
      BY <1>5, <3>2 DEF Clear
  <2> QED
    BY <2>1, <2>2
<1>6. \A m \in DOMAIN b : b[m].line \in X => m = 1 /\ b[m].part = "tail"
  BY DEF Ahead
<1> QED
  BY <1>4, <1>5, <1>6 DEF Ahead, t

\* The scanner reads on.
LEMMA AheadRead ==
    ASSUME NEW s \in Seq(Cell), NEW X, NEW at \in Nat, at < Len(s), NEW b \in Seq(Cell),
           Ahead(s, at, b, X)
    PROVE  Ahead(s, at + Len(Chunk(s, at)), b \o Chunk(s, at), X)
<1> DEFINE c == Chunk(s, at)
<1>1. /\ c \in Seq(Cell) /\ Len(c) \in Nat /\ at + Len(c) <= Len(s)
      /\ \A i \in 1..Len(c) : c[i] = s[at + i]
  BY ChunkIsNext
<1>2. Len(c) > 0
  BY ChunkNotEmpty
<1> HIDE DEF c
<1> DEFINE d == b \o c
<1>3. /\ d \in Seq(Cell) /\ DOMAIN d = 1..(Len(b) + Len(c)) /\ Len(b) \in Nat
      /\ \A k \in 1..Len(b) : d[k] = b[k]
      /\ \A k \in 1..Len(c) : d[Len(b) + k] = c[k]
      /\ DOMAIN s = 1..Len(s) /\ DOMAIN b = 1..Len(b) /\ Len(s) \in Nat
  BY <1>1
<1>4. d # <<>>
  BY <1>1, <1>2, <1>3
<1> HIDE DEF d
<1>5. ASSUME NEW m \in DOMAIN d, d[m].line \in X PROVE m = 1 /\ d[m].part = "tail"
  <2>1. CASE m <= Len(b)
    <3>1. m \in DOMAIN b /\ d[m] = b[m]
      BY <1>3, <2>1
    <3> QED
      BY <1>5, <3>1 DEF Ahead
  <2>2. CASE m > Len(b)
    <3>1. /\ m - Len(b) \in 1..Len(c) /\ m = Len(b) + (m - Len(b))
          /\ at + (m - Len(b)) \in DOMAIN s /\ at + (m - Len(b)) > at
      <4>1. m \in Nat /\ m <= Len(b) + Len(c) /\ Len(b) \in Nat /\ Len(c) \in Nat
        BY <1>1, <1>3
      <4>2. at + Len(c) <= Len(s) /\ DOMAIN s = 1..Len(s) /\ Len(s) \in Nat
        BY <1>1, <1>3
      <4>3. \A x, y, z, w \in Nat :
               x <= y + z /\ x > y /\ at + z <= w =>
                  /\ x - y \in 1..z /\ x = y + (x - y)
                  /\ at + (x - y) \in 1..w /\ at + (x - y) > at
        OBVIOUS
      <4> QED
        BY <2>2, <4>1, <4>2, <4>3
    <3>2. d[m] = s[at + (m - Len(b))]
      BY <1>1, <1>3, <3>1
    <3>3. at + (m - Len(b)) = at + 1 /\ b = <<>> /\ d[m].part = "tail"
      BY <1>5, <3>1, <3>2 DEF Ahead
    <3> QED
      BY <1>3, <3>3
  <2> QED
    BY <1>3, <2>1, <2>2
<1>6. ASSUME NEW k \in DOMAIN s, k > at + Len(c) PROVE s[k].line \notin X
  <2>1. k > at /\ k # at + 1
    BY <1>1, <1>2, <1>3, <1>6
  <2> QED
    BY <2>1 DEF Ahead
<1>7. ASSUME at + Len(c) \in DOMAIN s, s[at + Len(c)].part = "head"
      PROVE  s[at + Len(c)].line \notin X
  <2>1. at + Len(c) > at
    BY <1>1, <1>2
  <2> QED
    BY <1>7, <2>1 DEF Ahead
<1> QED
  BY <1>5, <1>6, <1>7 DEF Ahead, d, c

\* What is added to one of two files with no line in common leaves them so.
LEMMA DisjointAppend ==
    ASSUME NEW s \in Seq(Cell), NEW c \in Cell, NEW n \in Nat, Continues(s, c, n),
           NEW t \in Seq(Cell), \A k \in DOMAIN t : t[k].line <= n, Disjoint(s, t)
    PROVE  Disjoint(Append(s, c), t) /\ Disjoint(t, Append(s, c))
<1> DEFINE r == Append(s, c)
<1>1. /\ DOMAIN r = 1..(Len(s) + 1) /\ DOMAIN s = 1..Len(s) /\ Len(s) \in Nat
      /\ r[Len(s) + 1] = c /\ \A k \in 1..Len(s) : r[k] = s[k]
  BY AppendProperties
<1> HIDE DEF r
<1>2. ASSUME NEW k \in DOMAIN t PROVE t[k].line # n + 1
  <2>1. t[k] \in Cell
    OBVIOUS
  <2>2. t[k].line \in Nat
    BY <2>1 DEF Cell, Trailer, Lines
  <2> QED
    BY <2>2
<1>3. s # <<>> => Len(s) \in DOMAIN s
  BY <1>1
<1>4. \A m \in DOMAIN t : c.line # t[m].line
  BY <1>2, <1>3 DEF Continues, Disjoint
<1>5. ASSUME NEW k \in DOMAIN r, NEW m \in DOMAIN t PROVE r[k].line # t[m].line
  <2>1. CASE k = Len(s) + 1
    BY <1>1, <1>4, <2>1
  <2>2. CASE k # Len(s) + 1
    BY <1>1, <2>2 DEF Disjoint
  <2> QED
    BY <2>1, <2>2
<1> QED
  BY <1>5 DEF Disjoint, r

-----------------------------------------------------------------------------
(* The invariant and the directory.                                        *)

\* What is known of the types, in the form the proofs use it.
LEMMA Types ==
    ASSUME TypeOK
    PROVE  /\ data \in [Inodes -> Seq(Cell)] /\ dir \in [Paths -> Inodes \cup {NoInode}]
           /\ stored \in [Lines -> 0..MaxStored] /\ written \in 0..MaxLines
           /\ buf \in Seq(Cell) /\ pos \in Nat /\ offset \in Nat
           /\ old \subseteq Lines /\ imported \subseteq Lines
           /\ Tailing => fd \in Inodes
           /\ Renewed \/ Tailing => watching
           /\ LogPath \in Paths
<1>1. Tailing => fd \in Inodes
  BY DEF Tailing, TypeOK, ControlTypeOK, ReaderTypeOK
<1>2. Renewed \/ Tailing => watching
  <2>1. CASE Tailing \/ pc = "reopen"
    BY <2>1 DEF Tailing, TypeOK, ControlTypeOK
  <2>2. CASE CreatePending
    <3>1. events # <<>>
      BY <2>2 DEF CreatePending
    <3> QED
      BY <3>1 DEF TypeOK, FsTypeOK
  <2> QED
    BY <2>1, <2>2 DEF Renewed
<1> QED
  BY <1>1, <1>2
     DEF TypeOK, DirTypeOK, StoredTypeOK, ReaderTypeOK, AuxTypeOK

\* A step of the directory leaves alone what the tail has open, or lets it grow.
LEMMA LogEffect ==
    ASSUME Inv, DirectoryStep
    PROVE  /\ Effect(Held)
           /\ Tailing => \A q \in Rotating : dir'[ArchiveName[q]] # fd
           /\ Grows \/ (Tailing => data'[fd] = data[fd] \/ data'[fd] = <<>>)
           /\ dir'[LogPath] # NoInode =>
                 \/ /\ Exists(LogPath) /\ dir'[LogPath] = dir[LogPath]
                    /\ Grows \/ data'[dir[LogPath]] = data[dir[LogPath]]
                             \/ data'[dir[LogPath]] = <<>>
                 \/ /\ ~Exists(LogPath) /\ dir'[LogPath] \in Inodes
                    /\ Tailing => dir'[LogPath] # fd
                    /\ data'[dir'[LogPath]] = <<>>
<1>1. Effect(Held)
  BY DirectoryHasEffect DEF Inv, FilesInv, NumberedInv, TypeOK, DirectoryStep
<1>2. Tailing => fd \in Inodes /\ fd \in Held /\ fd \notin Free(Held) /\ fd # NoInode
  BY Types DEF Inv, Held, Free
<1>3. ASSUME Tailing, NEW q \in Rotating PROVE dir'[ArchiveName[q]] # fd
  <2>1. ArchiveName[q] \in Paths /\ dir[ArchiveName[q]] # fd
    BY <1>3 DEF Inv, ReaderInv
  <2>2. ~\E p \in Rotating : ArchiveName[q] = RotatedName[p]
    BY DEF Inv, LogIsLive
  <2> QED
    BY <1>1, <1>2, <1>3, <2>1, <2>2 DEF Effect, Names
<1>4. Grows \/ (Tailing => data'[fd] = data[fd] \/ data'[fd] = <<>>)
  BY <1>1, <1>2 DEF Effect, Keeps, Inv, ReaderInv
<1>5. ASSUME dir'[LogPath] # NoInode, dir'[LogPath] = dir[LogPath]
      PROVE  /\ Exists(LogPath)
             /\ Grows \/ data'[dir[LogPath]] = data[dir[LogPath]]
                      \/ data'[dir[LogPath]] = <<>>
  <2>1. /\ Exists(LogPath) /\ LogPath \in Paths /\ dir[LogPath] \in Inodes
        /\ dir[LogPath] \notin Free(Held)
    BY <1>5, Types DEF Inv, Exists, Free
  <2>2. \A q \in Rotating : dir[ArchiveName[q]] # dir[LogPath]
    BY <2>1 DEF Inv, FilesInv, ApartInv, LogIsLive
  <2> QED
    BY <1>1, <2>1, <2>2 DEF Effect, Keeps
<1>6. ASSUME dir'[LogPath] # NoInode, dir'[LogPath] # dir[LogPath]
      PROVE  /\ ~Exists(LogPath) /\ dir'[LogPath] \in Inodes
             /\ Tailing => dir'[LogPath] # fd
             /\ data'[dir'[LogPath]] = <<>>
  <2>1. LogPath \in Paths
    BY Types DEF Inv
  <2>2. ~\E q \in Rotating : LogPath = RotatedName[q] \/ LogPath = ArchiveName[q]
    BY DEF Inv, LogIsLive
  <2>3. ~Exists(LogPath) /\ dir'[LogPath] \in Free(Held) /\ data'[dir'[LogPath]] = <<>>
    BY <1>1, <1>6, <2>1, <2>2 DEF Effect, Names
  <2> QED
    BY <1>2, <2>3 DEF Free
<1> QED
  BY <1>1, <1>3, <1>4, <1>5, <1>6

\* What Grows does to one file.
LEMMA GrowsFile ==
    ASSUME TypeOK, Grows, NEW i \in Inodes
    PROVE  \/ data'[i] = data[i]
           \/ \E c \in Cell : /\ Continues(data[i], c, written)
                              /\ data'[i] = Append(data[i], c)
                              /\ \A j \in Inodes \ {i} : data'[j] = data[j]
BY Types DEF Grows

\* A file the tail may read next stays clear of lines written before.
LEMMA ClearStep ==
    ASSUME TypeOK, NEW i \in Inodes, NEW X \in SUBSET Lines, \A l \in X : l <= written,
           Grows \/ data'[i] = data[i] \/ data'[i] = <<>>, Clear(data[i], X)
    PROVE  Clear(data'[i], X)
<1>1. written \in Nat /\ (\A l \in X : l \in Nat) /\ data[i] \in Seq(Cell)
  BY Types DEF Lines
<1>2. CASE data'[i] = <<>>
  <2>1. DOMAIN data'[i] = {}
    BY <1>2
  <2> QED
    BY <2>1 DEF Clear
<1>3. CASE Grows
  BY <1>1, <1>3, GrowsFile, ClearAppend
<1> QED
  BY <1>2, <1>3

\* The scanner stays where it was, and keeps avoiding lines written before.
LEMMA ReaderStep ==
    ASSUME TypeOK, Tailing, NEW X \in SUBSET Lines, \A l \in X : l <= written,
           Grows \/ data'[fd] = data[fd] \/ data'[fd] = <<>>, Behind(data[fd], pos, X)
    PROVE  /\ Behind(data'[fd], pos, X)
           /\ Ahead(data[fd], pos, buf, X) => Ahead(data'[fd], pos, buf, X)
<1> DEFINE s == data[fd]
<1>1. /\ fd \in Inodes /\ s \in Seq(Cell) /\ pos \in Nat /\ written \in Nat
      /\ (\A l \in X : l \in Nat) /\ Len(s) \in Nat
  BY Types DEF Lines
<1> HIDE DEF s
<1>2. CASE data'[fd] = <<>>
  <2>1. DOMAIN data'[fd] = {}
    BY <1>2
  <2> QED
    BY <2>1 DEF Clear, Behind, Ahead
<1>3. CASE data'[fd] = s
  BY <1>3 DEF s
<1>4. ASSUME NEW c \in Cell, Continues(s, c, written), data'[fd] = Append(s, c)
      PROVE  /\ Behind(data'[fd], pos, X)
             /\ Ahead(s, pos, buf, X) => Ahead(data'[fd], pos, buf, X)
  <2>1. Behind(s, pos, X)
    BY DEF s
  <2>2. Ahead(s, pos, buf, X) => Ahead(Append(s, c), pos, buf, X)
    BY <1>1, <1>4, <2>1, AheadAppend
  <2>3. Len(Append(s, c)) = Len(s) + 1
    BY <1>1
  <2>4. pos > Len(Append(s, c)) => pos > Len(s)
    BY <1>1, <2>3
  <2>5. Clear(s, X) => Clear(Append(s, c), X)
    BY <1>1, <1>4, ClearAppend
  <2>6. Behind(Append(s, c), pos, X)
    BY <2>1, <2>4, <2>5 DEF Behind
  <2> QED
    BY <1>4, <2>2, <2>6
<1>5. CASE Grows
  BY <1>1, <1>3, <1>4, <1>5, GrowsFile DEF s
<1> QED
  BY <1>2, <1>3, <1>5 DEF s

\* A Create event of the log is only queued while it does not exist.
LEMMA PendingStep ==
    ASSUME TypeOK, DirectoryStep, Exists(LogPath), CreatePending'
    PROVE  CreatePending
<1>1. ~Created
  BY DEF Created
<1>2. events' = Append(events, "write") \/ events' = events
  BY <1>1 DEF DirectoryStep, Notify
<1>3. CASE events' = events
  BY <1>3 DEF CreatePending
<1>4. CASE events' = Append(events, "write")
  <2>1. events \in Seq({"create", "write"})
    BY DEF TypeOK, FsTypeOK
  <2>2. PICK n \in DOMAIN Append(events, "write") : Append(events, "write")[n] = "create"
    BY <1>4 DEF CreatePending
  <2>3. n \in 1..(Len(events) + 1) /\ n # Len(events) + 1 /\ Len(events) \in Nat
    BY <2>1, <2>2
  <2>4. n \in DOMAIN events /\ events[n] = "create"
    BY <2>1, <2>2, <2>3
  <2> QED
    BY <2>4 DEF CreatePending
<1> QED
  BY <1>2, <1>3, <1>4

\* No step of the directory brings a line written before in front of a scanner.
LEMMA AvoidsDirectory ==
    ASSUME Inv, DirectoryStep, NEW X \in SUBSET Lines, \A l \in X : l <= written, Avoids(X)
    PROVE  Avoids(X)'
<1>1. UNCHANGED <<pc, fd, pos, buf, drained>> /\ TypeOK
  BY DEF DirectoryStep, readerVars, Inv
<1>2. ASSUME Tailing
      PROVE  /\ Behind(data'[fd], pos, X)
             /\ ~drained => Ahead(data'[fd], pos, buf, X)
  <2>1. Grows \/ data'[fd] = data[fd] \/ data'[fd] = <<>>
    BY <1>2, LogEffect
  <2>2. Behind(data[fd], pos, X) /\ (~drained => Ahead(data[fd], pos, buf, X))
    BY <1>2 DEF Avoids
  <2> QED
    BY <1>1, <1>2, <2>1, <2>2, ReaderStep
<1>3. ASSUME Renewed', dir'[LogPath] # NoInode
      PROVE  Clear(data'[dir'[LogPath]], X)
  <2>1. CASE data'[dir'[LogPath]] = <<>>
    <3>1. DOMAIN data'[dir'[LogPath]] = {}
      BY <2>1
    <3> QED
      BY <3>1 DEF Clear
  <2>2. CASE /\ Exists(LogPath) /\ dir'[LogPath] = dir[LogPath]
             /\ Grows \/ data'[dir[LogPath]] = data[dir[LogPath]]
                      \/ data'[dir[LogPath]] = <<>>
    <3>1. Renewed
      BY <1>1, <1>3, <2>2, PendingStep DEF Renewed
    <3>2. Clear(data[dir[LogPath]], X) /\ dir[LogPath] \in Inodes
      BY <1>1, <2>2, <3>1, Types DEF Avoids, Exists
    <3> QED
      BY <1>1, <2>2, <3>2, ClearStep
  <2> QED
    BY <1>3, <2>1, <2>2, LogEffect
<1> QED
  BY <1>1, <1>2, <1>3 DEF Avoids, Tailing, Exists

\* Files and buffers with no line in common stay so while one file grows.
LEMMA DisjointStep ==
    ASSUME Inv, NEW i \in Inodes,
           Grows \/ data'[i] = data[i] \/ data'[i] = <<>>,
           NEW t \in Seq(Cell), \A k \in DOMAIN t : t[k].line <= written,
           Disjoint(data[i], t)
    PROVE  Disjoint(data'[i], t)
<1>1. data[i] \in Seq(Cell) /\ written \in Nat /\ TypeOK
  BY Types DEF Inv
<1>2. CASE data'[i] = <<>>
  <2>1. DOMAIN data'[i] = {}
    BY <1>2
  <2> QED
    BY <2>1 DEF Disjoint
<1>3. CASE Grows
  <2>1. CASE data'[i] = data[i]
    BY <2>1
  <2>2. ASSUME NEW c \in Cell, Continues(data[i], c, written),
               data'[i] = Append(data[i], c)
        PROVE  Disjoint(data'[i], t)
    BY <1>1, <2>2, DisjointAppend
  <2> QED
    BY <1>1, <1>3, <2>1, <2>2, GrowsFile
<1> QED
  BY <1>2, <1>3

\* The log that comes after the open one keeps to lines of its own.
LEMMA SpentDirectory ==
    ASSUME Inv, DirectoryStep
    PROVE  SpentInv'
<1> SUFFICES ASSUME ~outrun PROVE SpentInv'
  BY DEF SpentInv, DirectoryStep, auxVars
<1>1. /\ UNCHANGED <<pc, fd, pos, buf, drained, stored, imported, outrun>>
      /\ TypeOK
  BY DEF DirectoryStep, readerVars, auxVars, Inv
<1>2. /\ buf \in Seq(Cell) /\ \A k \in DOMAIN buf : buf[k].line <= written
      /\ \A i \in Inodes : /\ data[i] \in Seq(Cell)
                           /\ \A k \in DOMAIN data[i] : data[i][k].line <= written
  BY Types DEF Inv, FilesInv, NumberedInv, CellsWritten
<1>3. Avoids(Spent)'
  <2>1. PICK X \in SUBSET Lines : X = Spent
    BY DEF Spent
  <2>2. \A l \in X : l <= written
    BY <2>1 DEF Spent, Inv, FilesInv, NumberedInv, Lines
  <2>3. Avoids(X)'
    BY <2>1, <2>2, AvoidsDirectory DEF Inv, SpentInv
  <2>4. Spent' = X
    BY <1>1, <2>1 DEF Spent
  <2> QED
    BY <2>3, <2>4 DEF Avoids
<1>4. ASSUME Tailing, pos > Len(data'[fd])
      PROVE  Disjoint(data'[fd], buf)
  <2>1. fd \in Inodes /\ (Grows \/ data'[fd] = data[fd] \/ data'[fd] = <<>>)
    BY <1>1, <1>4, LogEffect, Types
  <2>2. CASE data'[fd] = <<>>
    <3>1. DOMAIN data'[fd] = {}
      BY <2>2
    <3> QED
      BY <3>1 DEF Disjoint
  <2>3. CASE pos > Len(data[fd])
    <3>1. Disjoint(data[fd], buf)
      BY <1>4, <2>3 DEF Inv, SpentInv
    <3> QED
      BY <1>2, <2>1, <3>1, DisjointStep
  <2>4. CASE Grows /\ ~(pos > Len(data[fd]))
    <3>1. \/ data'[fd] = data[fd]
          \/ \E c \in Cell : data'[fd] = Append(data[fd], c)
      BY <1>1, <2>1, <2>4, GrowsFile
    <3>2. Len(data'[fd]) >= Len(data[fd]) /\ Len(data[fd]) \in Nat /\ Len(data'[fd]) \in Nat
      <4>1. data[fd] \in Seq(Cell)
        BY <1>2, <2>1
      <4>2. \A c \in Cell : /\ Len(Append(data[fd], c)) = Len(data[fd]) + 1
                            /\ Len(data[fd]) \in Nat
        BY <4>1
      <4>3. Len(data[fd]) \in Nat
        BY <4>1
      <4> QED
        BY <3>1, <4>2, <4>3
    <3>3. pos \in Nat
      BY <1>1, Types
    <3> QED
      BY <1>4, <2>4, <3>2, <3>3
  <2> QED
    BY <1>4, <2>1, <2>2, <2>3, <2>4
<1>5. ASSUME Tailing, CreatePending', dir'[LogPath] # NoInode
      PROVE  /\ dir'[LogPath] # fd
             /\ Disjoint(data'[dir'[LogPath]], buf)
             /\ Disjoint(data'[dir'[LogPath]], data'[fd])
  <2>1. CASE ~Exists(LogPath)
    <3>1. dir'[LogPath] # fd /\ data'[dir'[LogPath]] = <<>>
      BY <1>5, <2>1, LogEffect
    <3>2. DOMAIN data'[dir'[LogPath]] = {}
      BY <3>1
    <3> QED
      BY <3>1, <3>2 DEF Disjoint
  <2>2. CASE Exists(LogPath)
    <3> DEFINE i == dir[LogPath]
    <3>1. /\ dir'[LogPath] = i /\ i \in Inodes /\ fd \in Inodes
          /\ Grows \/ data'[i] = data[i] \/ data'[i] = <<>>
          /\ Grows \/ data'[fd] = data[fd] \/ data'[fd] = <<>>
      BY <1>1, <1>5, <2>2, LogEffect, Types DEF Exists
    <3>2. i # fd /\ Disjoint(data[i], buf) /\ Disjoint(data[i], data[fd])
      BY <1>1, <1>5, <2>2, PendingStep DEF Inv, SpentInv
    <3>3. Disjoint(data'[i], buf)
      BY <1>2, <3>1, <3>2, DisjointStep
    <3> HIDE DEF i
    <3>4. ASSUME data'[i] = data[i]
          PROVE  Disjoint(data'[i], data'[fd])
      <4>1. Disjoint(data[fd], data[i])
        BY <3>2 DEF Disjoint
      <4>2. Disjoint(data'[fd], data[i])
        BY <1>2, <3>1, <4>1, DisjointStep
      <4> QED
        BY <3>4, <4>2 DEF Disjoint
    <3>5. ASSUME data'[i] = <<>>
          PROVE  Disjoint(data'[i], data'[fd])
      <4>1. DOMAIN data'[i] = {}
        BY <3>5
      <4> QED
        BY <4>1 DEF Disjoint
    <3>6. ASSUME Grows, data'[i] # data[i]
          PROVE  Disjoint(data'[i], data'[fd])
      <4>1. data'[fd] = data[fd]
        BY <1>1, <3>1, <3>2, <3>6, GrowsFile
      <4>2. Disjoint(data'[i], data[fd])
        BY <1>2, <3>1, <3>2, DisjointStep
      <4> QED
        BY <4>1, <4>2
    <3>7. Disjoint(data'[i], data'[fd])
      BY <3>1, <3>4, <3>5, <3>6
    <3> QED
      BY <3>1, <3>2, <3>3, <3>7
  <2> QED
    BY <2>1, <2>2
<1> QED
  BY <1>1, <1>3, <1>4, <1>5 DEF SpentInv, Tailing, Exists

\* The directory keeps the invariant.
LEMMA DirectoryKeeps ==
    ASSUME Inv, DirectoryStep
    PROVE  FilesInv' /\ ReaderInv' /\ HistoryInv' /\ SpentInv' /\ TailsAtMostOnce'
<1>1. /\ UNCHANGED <<pc, fd, offset, pos, buf, drained, stored, old, imported, outrun>>
      /\ TypeOK
  BY DEF DirectoryStep, readerVars, auxVars, Inv
<1>2. FilesInv'
  <2>1. ApartInv' /\ CellsWritten' /\ written <= written'
    BY LogEffect DEF Effect
  <2>2. written \in Nat /\ written' \in Nat
    <3>1. DirTypeOK' /\ DirTypeOK
      BY <1>1, ServeType, RotateType DEF DirectoryStep, TypeOK
    <3> QED
      BY <3>1 DEF DirTypeOK
  <2>3. \A k \in DOMAIN buf : buf[k].line <= written'
    <3>1. buf \in Seq(Cell) /\ \A k \in DOMAIN buf : buf[k].line <= written
      BY <1>1, Types DEF Inv, FilesInv, NumberedInv
    <3> QED
      BY <2>1, <2>2, <3>1, NumberedLater
  <2>4. \A l \in Lines : l \in old \/ stored[l] > 0 => l <= written'
    <3>1. \A l \in Lines : l \in Nat /\ (l \in old \/ stored[l] > 0 => l <= written)
      BY DEF Inv, FilesInv, NumberedInv, Lines
    <3> QED
      BY <2>1, <2>2, <3>1
  <2> QED
    BY <1>1, <2>1, <2>3, <2>4 DEF FilesInv, NumberedInv
<1>3. ReaderInv'
  BY <1>1, LogEffect DEF ReaderInv, Inv, Tailing
<1>4. HistoryInv'
  <2>1. PICK X \in SUBSET Lines : X = old
    BY <1>1, Types
  <2>2. \A l \in X : l <= written
    BY <2>1 DEF Inv, FilesInv, NumberedInv
  <2>3. Avoids(X)'
    BY <2>1, <2>2, AvoidsDirectory DEF Inv, HistoryInv
  <2> QED
    BY <1>1, <2>1, <2>3 DEF HistoryInv, Avoids
<1>5. TailsAtMostOnce'
  BY <1>1 DEF Inv, TailsAtMostOnce
<1> QED
  BY <1>2, <1>3, <1>4, <1>5, SpentDirectory

-----------------------------------------------------------------------------
(* The invariant and the watcher.                                          *)

\* The watcher changes no file; what it read and stored was written.
LEMMA FilesKept ==
    ASSUME Inv, UNCHANGED dirVars,
           \A k \in DOMAIN buf' : buf'[k].line <= written,
           \A l \in Lines : l \in old' \/ stored'[l] > 0 => l <= written
    PROVE  FilesInv'
BY DEF Inv, FilesInv, ApartInv, NumberedInv, CellsWritten, Exists, dirVars

\* Only lines that were read are inserted.
LEMMA BatchWritten ==
    ASSUME Inv, NEW E \in SUBSET Entries(buf), InsertBatch(buf, E)
    PROVE  \A l \in Lines : stored'[l] > 0 => l <= written
<1> TAKE l \in Lines
<1>1. stored'[l] > 0 => stored[l] > 0 \/ \E i \in E : buf[i].line = l
  BY DEF InsertBatch
<1>2. \A i \in E : buf[i].line <= written
  BY DEF Inv, FilesInv, NumberedInv, Entries
<1>3. stored[l] > 0 => l <= written
  BY DEF Inv, FilesInv, NumberedInv
<1> QED
  BY <1>1, <1>2, <1>3

\* While no log is open nor about to be reopened nothing is at stake.
LEMMA AtRest ==
    ASSUME pc' \notin {"loop", "scan", "reopen"}, events' = <<>>
    PROVE  ReaderInv' /\ HistoryInv' /\ SpentInv'
<1>1. ~Tailing' /\ ~Renewed' /\ ~CreatePending'
  BY DEF Tailing, Renewed, CreatePending
<1>2. ReaderInv'
  BY <1>1 DEF ReaderInv, Tailing
<1>3. HistoryInv'
  BY <1>1 DEF HistoryInv, Avoids
<1>4. SpentInv'
  BY <1>1 DEF SpentInv, Avoids
<1> QED
  BY <1>2, <1>3, <1>4

\* Outside the loop there is no watch, hence no event.
LEMMA NoEvents ==
    ASSUME TypeOK, pc \notin {"open", "loop", "reopen", "scan"}
    PROVE  events = <<>>
BY DEF TypeOK, ControlTypeOK, FsTypeOK

\* Starting, importing archives, waiting and giving up keep the invariant.
LEMMA RestingStep ==
    ASSUME Inv,
           \/ Start \/ ImportOpen \/ ImportFlush \/ ImportDone \/ ImportEnd
           \/ AddWatch \/ OpenFails \/ ScanFails \/ Retry \/ Quit
           \/ ImportFails \/ Crash
    PROVE  FilesInv' /\ ReaderInv' /\ HistoryInv' /\ SpentInv' /\ TailsAtMostOnce'
<1>1. /\ TypeOK /\ UNCHANGED dirVars
      /\ pc' \notin {"loop", "scan", "reopen"} /\ events' = <<>>
  BY NoEvents
     DEF Inv, Start, ImportOpen, ImportFlush, ImportDone, ImportEnd, AddWatch, OpenFails,
         ScanFails, Retry, Quit, ImportFails, Crash, LeaveLoop, fsVars
<1>2. ReaderInv' /\ HistoryInv' /\ SpentInv'
  BY <1>1, AtRest
<1>3. /\ \A k \in DOMAIN buf : buf[k].line <= written
      /\ \A l \in Lines : l \in old \/ stored[l] > 0 => l <= written
      /\ buf \in Seq(Cell)
  BY <1>1, Types DEF Inv, FilesInv, NumberedInv
<1>4. DOMAIN <<>> = {}
  OBVIOUS
<1>5. CASE Start
  <2>1. \A l \in old' : l <= written
    <3>1. CASE Exists(LogPath)
      <4>1. old' = LinesIn(data[dir[LogPath]]) /\ dir[LogPath] \in Inodes
        BY <1>1, <1>5, <3>1, Types DEF Start, Exists
      <4> QED
        BY <4>1 DEF Inv, FilesInv, NumberedInv, CellsWritten, LinesIn, LinesAt
    <3>2. CASE ~Exists(LogPath)
      BY <1>5, <3>2 DEF Start
    <3> QED
      BY <3>1, <3>2
  <2>2. UNCHANGED <<buf, stored, imported, outrun>>
    BY <1>5 DEF Start, readerVars
  <2>3. FilesInv'
    BY <1>1, <1>3, <2>1, <2>2, FilesKept
  <2>4. TailsAtMostOnce'
    BY <2>2 DEF Inv, TailsAtMostOnce
  <2> QED
    BY <1>2, <2>3, <2>4
<1>6. CASE ImportFlush \/ ImportDone
  <2>1. PICK E \in SUBSET Entries(buf) :
           InsertBatch(buf, E) /\ imported' = imported \cup LinesAt(buf, E)
    BY <1>6 DEF ImportFlush, ImportDone
  <2>2. \A k \in DOMAIN buf' : buf'[k].line <= written
    <3>1. CASE ImportFlush
      <4>1. PICK k \in DOMAIN buf : buf' = SubSeq(buf, k + 1, Len(buf))
        BY <3>1 DEF ImportFlush
      <4>2. k \in 0..Len(buf)
        BY <1>3
      <4>3. /\ buf' \in Seq(Cell) /\ Len(buf') = Len(buf) - k
            /\ \A i \in 1..Len(buf') : buf'[i] = buf[k + i]
        BY <1>3, <4>1, <4>2, RestIs
      <4>4. ASSUME NEW i \in DOMAIN buf' PROVE buf'[i].line <= written
        <5>1. i \in 1..Len(buf') /\ k + i \in DOMAIN buf
          BY <1>3, <4>2, <4>3
        <5> QED
          BY <1>3, <4>3, <5>1
      <4> QED
        BY <4>4
    <3>2. CASE ImportDone
      BY <1>4, <3>2 DEF ImportDone, CloseFile
    <3> QED
      BY <1>6, <3>1, <3>2
  <2>3. \A l \in Lines : l \in old' \/ stored'[l] > 0 => l <= written
    <3>1. old' = old
      BY <1>6 DEF ImportFlush, ImportDone
    <3> QED
      BY <1>3, <2>1, <3>1, BatchWritten
  <2>4. FilesInv'
    BY <1>1, <2>2, <2>3, FilesKept
  <2>5. TailsAtMostOnce'
    <3> SUFFICES ASSUME NEW l \in Lines, stored'[l] > 1, ~outrun'
                 PROVE  l \in imported'
      BY DEF TailsAtMostOnce
    <3>1. outrun' = outrun
      BY <1>6 DEF ImportFlush, ImportDone
    <3>2. stored'[l] = stored[l] \/ \E i \in E : buf[i].line = l
      BY <2>1 DEF InsertBatch
    <3>3. stored[l] > 1 => l \in imported
      BY <3>1 DEF Inv, TailsAtMostOnce
    <3> QED
      BY <2>1, <3>2, <3>3 DEF LinesAt
  <2> QED
    BY <1>2, <2>4, <2>5
<1>7. CASE \/ ImportOpen \/ ImportEnd \/ AddWatch \/ OpenFails
           \/ ScanFails \/ Retry \/ Quit \/ ImportFails \/ Crash
  <2>1. /\ UNCHANGED <<stored, imported, outrun, old>>
        /\ buf' = buf \/ buf' = <<>>
    BY <1>7
       DEF ImportOpen, ImportEnd, AddWatch, OpenFails, ScanFails, Retry, Quit,
           ImportFails, Crash, LeaveLoop, CloseFile, NewScanner, readerVars, auxVars
  <2>2. FilesInv'
    BY <1>1, <1>3, <1>4, <2>1, FilesKept
  <2>3. TailsAtMostOnce'
    BY <2>1 DEF Inv, TailsAtMostOnce
  <2> QED
    BY <1>2, <2>2, <2>3
<1> QED
  BY <1>5, <1>6, <1>7

\* The log is opened: at its end, or from the start after a Create event.
LEMMA OpenKeeps ==
    ASSUME Inv, OpenAtEnd \/ Reopen
    PROVE  FilesInv' /\ ReaderInv' /\ HistoryInv' /\ SpentInv' /\ TailsAtMostOnce'
<1> DEFINE i == dir[LogPath]
           s == data[i]
<1>1. /\ TypeOK /\ Exists(LogPath) /\ i \in Inodes /\ s \in Seq(Cell) /\ Len(s) \in Nat
      /\ UNCHANGED dirVars /\ UNCHANGED <<stored, events, old, imported>>
      /\ fd' = i /\ buf' = <<>> /\ drained' = FALSE /\ offset' = pos' /\ pc' = "loop"
      /\ outrun' = (outrun \/ CreatePending)
  BY Types DEF OpenAtEnd, Reopen, NewScanner, Inv, fsVars, Exists
<1>2. /\ pos' \in Nat /\ pos' <= Len(s)
      /\ (pos' = Len(s) \/ (pos' = 0 /\ pc = "reopen"))
  BY <1>1 DEF OpenAtEnd, Reopen, NewScanner
<1> HIDE DEF s, i
<1>3. UNCHANGED <<data, dir>> /\ data[i] = s /\ dir[LogPath] = i /\ DOMAIN <<>> = {}
  BY <1>1 DEF dirVars, s, i
<1>4. FilesInv'
  <2>1. \A l \in Lines : l \in old' \/ stored'[l] > 0 => l <= written
    BY <1>1 DEF Inv, FilesInv, NumberedInv
  <2> QED
    BY <1>1, <1>3, <2>1, FilesKept
<1>5. ReaderInv'
  <2>1. \A q \in Rotating : dir[ArchiveName[q]] # i
    BY <1>1, <1>3, Types DEF Inv, FilesInv, ApartInv, LogIsLive
  <2>2. ~drained'
    BY <1>1
  <2>3. pc' = "loop" => buf' = <<>> /\ offset' = pos'
    BY <1>1
  <2> QED
    BY <1>1, <1>3, <2>1, <2>2, <2>3 DEF ReaderInv
<1>6. ASSUME NEW X, Avoids(X) PROVE Avoids(X)'
  <2>1. ~(pos' > Len(s))
    BY <1>1, <1>2
  <2>2. Ahead(s, pos', <<>>, X)
    <3>1. CASE pos' = Len(s)
      <4>1. \A k \in DOMAIN s : ~(k > pos')
        BY <1>1, <3>1
      <4> QED
        BY <1>3, <4>1 DEF Ahead
    <3>2. CASE pc = "reopen"
      <4>1. Clear(s, X)
        BY <1>1, <1>3, <1>6, <3>2 DEF Avoids, Renewed
      <4> QED
        BY <1>3, <4>1 DEF Clear, Ahead
    <3> QED
      BY <1>2, <3>1, <3>2
  <2>3. Renewed' => Renewed
    BY <1>1 DEF Renewed, CreatePending
  <2>4. Renewed' => Clear(s, X)
    BY <1>1, <1>3, <1>6, <2>3 DEF Avoids
  <2> QED
    BY <1>1, <1>3, <2>1, <2>2, <2>4 DEF Avoids, Behind
<1>7. HistoryInv'
  <2>1. PICK X : X = old
    OBVIOUS
  <2>2. Avoids(X)'
    BY <1>6, <2>1 DEF Inv, HistoryInv
  <2> QED
    BY <1>1, <2>1, <2>2 DEF HistoryInv, Avoids
<1>8. SpentInv'
  <2> SUFFICES ASSUME ~outrun, ~CreatePending
               PROVE  /\ Avoids(Spent)'
                      /\ ~(pos' > Len(data'[fd']))
                      /\ ~CreatePending'
    BY <1>1 DEF SpentInv
  <2>1. PICK X : X = Spent
    OBVIOUS
  <2>2. Avoids(X)'
    BY <1>6, <2>1 DEF Inv, SpentInv
  <2>3. Spent' = X
    BY <1>1, <2>1 DEF Spent
  <2>4. ~(pos' > Len(data'[fd'])) /\ ~CreatePending'
    BY <1>1, <1>2, <1>3 DEF CreatePending
  <2> QED
    BY <2>2, <2>3, <2>4 DEF Avoids
<1>9. TailsAtMostOnce'
  BY <1>1 DEF Inv, TailsAtMostOnce
<1> QED
  BY <1>4, <1>5, <1>7, <1>8, <1>9

\* A Create event is taken, and the old log closed.
LEMMA CreateKeeps ==
    ASSUME Inv, TakeCreate
    PROVE  FilesInv' /\ ReaderInv' /\ HistoryInv' /\ SpentInv' /\ TailsAtMostOnce'
<1>1. /\ TypeOK /\ UNCHANGED dirVars /\ UNCHANGED <<stored, old, imported, outrun>>
      /\ buf' = <<>> /\ pc' = "reopen" /\ DOMAIN <<>> = {}
      /\ events \in Seq({"create", "write"}) /\ events # <<>> /\ events[1] = "create"
  BY DEF TakeCreate, CloseFile, Inv, auxVars, TypeOK, FsTypeOK
<1>2. CreatePending
  <2>1. 1 \in DOMAIN events
    BY <1>1
  <2> QED
    BY <1>1, <2>1 DEF CreatePending
<1>3. ~Tailing' /\ UNCHANGED <<data, dir>>
  BY <1>1 DEF Tailing, dirVars
<1>4. FilesInv'
  BY <1>1, FilesKept DEF Inv, FilesInv, NumberedInv
<1>5. ReaderInv'
  BY <1>1, <1>3 DEF ReaderInv, Tailing
<1>6. HistoryInv'
  BY <1>1, <1>2, <1>3 DEF Inv, HistoryInv, Avoids, Tailing, Renewed, Exists
<1>7. SpentInv'
  <2>1. Spent' = Spent
    BY <1>1 DEF Spent
  <2> QED
    BY <1>1, <1>2, <1>3, <2>1 DEF Inv, SpentInv, Avoids, Tailing, Renewed, Exists
<1>8. TailsAtMostOnce'
  BY <1>1 DEF Inv, TailsAtMostOnce
<1> QED
  BY <1>4, <1>5, <1>6, <1>7, <1>8

\* What is pending was pending before an event was taken.
LEMMA PendingTail ==
    ASSUME NEW e \in Seq({"create", "write"}), e # <<>>, NEW n \in DOMAIN Tail(e)
    PROVE  n + 1 \in DOMAIN e /\ Tail(e)[n] = e[n + 1]
OBVIOUS

\* A Write event is taken: the scanner goes on, or after a truncation a new one
\* reads from the start.
LEMMA WriteKeeps ==
    ASSUME Inv, TakeWrite
    PROVE  FilesInv' /\ ReaderInv' /\ HistoryInv' /\ SpentInv' /\ TailsAtMostOnce'
<1>1. /\ TypeOK /\ UNCHANGED dirVars /\ UNCHANGED <<stored, old, imported, outrun>>
      /\ Tailing /\ pc' = "scan" /\ offset = pos /\ buf = <<>> /\ fd \in Inodes
      /\ events \in Seq({"create", "write"}) /\ events # <<>> /\ events' = Tail(events)
  BY Types DEF TakeWrite, Inv, auxVars, TypeOK, FsTypeOK, Tailing, ReaderInv
<1>2. /\ UNCHANGED <<data, dir>> /\ Tailing' /\ fd' = fd /\ buf' = <<>>
      /\ DOMAIN <<>> = {}
  BY <1>1 DEF dirVars, Tailing, TakeWrite, NewScanner, readerVars
<1>3. CreatePending' => CreatePending
  BY <1>1, PendingTail DEF CreatePending
<1>4. FilesInv'
  BY <1>1, <1>2, FilesKept DEF Inv, FilesInv, NumberedInv
<1>5. ReaderInv'
  BY <1>1, <1>2 DEF ReaderInv, Tailing, Inv
<1> DEFINE s == data[fd]
<1>6. \/ pos' = pos /\ drained' = drained
      \/ pos' = 0 /\ drained' = FALSE /\ pos > Len(s)
  BY <1>1 DEF TakeWrite, NewScanner, readerVars, Truncated
<1>7. pos \in Nat /\ Len(s) \in Nat /\ data'[fd'] = s
  <2>1. s \in Seq(Cell)
    BY <1>1, Types
  <2> QED
    BY <1>1, <1>2, <2>1, Types
<1> HIDE DEF s
<1>8. ASSUME NEW X, Avoids(X) PROVE Avoids(X)'
  <2>1. Behind(s, pos, X) /\ (~drained => Ahead(s, pos, <<>>, X))
    BY <1>1, <1>8 DEF Avoids, s
  <2>2. Behind(s, pos', X) /\ (~drained' => Ahead(s, pos', <<>>, X))
    <3>1. CASE pos' = pos /\ drained' = drained
      BY <2>1, <3>1
    <3>2. CASE pos' = 0 /\ pos > Len(s)
      <4>1. Clear(s, X)
        BY <2>1, <3>2 DEF Behind
      <4> QED
        BY <1>2, <3>2, <4>1 DEF Behind, Clear, Ahead
    <3> QED
      BY <1>6, <3>1, <3>2
  <2>3. Renewed' => Renewed
    BY <1>1, <1>3 DEF Renewed
  <2> QED
    BY <1>2, <1>7, <1>8, <2>2, <2>3 DEF Avoids, Exists
<1>9. HistoryInv'
  <2>1. PICK X : X = old
    OBVIOUS
  <2>2. Avoids(X)'
    BY <1>8, <2>1 DEF Inv, HistoryInv
  <2> QED
    BY <1>1, <2>1, <2>2 DEF HistoryInv, Avoids
<1>10. SpentInv'
  <2> SUFFICES ASSUME ~outrun
               PROVE  SpentInv'
    BY <1>1 DEF SpentInv
  <2>1. PICK X : X = Spent
    OBVIOUS
  <2>2. Avoids(X)'
    BY <1>8, <2>1 DEF Inv, SpentInv
  <2>3. Spent' = X
    BY <1>1, <2>1 DEF Spent
  <2>4. Avoids(Spent)'
    BY <2>2, <2>3 DEF Avoids
  <2>5. \A t : Disjoint(t, <<>>)
    BY <1>2 DEF Disjoint
  <2>6. ASSUME CreatePending', Exists(LogPath)
        PROVE  dir[LogPath] # fd /\ Disjoint(data[dir[LogPath]], data[fd])
    BY <1>1, <1>3, <2>6 DEF Inv, SpentInv
  <2> QED
    BY <1>1, <1>2, <2>4, <2>5, <2>6 DEF SpentInv, Exists
<1>11. TailsAtMostOnce'
  BY <1>1 DEF Inv, TailsAtMostOnce
<1> QED
  BY <1>4, <1>5, <1>9, <1>10, <1>11

\* The cells of two buffers one behind the other.
LEMMA ConcatCells ==
    ASSUME NEW b \in Seq(Cell), NEW c \in Seq(Cell), NEW k \in DOMAIN (b \o c)
    PROVE  \/ k \in DOMAIN b /\ (b \o c)[k] = b[k]
           \/ \E m \in DOMAIN c : (b \o c)[k] = c[m]
<1> DEFINE d == b \o c
<1>1. /\ DOMAIN d = 1..(Len(b) + Len(c)) /\ Len(b) \in Nat /\ Len(c) \in Nat
      /\ \A i \in 1..Len(b) : d[i] = b[i]
      /\ \A i \in 1..Len(c) : d[Len(b) + i] = c[i]
      /\ DOMAIN b = 1..Len(b) /\ DOMAIN c = 1..Len(c)
  OBVIOUS
<1>2. k \in DOMAIN d
  OBVIOUS
<1> HIDE DEF d
<1>3. CASE k <= Len(b)
  BY <1>1, <1>2, <1>3 DEF d
<1>4. CASE k > Len(b)
  <2>1. k - Len(b) \in DOMAIN c /\ k = Len(b) + (k - Len(b))
    BY <1>1, <1>2, <1>4
  <2>2. d[k] = c[k - Len(b)]
    BY <1>1, <2>1
  <2> QED
    BY <2>1, <2>2 DEF d
<1> QED
  BY <1>1, <1>2, <1>3, <1>4

\* What the scanner reads is in the file.
LEMMA ChunkCells ==
    ASSUME NEW s \in Seq(Cell), NEW at \in Nat, at < Len(s), NEW m \in DOMAIN Chunk(s, at)
    PROVE  \E k \in DOMAIN s : Chunk(s, at)[m] = s[k]
<1> DEFINE c == Chunk(s, at)
<1>1. /\ c \in Seq(Cell) /\ at + Len(c) <= Len(s) /\ Len(c) \in Nat
      /\ \A i \in 1..Len(c) : c[i] = s[at + i]
  BY ChunkIsNext
<1>2. m \in DOMAIN c
  OBVIOUS
<1> HIDE DEF c
<1>3. m \in 1..Len(c) /\ DOMAIN s = 1..Len(s) /\ Len(s) \in Nat
  BY <1>1, <1>2
<1>4. at + m \in DOMAIN s
  BY <1>1, <1>3
<1> QED
  BY <1>1, <1>3, <1>4 DEF c

\* The scanner reads on.
LEMMA ReadKeeps ==
    ASSUME Inv, ReadChunk
    PROVE  FilesInv' /\ ReaderInv' /\ HistoryInv' /\ SpentInv' /\ TailsAtMostOnce'
<1> DEFINE s == data[fd]
           c == Chunk(s, pos)
<1>1. /\ TypeOK /\ UNCHANGED dirVars
      /\ UNCHANGED <<stored, old, imported, outrun, events, pc, fd, offset, drained>>
      /\ pc \in {"importing", "scan"} /\ ~drained
      /\ buf' = buf \o c /\ pos' = pos + Len(c) /\ pos < Len(s)
      /\ buf \in Seq(Cell) /\ s \in Seq(Cell) /\ fd \in Inodes /\ pos \in Nat
  BY ReadType, Types DEF ReadChunk, Inv, auxVars, fsVars, AtEOF
<1>2. c \in Seq(Cell) /\ pos + Len(c) <= Len(s)
  BY <1>1, ChunkIsNext
<1>3. \A m \in DOMAIN c : \E k \in DOMAIN s : c[m] = s[k]
  BY <1>1, ChunkCells
<1>4. UNCHANGED <<data, dir>> /\ data'[fd'] = s
  BY <1>1 DEF dirVars
<1>5. ASSUME NEW X, Ahead(s, pos, buf, X) PROVE Ahead(s, pos', buf', X)
  BY <1>1, <1>5, AheadRead
<1> HIDE DEF c
<1>6. ASSUME NEW k \in DOMAIN buf'
      PROVE  \/ k \in DOMAIN buf /\ buf'[k] = buf[k]
             \/ \E m \in DOMAIN s : buf'[k] = s[m]
  BY <1>1, <1>2, <1>3, <1>6, ConcatCells
<1>7. FilesInv'
  <2>1. \A k \in DOMAIN buf' : buf'[k].line <= written
    BY <1>1, <1>6 DEF Inv, FilesInv, NumberedInv, CellsWritten
  <2> QED
    BY <1>1, <2>1, FilesKept DEF Inv, FilesInv, NumberedInv
<1>8. TailsAtMostOnce'
  BY <1>1 DEF Inv, TailsAtMostOnce
<1>9. CASE pc = "importing"
  <2>1. events = <<>>
    BY <1>1, <1>9, NoEvents
  <2> QED
    BY <1>1, <1>7, <1>8, <1>9, <2>1, AtRest
<1>10. CASE pc = "scan"
  <2>1. /\ Tailing /\ Tailing'
        /\ CreatePending' = CreatePending /\ Renewed' = Renewed
    BY <1>1, <1>10 DEF Tailing, Renewed, CreatePending
  <2>2. ~(pos' > Len(data'[fd']))
    <3>1. Len(c) \in Nat /\ Len(s) \in Nat
      BY <1>1, <1>2
    <3> HIDE DEF s
    <3> QED
      BY <1>1, <1>2, <1>4, <3>1
  <2>3. ReaderInv'
    BY <1>1, <1>4, <1>10, <2>1 DEF ReaderInv, Inv
  <2>4. ASSUME NEW X, Avoids(X) PROVE Avoids(X)'
    <3>1. Ahead(s, pos', buf', X)
      BY <1>1, <1>5, <2>1, <2>4 DEF Avoids
    <3>2. Behind(data'[fd'], pos', X)
      BY <2>2 DEF Behind
    <3> HIDE DEF s
    <3> QED
      BY <1>1, <1>4, <2>1, <2>4, <3>1, <3>2 DEF Avoids, Exists
  <2>5. HistoryInv'
    <3>1. PICK X : X = old
      OBVIOUS
    <3>2. Avoids(X)'
      BY <2>4, <3>1 DEF Inv, HistoryInv
    <3> QED
      BY <1>1, <3>1, <3>2 DEF HistoryInv, Avoids
  <2>6. SpentInv'
    <3> SUFFICES ASSUME ~outrun PROVE SpentInv'
      BY <1>1 DEF SpentInv
    <3>1. PICK X : X = Spent
      OBVIOUS
    <3>2. Avoids(X)'
      BY <2>4, <3>1 DEF Inv, SpentInv
    <3>3. Spent' = X
      BY <1>1, <3>1 DEF Spent
    <3>4. Avoids(Spent)'
      BY <3>2, <3>3 DEF Avoids
    <3>5. ASSUME CreatePending, Exists(LogPath)
          PROVE  /\ dir[LogPath] # fd
                 /\ Disjoint(data[dir[LogPath]], buf')
                 /\ Disjoint(data[dir[LogPath]], s)
      <4>1. /\ dir[LogPath] # fd
            /\ Disjoint(data[dir[LogPath]], buf)
            /\ Disjoint(data[dir[LogPath]], s)
        BY <2>1, <3>5 DEF Inv, SpentInv
      <4> HIDE DEF s
      <4>2. Disjoint(data[dir[LogPath]], buf')
        BY <1>6, <4>1 DEF Disjoint
      <4> QED
        BY <4>1, <4>2
    <3> QED
      BY <1>1, <1>4, <2>1, <2>2, <3>4, <3>5 DEF SpentInv, Exists
  <2> QED
    BY <1>7, <1>8, <2>3, <2>5, <2>6
<1> QED
  BY <1>1, <1>9, <1>10

\* The lines a scan completes are none that the scanner avoids.
LEMMA EntriesAvoid ==
    ASSUME NEW s \in Seq(Cell), NEW at, NEW b, NEW X, Ahead(s, at, b, X), NEW i \in Entries(b)
    PROVE  b[i].line \notin X
<1>1. i \in DOMAIN b /\ Completes(b, i)
  BY DEF Entries
<1>2. b[i].line \in X => i = 1 /\ b[i].part = "tail"
  BY <1>1 DEF Ahead
<1> QED
  BY <1>1, <1>2 DEF Completes

\* When the scanner is at the end of the file, its lines are inserted, or lost
\* with an error; it reads no more.
LEMMA DoneKeeps ==
    ASSUME Inv, InsertScanned \/ InsertFails
    PROVE  FilesInv' /\ ReaderInv' /\ HistoryInv' /\ SpentInv' /\ TailsAtMostOnce'
<1> DEFINE s == data[fd]
<1>1. /\ TypeOK /\ UNCHANGED dirVars /\ UNCHANGED <<events, fd, pos, old, imported, outrun>>
      /\ pc = "scan" /\ pc' = "loop" /\ drained' = TRUE /\ buf' = <<>> /\ offset' = pos
      /\ fd \in Inodes /\ s \in Seq(Cell) /\ buf \in Seq(Cell) /\ Tailing /\ Tailing'
  BY Types DEF InsertScanned, InsertFails, ScanDone, Inv, fsVars, Tailing
<1>2. UNCHANGED <<data, dir>> /\ data'[fd'] = s /\ DOMAIN <<>> = {} /\ drained'
  BY <1>1 DEF dirVars
<1>3. \/ stored' = stored
      \/ InsertBatch(buf, Entries(buf))
  BY DEF InsertScanned, InsertFails
<1>4. FilesInv'
  <2>1. \A l \in Lines : stored'[l] > 0 => l <= written
    BY <1>3, BatchWritten DEF Inv, FilesInv, NumberedInv
  <2> QED
    BY <1>1, <1>2, <2>1, FilesKept DEF Inv, FilesInv, NumberedInv
<1>5. ReaderInv'
  BY <1>1, <1>2 DEF ReaderInv, Inv
<1>6. \A l \in Lines : stored'[l] # stored[l] =>
         /\ stored'[l] = stored[l] + 1
         /\ \E i \in Entries(buf) : buf[i].line = l
  BY <1>3 DEF InsertBatch
<1>7. Spent' \subseteq Spent \cup {buf[k].line : k \in DOMAIN buf}
  <2> SUFFICES ASSUME NEW l \in Lines, stored'[l] > 0, l \notin imported,
                      l \notin {buf[k].line : k \in DOMAIN buf}
               PROVE  stored[l] > 0
    BY <1>1 DEF Spent
  <2>1. ~\E i \in Entries(buf) : buf[i].line = l
    BY DEF Entries
  <2> QED
    BY <1>6, <2>1
<1>8. Renewed' = CreatePending /\ CreatePending' = CreatePending
  BY <1>1 DEF Renewed, CreatePending
<1> HIDE DEF s
<1>9. HistoryInv'
  <2>1. Behind(s, pos, old) /\ (CreatePending /\ Exists(LogPath) => Clear(data[dir[LogPath]], old))
    BY <1>1 DEF Inv, HistoryInv, Avoids, Renewed, s
  <2> QED
    BY <1>1, <1>2, <1>8, <2>1 DEF HistoryInv, Avoids, Exists
<1>10. SpentInv'
  <2> SUFFICES ASSUME ~outrun PROVE SpentInv'
    BY <1>1 DEF SpentInv
  <2>1. /\ Behind(s, pos, Spent)
        /\ pos > Len(s) => Disjoint(s, buf)
        /\ CreatePending /\ Exists(LogPath) =>
              /\ Clear(data[dir[LogPath]], Spent) /\ Disjoint(data[dir[LogPath]], buf)
              /\ dir[LogPath] # fd /\ Disjoint(data[dir[LogPath]], s)
    BY <1>1 DEF Inv, SpentInv, Avoids, Renewed, s
  <2>2. ASSUME NEW t, Clear(t, Spent), Disjoint(t, buf)
        PROVE  Clear(t, Spent')
    BY <1>7, <2>2 DEF Clear, Disjoint
  <2>3. Behind(s, pos, Spent')
    BY <2>1, <2>2 DEF Behind
  <2>4. CreatePending /\ Exists(LogPath) => Clear(data[dir[LogPath]], Spent')
    BY <2>1, <2>2
  <2>5. Avoids(Spent)'
    BY <1>1, <1>2, <1>8, <2>3, <2>4 DEF Avoids, Exists
  <2>6. \A t : Disjoint(t, buf')
    BY <1>1, <1>2 DEF Disjoint
  <2> QED
    BY <1>1, <1>2, <1>8, <2>1, <2>5, <2>6 DEF SpentInv, Exists
<1>11. TailsAtMostOnce'
  <2> SUFFICES ASSUME NEW l \in Lines, stored'[l] > 1, ~outrun, l \notin imported
               PROVE  FALSE
    BY <1>1 DEF TailsAtMostOnce
  <2>1. ~(stored[l] > 1)
    BY DEF Inv, TailsAtMostOnce
  <2>2. PICK i \in Entries(buf) : buf[i].line = l /\ stored'[l] = stored[l] + 1
    BY <1>6, <2>1
  <2>3. stored[l] \in Nat /\ stored[l] > 0
    <3>1. stored[l] \in 0..MaxStored /\ MaxStored \in Nat
      BY <1>1, Types
    <3> QED
      BY <2>2, <3>1
  <2>4. l \in Spent
    BY <2>3 DEF Spent
  <2>5. CASE drained
    <3>1. buf = <<>>
      BY <1>1, <2>5 DEF Inv, ReaderInv
    <3> QED
      BY <1>2, <2>2, <3>1 DEF Entries
  <2>6. CASE ~drained
    <3>1. Ahead(s, pos, buf, Spent)
      BY <1>1, <2>6 DEF Inv, SpentInv, Avoids, s
    <3> QED
      BY <1>1, <2>2, <2>4, <3>1, EntriesAvoid
  <2> QED
    BY <2>5, <2>6
<1> QED
  BY <1>4, <1>5, <1>9, <1>10, <1>11

-----------------------------------------------------------------------------
(* The theorems.                                                           *)

\* The invariant holds at the start.
LEMMA InitInv == ASSUME LogIsLive, Init PROVE Inv
<1>1. TypeOK
  BY TypeInit
<1>2. /\ \A p \in Paths : dir[p] = NoInode
      /\ \A i \in Inodes : data[i] = <<>>
      /\ \A l \in Lines : stored[l] = 0
      /\ pc = "stopped" /\ events = <<>> /\ buf = <<>> /\ old = {} /\ DOMAIN <<>> = {}
  BY DEF Init, DirInit, StoredInit
<1>3. FilesInv
  BY <1>2 DEF FilesInv, ApartInv, NumberedInv, CellsWritten, Exists
<1>4. ~Tailing /\ ~Renewed /\ ~CreatePending
  BY <1>2 DEF Tailing, Renewed, CreatePending
<1>5. ReaderInv /\ HistoryInv /\ SpentInv
  BY <1>2, <1>4 DEF ReaderInv, HistoryInv, SpentInv, Avoids
<1>6. TailsAtMostOnce
  BY <1>2 DEF TailsAtMostOnce
<1> QED
  BY <1>1, <1>3, <1>5, <1>6 DEF Inv

\* What neither the watcher nor the directory touches stays as it is.
LEMMA IdleKeeps ==
    ASSUME Inv, Cancel \/ UNCHANGED vars
    PROVE  FilesInv' /\ ReaderInv' /\ HistoryInv' /\ SpentInv' /\ TailsAtMostOnce'
<1>1. UNCHANGED <<dirVars, stored, fsVars, pc, readerVars, auxVars>>
  BY DEF Cancel, vars
<1>2. FilesInv'
  BY <1>1, FilesKept DEF Inv, FilesInv, NumberedInv, readerVars, auxVars
<1>3. ReaderInv'
  BY <1>1 DEF Inv, ReaderInv, Tailing, dirVars, readerVars
<1>4. HistoryInv'
  BY <1>1 DEF Inv, HistoryInv, Avoids, Tailing, Renewed, CreatePending, Exists,
              dirVars, readerVars, fsVars, auxVars
<1>5. SpentInv'
  <2>1. Spent' = Spent
    BY <1>1 DEF Spent, auxVars
  <2> QED
    BY <1>1, <2>1 DEF Inv, SpentInv, Avoids, Tailing, Renewed, CreatePending, Exists,
                      dirVars, readerVars, fsVars, auxVars
<1>6. TailsAtMostOnce'
  BY <1>1 DEF Inv, TailsAtMostOnce, auxVars
<1> QED
  BY <1>2, <1>3, <1>4, <1>5, <1>6

\* Every step keeps the invariant.
LEMMA StepInv == Inv /\ [Next]_vars => Inv'
<1> SUFFICES ASSUME Inv, [Next]_vars PROVE Inv'
  OBVIOUS
<1>1. TypeOK'
  BY TypeStep DEF Inv
<1>2. LogIsLive'
  BY DEF Inv, LogIsLive
<1>3. FilesInv' /\ ReaderInv' /\ HistoryInv' /\ SpentInv' /\ TailsAtMostOnce'
  BY RestingStep, OpenKeeps, CreateKeeps, WriteKeeps, ReadKeeps, DoneKeeps, IdleKeeps,
     DirectoryKeeps DEF Next, Worker
<1> QED
  BY <1>1, <1>2, <1>3 DEF Inv

\* The invariant always holds.
LEMMA Invariant == ASSUME LogIsLive PROVE Spec => []Inv
<1>1. Init => Inv
  BY InitInv
<1> QED
  BY <1>1, StepInv, PTL DEF Spec

\* A scan inserts no line of the history.
LEMMA ScanLeavesHistory == Inv /\ [Next]_vars => HistoryIsLeft
<1> SUFFICES ASSUME Inv, [Next]_vars, pc = "scan", NEW l \in old
             PROVE  stored'[l] = stored[l]
  BY DEF HistoryIsLeft
<1>1. stored' = stored \/ (InsertScanned /\ InsertBatch(buf, Entries(buf)))
  BY DEF Next, Worker, Start, ImportOpen, ImportFlush, ImportDone, ImportEnd, AddWatch,
         OpenAtEnd, OpenFails, TakeCreate, Reopen, TakeWrite, ReadChunk, InsertScanned,
         InsertFails, ScanFails, Retry, Quit, ImportFails, Crash, Cancel, DirectoryStep,
         vars
<1>2. CASE InsertScanned /\ InsertBatch(buf, Entries(buf))
  <2>1. /\ Tailing /\ fd \in Inodes /\ data[fd] \in Seq(Cell) /\ l \in Lines
        /\ DOMAIN <<>> = {}
    BY Types DEF Inv, Tailing
  <2>2. ~\E i \in Entries(buf) : buf[i].line = l
    <3>1. CASE drained
      <4>1. buf = <<>>
        BY <2>1, <3>1 DEF Inv, ReaderInv
      <4> QED
        BY <2>1, <4>1 DEF Entries
    <3>2. CASE ~drained
      <4>1. Ahead(data[fd], pos, buf, old)
        BY <2>1, <3>2 DEF Inv, HistoryInv, Avoids
      <4> QED
        BY <2>1, <4>1, EntriesAvoid
    <3> QED
      BY <3>1, <3>2
  <2> QED
    BY <1>2, <2>1, <2>2 DEF InsertBatch
<1> QED
  BY <1>1, <1>2

\* Only new entries are processed: whatever rotations, truncations, retries,
\* crashes and restarts follow, no line that was in the log when Watch was
\* called is inserted by the tail.
THEOREM HistoryIsNeverRead == ASSUME LogIsLive PROVE Spec => NeverReadsHistory
<1>1. Spec => []Inv
  BY Invariant
<1> QED
  BY <1>1, ScanLeavesHistory, PTL DEF Spec, NeverReadsHistory

\* The tail inserts no line twice, as long as it never opened a log whose Create
\* event it had still to take.
THEOREM NothingTailedTwice == ASSUME LogIsLive PROVE Spec => []TailsAtMostOnce
<1>1. Spec => []Inv
  BY Invariant
<1>2. Inv => TailsAtMostOnce
  BY DEF Inv
<1> QED
  BY <1>1, <1>2, PTL
=============================================================================
