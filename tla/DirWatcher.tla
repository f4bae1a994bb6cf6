----------------------------- MODULE DirWatcher -----------------------------
(***************************************************************************)
(* internal/watcher/dir.go: one directory source.  The watcher scans the   *)
(* directory at once and then on every tick; for each matched file it      *)
(* stats the path, loads the file's row of the file_state table, reads the *)
(* head of the file, decides where to resume, opens the file again, reads  *)
(* to the end inserting parsed lines in batches, and saves the row.  Every *)
(* one of those calls is a step of its own, because the servers and the    *)
(* rotator (LogDirectory) act between any two of them, and so does a crash.*)
(*                                                                         *)
(* mtime is left out: it only decides whether a row that would not change  *)
(* is written again.  A missing root is a root without files.              *)
(***************************************************************************)
EXTENDS Ingest

CONSTANTS
    Rank,             \* Rank[p]: the place of p in WalkDir's lexical order
    Nested,           \* the names below a subdirectory of the root
    Recursive,        \* src.Recursive
    Matching,         \* the names src.Pattern matches
    Compressed,       \* the names isCompressed recognises
    Gzip,             \* those of them that end in .gz
    ReadCompressed,   \* src.ReadCompressed
    FingerprintSize,  \* storage.FingerprintSize, in cells
    NoRow,            \* GetFileState found no row
    MaxFaults,        \* bound: crashes and database errors
    MaxStops          \* bound: graceful stops

ASSUME SourceAssumption ==
    /\ Rank \in [Paths -> Nat]
    /\ \A p, q \in Paths : Rank[p] = Rank[q] => p = q
    /\ Nested \subseteq Paths /\ Matching \subseteq Paths
    /\ Gzip \subseteq Compressed /\ Compressed \subseteq Paths
    /\ Recursive \in BOOLEAN /\ ReadCompressed \in BOOLEAN

ASSUME LimitsAssumption ==
    /\ FingerprintSize \in Nat \ {0}
    /\ MaxFaults \in Nat
    /\ MaxStops \in Nat

Row == [inode : Inodes, size : Nat, offset : Nat, fingerprint : Seq(Cell)]

ASSUME NoRowAssumption == NoRow \notin Row

VARIABLES
    fileState,  \* fileState[p]: the row of p in the file_state table, or NoRow
    pc,         \* where the watcher's goroutine is
    cancelled,  \* its context is cancelled
    todo,       \* the directory entries the current walk has still to visit
    job,        \* the locals of handleFile and consumeRange
    faults,     \* crashes and database errors so far
    stops,      \* graceful stops so far
    excused,    \* auxiliary: lines inserted by a handleFile that failed, that a
                \* rotation overlapped, or that saved a fingerprint too short
    blind,      \* auxiliary: the names that got a row without a fingerprint
    halved      \* auxiliary: lines of which a scan found only the first half

workerVars == <<pc, todo, job>>
dbVars == <<stored, fileState>>
lifeVars == <<cancelled, faults, stops>>
auxVars == <<excused, blind, halved>>
vars == <<dirVars, dbVars, workerVars, lifeVars, auxVars>>

-----------------------------------------------------------------------------
(* Helpers.                                                                *)

\* The names a walk passes to handleFile: the top level only unless the
\* source is recursive, and only basenames the pattern matches.
Visible(p) == p \in Matching /\ (Recursive \/ p \notin Nested)

\* The names ReadDir returned.  The root's are known when the walk starts; a
\* subdirectory is read when the walk gets to it, so a nested name may appear
\* until then (StatFile finds out).
Listed == {p \in Paths : Visible(p) /\ (Exists(p) \/ p \in Nested)}

\* The entry the walk visits next.
NextEntry(p) == p \in todo /\ \A q \in todo : Rank[p] <= Rank[q]

\* readFingerprint: the head of the file, all of it when it is shorter.
Fingerprint(s) == Prefix(s, FingerprintSize)

\* A head that changes when the file grows.
Short(head) == Len(head) < FingerprintSize

\* Mutant of Resume: the stored fingerprint is not compared.
ResumeIgnoringHead(row, inode, size, fingerprint) ==
    IF row = NoRow \/ row.inode # inode \/ size < row.offset THEN 0 ELSE row.offset

\* Where handleFile resumes a plain file that has this inode, size and head.
Resume(row, inode, size, fingerprint) ==
    CASE row = NoRow -> 0
      [] row # NoRow /\ row.inode # inode -> 0
      [] row # NoRow /\ row.inode = inode /\ size < row.offset -> 0
      [] row # NoRow /\ row.inode = inode /\ size >= row.offset ->
            IF row.fingerprint # <<>> /\ fingerprint # row.fingerprint
            THEN 0
            ELSE row.offset

NoJob == [path |-> CHOOSE p \in Paths : TRUE, inode |-> NoInode, size |-> 0,
          prev |-> NoRow, fingerprint |-> <<>>, offset |-> 0,
          fd |-> NoInode, pos |-> 0, buf |-> <<>>,
          inserted |-> {}, overlapped |-> FALSE]

\* The inode the watcher's process has open.
Held == {job.fd} \ {NoInode}

Handling == pc \in {"fingerprint", "open", "read", "commit"}

\* handleFile returns an error.
Excuse(lines) == excused' = excused \cup lines

\* handleFile returns; WalkDir goes on to the next entry.
NextFile ==
    /\ pc' = "walk"
    /\ job' = NoJob
    /\ UNCHANGED todo

\* Once handleFile has its stat, the inode is that of a file; in "read" the
\* file is open.
Job == [path : Paths, inode : Inodes \cup {NoInode}, size : Nat,
        prev : Row \cup {NoRow}, fingerprint : Seq(Cell), offset : Nat,
        fd : Inodes \cup {NoInode}, pos : Nat, buf : Seq(Cell),
        inserted : SUBSET Lines, overlapped : BOOLEAN]

DbTypeOK ==
    /\ StoredTypeOK
    /\ fileState \in [Paths -> Row \cup {NoRow}]

WorkerTypeOK ==
    /\ pc \in {"stopped", "idle", "walk", "fingerprint", "open", "read", "commit"}
    /\ todo \subseteq Paths
    /\ job \in Job
    /\ Handling => job.inode # NoInode
    /\ pc = "read" => job.fd # NoInode

LifeTypeOK ==
    /\ cancelled \in BOOLEAN
    /\ faults \in 0..MaxFaults
    /\ stops \in 0..MaxStops

AuxTypeOK ==
    /\ excused \subseteq Lines
    /\ blind \subseteq Paths
    /\ halved \subseteq Lines

TypeOK == DirTypeOK /\ DbTypeOK /\ WorkerTypeOK /\ LifeTypeOK /\ AuxTypeOK

Init ==
    /\ DirInit
    /\ StoredInit
    /\ fileState = [p \in Paths |-> NoRow]
    /\ pc = "stopped"
    /\ cancelled = FALSE
    /\ todo = {}
    /\ job = NoJob
    /\ faults = 0
    /\ stops = 0
    /\ excused = {}
    /\ blind = {}
    /\ halved = {}

-----------------------------------------------------------------------------
(* Watch and scan.                                                         *)

\* The manager starts a new watcher, or the process comes up again.
Start ==
    /\ pc = "stopped"
    /\ pc' = "idle"
    /\ cancelled' = FALSE
    /\ UNCHANGED <<dirVars, dbVars, todo, job, faults, stops, auxVars>>

\* The first scan, or a tick: ReadDir lists the root.
StartScan ==
    /\ pc = "idle"
    /\ ~cancelled
    /\ pc' = "walk"
    /\ todo' = Listed
    /\ UNCHANGED <<dirVars, dbVars, job, lifeVars, auxVars>>

\* WalkDir ran out of entries, or walkFn saw ctx.Done and returned SkipAll.
EndScan ==
    /\ pc = "walk"
    /\ todo = {} \/ cancelled
    /\ pc' = "idle"
    /\ todo' = {}
    /\ UNCHANGED <<dirVars, dbVars, job, lifeVars, auxVars>>

\* Watch returns nil.
Return ==
    /\ pc = "idle"
    /\ cancelled
    /\ pc' = "stopped"
    /\ UNCHANGED <<dirVars, dbVars, todo, job, lifeVars, auxVars>>

-----------------------------------------------------------------------------
(* handleFile, consumeRange and importCompressed.                          *)

\* Mutant of Imported: an off-by-one in the comparison with the size.
ImportedBeyond(row, inode, size) ==
    row # NoRow /\ row.inode = inode /\ row.offset > size

\* An archive is read once: a row of this inode that reaches the end says so.
Imported(row, inode, size) ==
    row # NoRow /\ row.inode = inode /\ row.offset >= size

Wanted(p) ==
    /\ Exists(p)
    /\ p \in Compressed =>
          /\ ReadCompressed
          /\ ~Imported(fileState[p], dir[p], Len(data[dir[p]]))
          /\ p \in Gzip

\* The entry is gone, is an archive not to be read (again), or is of a
\* compression nothing here reads: handleFile returns at once.
SkipFile ==
    /\ pc = "walk"
    /\ ~cancelled
    /\ \E p \in todo : NextEntry(p) /\ ~Wanted(p) /\ todo' = todo \ {p}
    /\ UNCHANGED <<dirVars, dbVars, pc, job, lifeVars, auxVars>>

\* os.Stat and GetFileState.
StatFile ==
    /\ pc = "walk"
    /\ ~cancelled
    /\ \E p \in todo :
          /\ NextEntry(p)
          /\ Wanted(p)
          /\ todo' = todo \ {p}
          /\ job' = [NoJob EXCEPT !.path = p,
                                  !.inode = dir[p],
                                  !.size = Len(data[dir[p]]),
                                  !.prev = fileState[p]]
          /\ pc' = IF p \in Compressed THEN "open" ELSE "fingerprint"
    /\ UNCHANGED <<dirVars, dbVars, lifeVars, auxVars>>

\* The path vanished between two calls that open it anew.
FileGone ==
    /\ pc \in {"fingerprint", "open"}
    /\ ~Exists(job.path)
    /\ NextFile
    /\ UNCHANGED <<dirVars, dbVars, lifeVars, auxVars>>

\* Mutants of RowOf: the size of the stat is saved as the offset; the inode is
\* taken from the file already closed.
RowOfStatSize(j) == [inode |-> j.inode, size |-> j.size, offset |-> j.size,
                     fingerprint |-> j.fingerprint]
RowOfClosedFile(j) == [inode |-> j.fd, size |-> j.size, offset |-> j.offset,
                       fingerprint |-> j.fingerprint]

RowOf(j) == [inode |-> j.inode, size |-> j.size, offset |-> j.offset,
             fingerprint |-> j.fingerprint]

\* readFingerprint, the choice of the offset, and the way out when there is
\* nothing new: the row is saved only if it changed.
ReadFingerprint ==
    /\ pc = "fingerprint"
    /\ Exists(job.path)
    /\ LET head == Fingerprint(data[dir[job.path]])
           from == Resume(job.prev, job.inode, job.size, head)
           next == [job EXCEPT !.fingerprint = head, !.offset = from]
       IN  \/ /\ from # job.size
              /\ job' = next
              /\ pc' = "open"
              /\ UNCHANGED todo
           \/ /\ from = job.size
              /\ RowOf(next) # job.prev
              /\ job' = next
              /\ pc' = "commit"
              /\ UNCHANGED todo
           \/ /\ from = job.size
              /\ RowOf(next) = job.prev
              /\ NextFile
    /\ UNCHANGED <<dirVars, dbVars, lifeVars, auxVars>>

\* os.Open and Seek.
OpenFile ==
    /\ pc = "open"
    /\ Exists(job.path)
    /\ pc' = "read"
    /\ job' = [job EXCEPT !.fd = dir[job.path], !.pos = job.offset]
    /\ UNCHANGED <<dirVars, dbVars, todo, lifeVars, auxVars>>

AtEOF == job.pos >= Len(data[job.fd])

\* The scanner fills its buffer.
ReadChunk ==
    /\ pc = "read"
    /\ ~BatchFull(job.buf)
    /\ ~TooLong(job.buf)
    /\ ~AtEOF
    /\ LET chunk == Chunk(data[job.fd], job.pos)
       IN  job' = [job EXCEPT !.buf = @ \o chunk, !.pos = @ + Len(chunk)]
    /\ UNCHANGED <<dirVars, dbVars, pc, todo, lifeVars, auxVars>>

FlushBatch ==
    /\ pc = "read"
    /\ \E k \in DOMAIN job.buf :
          LET batch == {i \in Entries(job.buf) : i <= k}
          IN  /\ EndsBatch(job.buf, k)
              /\ InsertBatch(job.buf, batch)
              /\ job' = [job EXCEPT !.buf = SubSeq(@, k + 1, Len(@)),
                                    !.inserted = @ \cup LinesAt(job.buf, batch)]
    /\ UNCHANGED <<dirVars, fileState, pc, todo, lifeVars, auxVars>>

\* Mutant of ScanError: the error of one file ends the walk.
ScanErrorEndsWalk ==
    /\ pc = "read"
    /\ job.path \notin Compressed
    /\ ~BatchFull(job.buf)
    /\ TooLong(job.buf)
    /\ pc' = "idle"
    /\ job' = NoJob
    /\ todo' = {}
    /\ Excuse(job.inserted)
    /\ UNCHANGED <<dirVars, dbVars, lifeVars, blind, halved>>

\* consumeRange: scanner.Err comes before the rest of the batch is inserted.
ScanError ==
    /\ pc = "read"
    /\ job.path \notin Compressed
    /\ ~BatchFull(job.buf)
    /\ TooLong(job.buf)
    /\ NextFile
    /\ Excuse(job.inserted)
    /\ UNCHANGED <<dirVars, dbVars, lifeVars, blind, halved>>

\* consumeRange reached the end: the rest is inserted, and the new offset is
\* where the file was read to.
FinishPlain ==
    /\ pc = "read"
    /\ job.path \notin Compressed
    /\ ~BatchFull(job.buf)
    /\ ~TooLong(job.buf)
    /\ AtEOF
    /\ InsertBatch(job.buf, Entries(job.buf))
    /\ job' = [job EXCEPT !.offset = job.pos, !.fd = NoInode, !.buf = <<>>,
                          !.inserted = @ \cup LinesAt(job.buf, Entries(job.buf))]
    /\ halved' = halved \cup HalfLine(job.buf)
    /\ pc' = "commit"
    /\ UNCHANGED <<dirVars, fileState, todo, lifeVars, excused, blind>>

\* importCompressed inserts the rest first and reports scanner.Err after.  A
\* stream without its trailer is an error, so is an empty file; and when the
\* path is gone there is no fingerprint, which the table does not take.
FinishArchive ==
    /\ pc = "read"
    /\ job.path \in Compressed
    /\ ~BatchFull(job.buf)
    /\ TooLong(job.buf) \/ AtEOF
    /\ InsertBatch(job.buf, Entries(job.buf))
    /\ \/ /\ Finished(job.buf) /\ Exists(job.path)
          /\ job' = [job EXCEPT !.offset = job.size, !.fd = NoInode, !.buf = <<>>,
                                !.inserted = @ \cup LinesAt(job.buf, Entries(job.buf)),
                                !.fingerprint = Fingerprint(data[dir[job.path]])]
          /\ pc' = "commit"
          /\ UNCHANGED <<todo, excused>>
       \/ /\ ~(Finished(job.buf) /\ Exists(job.path))
          /\ NextFile
          /\ Excuse(job.inserted \cup LinesAt(job.buf, Entries(job.buf)))
    /\ UNCHANGED <<dirVars, fileState, lifeVars, blind, halved>>

\* A row that was read past an empty head matches any later head: the file was
\* replaced while handleFile was between its stat and its second open.
Unguarded(row) == row.fingerprint = <<>> /\ row.offset > 0

\* UpsertFileState: the inode and size of the stat, the offset of the read.
CommitRow ==
    /\ pc = "commit"
    /\ fileState' = [fileState EXCEPT ![job.path] = RowOf(job)]
    /\ blind' = IF Unguarded(RowOf(job)) THEN blind \cup {job.path} ELSE blind
    /\ Excuse(IF job.overlapped \/ Short(job.fingerprint) THEN job.inserted ELSE {})
    /\ NextFile
    /\ UNCHANGED <<dirVars, stored, lifeVars, halved>>

Worker ==
    \/ Start \/ StartScan \/ EndScan \/ Return
    \/ SkipFile \/ StatFile \/ FileGone \/ ReadFingerprint \/ OpenFile
    \/ ReadChunk \/ FlushBatch \/ ScanError \/ FinishPlain \/ FinishArchive
    \/ CommitRow

-----------------------------------------------------------------------------
(* Faults, graceful stops, and the directory's own steps.                  *)

Fault ==
    /\ faults < MaxFaults
    /\ faults' = faults + 1
    /\ Excuse(job.inserted)

\* A database call fails: handleFile returns the error, the scan goes on.
DatabaseError ==
    /\ pc \in {"fingerprint", "read", "commit"}
    /\ Fault
    /\ NextFile
    /\ UNCHANGED <<dirVars, dbVars, cancelled, stops, blind, halved>>

\* The process dies, or performRestart replaces it by syscall.Exec.
Crash ==
    /\ pc # "stopped"
    /\ Fault
    /\ pc' = "stopped"
    /\ job' = NoJob
    /\ todo' = {}
    /\ UNCHANGED <<dirVars, dbVars, cancelled, stops, blind, halved>>

\* Manager.stopLocked or the shutdown cancels the source's context.
Cancel ==
    /\ pc # "stopped"
    /\ ~cancelled
    /\ stops < MaxStops
    /\ cancelled' = TRUE
    /\ stops' = stops + 1
    /\ UNCHANGED <<dirVars, dbVars, workerVars, faults, auxVars>>

ServerStep ==
    /\ \E p \in Live : Serve(p, Held)
    /\ UNCHANGED <<dbVars, workerVars, lifeVars, auxVars>>

RotatorStep ==
    /\ \E p \in Rotating : Rotate(p, Held)
    /\ job' = [job EXCEPT !.overlapped = Handling]
    /\ UNCHANGED <<dbVars, pc, todo, lifeVars, auxVars>>

Next ==
    \/ Worker
    \/ DatabaseError \/ Crash \/ Cancel
    \/ ServerStep \/ RotatorStep

\* The goroutine is scheduled and its ticker ticks; a source that stopped is
\* started again.  Nothing is assumed of servers, rotator, faults and stops.
Spec == Init /\ [][Next]_vars /\ WF_vars(Worker)

-----------------------------------------------------------------------------
(* Properties.                                                             *)

PlainFile(p) == Visible(p) /\ p \notin Compressed /\ Exists(p)

NextOffset(p) ==
    Resume(fileState[p], dir[p], Len(data[dir[p]]), Fingerprint(data[dir[p]]))

\* No line is skipped: whatever crash, failed call, stop or rotation came
\* before, every complete line that lies before the offset from which the next
\* scan would resume the file is in the requests table.  Exempt are a line
\* whose first half was the end of the file when a scan got there, and a file
\* whose row was once saved without a fingerprint.
CursorSound ==
    \A p \in Paths : PlainFile(p) /\ p \notin blind =>
        \A i \in 1..NextOffset(p) :
            Completes(data[dir[p]], i) =>
                LET l == data[dir[p]][i].line IN stored[l] > 0 \/ l \in halved

\* A line is ingested twice only if it was inserted by a handleFile that
\* failed before it saved the row, that a rotation overlapped, or that found
\* the file shorter than a fingerprint (the head it saved no longer fits once
\* the file has grown): stops, restarts, scans and rotations at other moments
\* never re-ingest.
ReingestNeedsExcuse == \A l \in Lines : stored[l] > 1 => l \in excused

\* Files a scan is bound to read: plain files without an oversized line, and
\* finished archives.
Owes(p) ==
    /\ Visible(p) /\ Exists(p)
    /\ ~TooLong(data[dir[p]])
    /\ p \notin blind
    /\ p \in Compressed => ReadCompressed /\ p \in Gzip /\ Finished(data[dir[p]])

Owed(l) ==
    \E p \in Paths : /\ Owes(p)
                     /\ \E i \in DOMAIN data[dir[p]] :
                           Completes(data[dir[p]], i) /\ data[dir[p]][i].line = l

\* A complete line in a file the source covers is stored in the end, unless
\* it is rotated away first; a file that cannot be scanned starves only its
\* own lines.
EventuallyIngested ==
    \A l \in Lines : Owed(l) ~> (stored[l] > 0 \/ l \in halved \/ ~Owed(l))

\* handleFile is an attempt: what it inserted is settled by CommitRow, or by
\* coming to nothing, and open to a retry when it fails, when the process dies,
\* when a rotation overlapped it, or when its fingerprint is short.
Promise == INSTANCE AtLeastOnce WITH
    MaxCopies <- MaxStored, appended <- written, copies <- stored,
    open <- job.inserted, retry <- excused

\* The source delivers at least once, and once only what it has settled:
\* whatever rotations, stops, crashes and failed calls come between, no step
\* inserts a line that an earlier attempt settled, or twice in one attempt.
DeliversAtLeastOnce == Promise!Spec

\* README: "rotation [...] is detected and never causes lines to be
\* re-ingested", and archives "are imported once when discovered and then
\* ignored".
NeverReingested == \A l \in Lines : stored[l] <= 1
=============================================================================
