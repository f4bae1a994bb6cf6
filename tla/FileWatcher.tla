---------------------------- MODULE FileWatcher -----------------------------
(***************************************************************************)
(* internal/watcher/file.go: one file source.  On start-up the .gz         *)
(* siblings of the log are imported if so configured; then watchLoop adds  *)
(* an fsnotify watch on the directory, opens the log at its end and acts   *)
(* on the events of that name: Create reopens the file from the start,     *)
(* Write reads what the line scanner still gives.  An error of watchLoop   *)
(* closes the watch and leads to another watchLoop after a delay.          *)
(*                                                                         *)
(* The scanner is one bufio.Scanner per opened file: once a read returned  *)
(* end-of-file it never reads again.                                       *)
(***************************************************************************)
EXTENDS Ingest

CONSTANTS
    LogPath,         \* the configured path
    Siblings,        \* the .gz names that start with its base name
    ReadCompressed,  \* src.ReadCompressed
    MaxFaults,       \* bound: crashes and database errors
    MaxStops         \* bound: graceful stops

ASSUME FileSourceAssumption ==
    /\ LogPath \in Live
    /\ Siblings \subseteq Paths \ {LogPath}
    /\ ReadCompressed \in BOOLEAN
    /\ MaxFaults \in Nat /\ MaxStops \in Nat

VARIABLES
    watching,   \* the fsnotify watch on the directory is active
    events,     \* its events of LogPath not taken yet: "create" or "write"
    pc,         \* where the watcher's goroutine is
    todo,       \* the siblings still to import
    fd,         \* the inode the goroutine has open, or NoInode
    offset,     \* watchLoop's offset, compared with the size at a Write event
    pos,        \* the position of the file descriptor
    buf,        \* the cells the scanner holds
    drained,    \* the scanner has met end-of-file
    cancelled,  \* the source's context is cancelled
    faults,     \* crashes and database errors so far
    stops,      \* graceful stops so far
    old,        \* auxiliary: the lines in the log when Watch was last called
    imported,   \* auxiliary: the lines inserted from siblings
    missed,     \* auxiliary: the lines a failed read or insert gave up
    outrun      \* auxiliary: the log was opened with a Create of it still pending

fsVars == <<watching, events>>
readerVars == <<fd, offset, pos, buf, drained>>
lifeVars == <<cancelled, faults, stops>>
auxVars == <<old, imported, missed, outrun>>
vars == <<dirVars, stored, fsVars, pc, todo, readerVars, lifeVars, auxVars>>

FsTypeOK ==
    /\ watching \in BOOLEAN
    /\ events \in Seq({"create", "write"})
    /\ ~watching => events = <<>>

ControlTypeOK ==
    /\ pc \in {"stopped", "import", "importing", "add", "open", "loop", "reopen",
               "scan", "retry"}
    /\ pc \in {"importing", "loop", "scan"} => fd # NoInode
    /\ watching <=> pc \in {"open", "loop", "reopen", "scan"}
    /\ todo \subseteq Siblings

ReaderTypeOK ==
    /\ fd \in Inodes \cup {NoInode}
    /\ offset \in Nat /\ pos \in Nat
    /\ buf \in Seq(Cell)
    /\ drained \in BOOLEAN

LifeTypeOK ==
    /\ cancelled \in BOOLEAN
    /\ faults \in 0..MaxFaults /\ stops \in 0..MaxStops

AuxTypeOK ==
    /\ old \subseteq Lines /\ imported \subseteq Lines /\ missed \subseteq Lines
    /\ outrun \in BOOLEAN

TypeOK ==
    /\ DirTypeOK /\ StoredTypeOK
    /\ FsTypeOK /\ ControlTypeOK /\ ReaderTypeOK /\ LifeTypeOK /\ AuxTypeOK

Init ==
    /\ DirInit /\ StoredInit
    /\ watching = FALSE /\ events = <<>>
    /\ pc = "stopped"
    /\ todo = {}
    /\ fd = NoInode /\ offset = 0 /\ pos = 0 /\ buf = <<>> /\ drained = FALSE
    /\ cancelled = FALSE /\ faults = 0 /\ stops = 0
    /\ old = {} /\ imported = {} /\ missed = {} /\ outrun = FALSE

-----------------------------------------------------------------------------
(* Helpers.                                                                *)

Held == {fd} \ {NoInode}

LinesIn(s) == LinesAt(s, {i \in DOMAIN s : s[i] # Trailer})

\* A file is opened (or rewound) with a scanner of its own.
NewScanner(inode, at) ==
    /\ fd' = inode
    /\ offset' = at
    /\ pos' = at
    /\ buf' = <<>>
    /\ drained' = FALSE

CloseFile ==
    /\ fd' = NoInode
    /\ buf' = <<>>
    /\ UNCHANGED <<offset, pos, drained>>

\* watchLoop returns: its deferred calls close the watch and the file.
LeaveLoop(next) ==
    /\ watching' = FALSE
    /\ events' = <<>>
    /\ CloseFile
    /\ pc' = next

\* The log is (re)opened, but the event of its creation comes later.
CreatePending == \E n \in DOMAIN events : events[n] = "create"

AtEOF == drained \/ pos >= Len(data[fd])

\* Lines of the open file the scanner has not handed over.
Unread == LinesIn(buf) \cup LinesIn(SubSeq(data[fd], pos + 1, Len(data[fd])))

-----------------------------------------------------------------------------
(* Watch, importCompressedSiblings and importGzip.                         *)

Start ==
    /\ pc = "stopped"
    /\ pc' = IF ReadCompressed THEN "import" ELSE "add"
    /\ todo' = IF ReadCompressed THEN {q \in Siblings : Exists(q)} ELSE {}
    /\ cancelled' = FALSE
    /\ old' = IF Exists(LogPath) THEN LinesIn(data[dir[LogPath]]) ELSE {}
    /\ UNCHANGED <<dirVars, stored, fsVars, readerVars, faults, stops,
                   imported, missed, outrun>>

ImportOpen ==
    /\ pc = "import"
    /\ ~cancelled
    /\ \E q \in todo :
          /\ todo' = todo \ {q}
          /\ \/ /\ Exists(q)
                /\ NewScanner(dir[q], 0)
                /\ pc' = "importing"
             \/ /\ ~Exists(q)
                /\ UNCHANGED <<pc, readerVars>>
    /\ UNCHANGED <<dirVars, stored, fsVars, lifeVars, auxVars>>

ImportFlush ==
    /\ pc = "importing"
    /\ \E k \in DOMAIN buf :
          LET batch == {i \in Entries(buf) : i <= k}
          IN  /\ EndsBatch(buf, k)
              /\ InsertBatch(buf, batch)
              /\ imported' = imported \cup LinesAt(buf, batch)
              /\ buf' = SubSeq(buf, k + 1, Len(buf))
    /\ UNCHANGED <<dirVars, fsVars, pc, todo, fd, offset, pos, drained, lifeVars,
                   old, missed, outrun>>

\* The rest of the batch is inserted, with or without an error of the stream.
ImportDone ==
    /\ pc = "importing"
    /\ ~BatchFull(buf)
    /\ TooLong(buf) \/ AtEOF
    /\ InsertBatch(buf, Entries(buf))
    /\ imported' = imported \cup LinesAt(buf, Entries(buf))
    /\ CloseFile
    /\ pc' = "import"
    /\ UNCHANGED <<dirVars, fsVars, todo, lifeVars, old, missed, outrun>>

ImportEnd ==
    /\ pc = "import"
    /\ todo = {} \/ cancelled
    /\ todo' = {}
    /\ pc' = "add"
    /\ UNCHANGED <<dirVars, stored, fsVars, readerVars, lifeVars, auxVars>>

-----------------------------------------------------------------------------
(* watchLoop.                                                              *)

AddWatch ==
    /\ pc = "add"
    /\ ~cancelled
    /\ watching' = TRUE
    /\ pc' = "open"
    /\ UNCHANGED <<dirVars, stored, events, todo, readerVars, lifeVars, auxVars>>

\* Mutant of OpenAtEnd: the log is read from its start.
OpenAtStart ==
    /\ pc = "open"
    /\ Exists(LogPath)
    /\ NewScanner(dir[LogPath], 0)
    /\ pc' = "loop"
    /\ outrun' = (outrun \/ CreatePending)
    /\ UNCHANGED <<dirVars, stored, fsVars, todo, lifeVars, old, imported, missed>>

\* "Seek to end - only process new entries".
OpenAtEnd ==
    /\ pc = "open"
    /\ Exists(LogPath)
    /\ NewScanner(dir[LogPath], Len(data[dir[LogPath]]))
    /\ pc' = "loop"
    /\ outrun' = (outrun \/ CreatePending)
    /\ UNCHANGED <<dirVars, stored, fsVars, todo, lifeVars, old, imported, missed>>

\* A Create event: the old file is closed, and 100ms later ...
TakeCreate ==
    /\ pc = "loop"
    /\ events # <<>>
    /\ Head(events) = "create"
    /\ events' = Tail(events)
    /\ CloseFile
    /\ pc' = "reopen"
    /\ UNCHANGED <<dirVars, stored, watching, todo, lifeVars, auxVars>>

\* ... the name is opened again, whatever file it means by then.
Reopen ==
    /\ pc = "reopen"
    /\ Exists(LogPath)
    /\ NewScanner(dir[LogPath], 0)
    /\ pc' = "loop"
    /\ outrun' = (outrun \/ CreatePending)
    /\ UNCHANGED <<dirVars, stored, fsVars, todo, lifeVars, old, imported, missed>>

\* Mutant of OpenFails: the error of os.Open is not returned.
OpenFailsUnnoticed ==
    /\ pc \in {"open", "reopen"}
    /\ ~Exists(LogPath)
    /\ CloseFile
    /\ pc' = "loop"
    /\ UNCHANGED <<dirVars, stored, fsVars, todo, lifeVars, auxVars>>

OpenFails ==
    /\ pc \in {"open", "reopen"}
    /\ ~Exists(LogPath)
    /\ LeaveLoop("retry")
    /\ UNCHANGED <<dirVars, stored, todo, lifeVars, auxVars>>

\* Mutant of Truncated: an off-by-one, an unchanged size counts too.
TruncatedOrSame == Len(data[fd]) <= offset

Truncated == Len(data[fd]) < offset

\* A Write event: after a truncation the file is read from its start.
TakeWrite ==
    /\ pc = "loop"
    /\ events # <<>>
    /\ Head(events) = "write"
    /\ events' = Tail(events)
    /\ \/ Truncated /\ NewScanner(fd, 0)
       \/ ~Truncated /\ UNCHANGED readerVars
    /\ pc' = "scan"
    /\ UNCHANGED <<dirVars, stored, watching, todo, lifeVars, auxVars>>

ReadChunk ==
    /\ pc \in {"importing", "scan"}
    /\ ~(pc = "importing" /\ BatchFull(buf))
    /\ ~TooLong(buf)
    /\ ~AtEOF
    /\ buf' = buf \o Chunk(data[fd], pos)
    /\ pos' = pos + Len(Chunk(data[fd], pos))
    /\ UNCHANGED <<dirVars, stored, fsVars, pc, todo, fd, offset, drained, lifeVars,
                   auxVars>>

\* The scanner is at the end: one InsertBatch of whatever it gave.
ScanDone ==
    /\ pc = "scan"
    /\ ~TooLong(buf)
    /\ AtEOF
    /\ offset' = pos
    /\ buf' = <<>>
    /\ drained' = TRUE
    /\ pc' = "loop"
    /\ UNCHANGED <<dirVars, fsVars, todo, fd, pos, cancelled, stops, old, imported,
                   outrun>>

\* Mutant of InsertScanned: the last batch is forgotten.
InsertNothing ==
    /\ ScanDone
    /\ UNCHANGED <<stored, missed, faults>>

InsertScanned ==
    /\ ScanDone
    /\ InsertBatch(buf, Entries(buf))
    /\ missed' = missed \cup HalfLine(buf)
    /\ UNCHANGED faults

\* An error of InsertBatch is logged; the lines are not read again.
InsertFails ==
    /\ ScanDone
    /\ Entries(buf) # {}
    /\ faults < MaxFaults
    /\ faults' = faults + 1
    /\ missed' = missed \cup LinesIn(buf)
    /\ UNCHANGED stored

\* scanner.Err is returned; the batch is dropped.
ScanFails ==
    /\ pc = "scan"
    /\ TooLong(buf)
    /\ missed' = missed \cup Unread
    /\ LeaveLoop("retry")
    /\ UNCHANGED <<dirVars, stored, todo, lifeVars, old, imported, outrun>>

\* The delay of 5s or 30s is over.
Retry ==
    /\ pc = "retry"
    /\ ~cancelled
    /\ pc' = "add"
    /\ UNCHANGED <<dirVars, stored, fsVars, todo, readerVars, lifeVars, auxVars>>

\* One of the selects finds ctx.Done.
Quit ==
    /\ pc \in {"add", "retry", "loop"}
    /\ cancelled
    /\ LeaveLoop("stopped")
    /\ UNCHANGED <<dirVars, stored, todo, lifeVars, auxVars>>

Worker ==
    \/ Start \/ ImportOpen \/ ImportFlush \/ ImportDone \/ ImportEnd
    \/ AddWatch \/ OpenAtEnd \/ OpenFails
    \/ TakeCreate \/ Reopen \/ TakeWrite
    \/ ReadChunk \/ InsertScanned \/ ScanFails \/ Retry \/ Quit

-----------------------------------------------------------------------------
(* Faults, graceful stops, and the directory.                              *)

\* importGzip gives up an archive.
ImportFails ==
    /\ pc = "importing"
    /\ faults < MaxFaults
    /\ faults' = faults + 1
    /\ CloseFile
    /\ pc' = "import"
    /\ UNCHANGED <<dirVars, stored, fsVars, todo, cancelled, stops, auxVars>>

Crash ==
    /\ pc # "stopped"
    /\ faults < MaxFaults
    /\ faults' = faults + 1
    /\ missed' = IF pc = "scan" THEN missed \cup Unread ELSE missed
    /\ todo' = {}
    /\ LeaveLoop("stopped")
    /\ UNCHANGED <<dirVars, stored, cancelled, stops, old, imported, outrun>>

Cancel ==
    /\ pc # "stopped"
    /\ ~cancelled
    /\ stops < MaxStops
    /\ cancelled' = TRUE
    /\ stops' = stops + 1
    /\ UNCHANGED <<dirVars, stored, fsVars, pc, todo, readerVars, faults, auxVars>>

\* inotify queues an event, or merges it with an equal one at the end.
Notify(e) ==
    \/ events' = Append(events, e)
    \/ events # <<>> /\ events[Len(events)] = e /\ events' = events

Created == ~Exists(LogPath) /\ dir'[LogPath] # NoInode

Modified ==
    /\ Exists(LogPath)
    /\ dir'[LogPath] = dir[LogPath]
    /\ data'[dir[LogPath]] # data[dir[LogPath]]

DirectoryStep ==
    /\ \/ \E p \in Live : Serve(p, Held)
       \/ \E p \in Rotating : Rotate(p, Held)
    /\ \/ watching /\ Created /\ Notify("create")
       \/ watching /\ Modified /\ Notify("write")
       \/ ~(watching /\ (Created \/ Modified)) /\ UNCHANGED events
    /\ UNCHANGED <<stored, watching, pc, todo, readerVars, lifeVars, auxVars>>

Next ==
    \/ Worker
    \/ InsertFails \/ ImportFails \/ Crash \/ Cancel
    \/ DirectoryStep

\* The goroutine is scheduled, its delays end, and a source that stopped is
\* started again.
Spec == Init /\ [][Next]_vars /\ WF_vars(Worker)

-----------------------------------------------------------------------------
(* Properties.                                                             *)

\* History is never read: no line that was in the log when Watch was called
\* is inserted by the tail, whatever rotations, retries and truncations
\* follow ("only process new entries").
HistoryIsLeft == pc = "scan" => \A l \in old : stored'[l] = stored[l]

NeverReadsHistory == [][HistoryIsLeft]_vars

\* The tail inserts no line twice, across crashes, restarts, retries and
\* rotations, unless a rotation came between the watch and the open, or two
\* rotations so close that the file the first one created was gone when its
\* event was handled: then the new log is read before its own Create event
\* makes watchLoop read it again.
TailsAtMostOnce == \A l \in Lines : stored[l] > 1 => outrun \/ l \in imported

\* What a scan has before it, it delivers: a line that the fresh scanner of an
\* open log has still to reach is inserted, or given up by a failure, or cut
\* off by a truncation.
Reachable(l) ==
    /\ pc = "scan" /\ ~drained
    /\ \E i \in DOMAIN data[fd] :
          i > pos /\ data[fd][i].line = l /\ data[fd][i].part = "whole"

ScanDelivers ==
    \A l \in Lines :
        Reachable(l) ~> \/ stored[l] > 0
                        \/ l \in missed
                        \/ pc = "loop" /\ l \notin LinesIn(data[fd])

\* README: "Automatically monitor new log file entries".  A line in the open
\* log behind the offset is inserted in the end.
Appended(l) ==
    /\ pc = "loop"
    /\ \E i \in DOMAIN data[fd] :
          i > offset /\ data[fd][i].line = l /\ data[fd][i].part = "whole"

MonitorsNewEntries == \A l \in Lines : Appended(l) ~> stored[l] > 0
=============================================================================
