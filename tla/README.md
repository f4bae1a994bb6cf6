# TLA+ specifications of nginx-request-attribution

The program tails web-server logs, parses their lines and keeps the requests in
SQLite; a web UI shows statistics, manages users and edits the set of log
sources while the process runs. These modules specify how lines travel from the
log directory, and syslog messages from the network, through the parsers into
the `requests` table; what pages and statistics say of that table while it is
written; how an edited configuration is judged, saved and brought to the
goroutines that read the logs; and how accounts, sessions and the requests that
manage them interleave. TLC checks the modules on small instances; TLAPS proves
the theorems of the modules named `…Proofs` for every value of the constants.

Paths below are relative to the repository's root; `PROJECT.json` maps each
definition to the lines it stands for.

## 1. The system

| Component | State it keeps | Operations | Modelled in |
|---|---|---|---|
| Directory source, `internal/watcher/dir.go` | rows of `file_state` (path → inode, size, mtime, offset, fingerprint); locals of one scan | `Watch`, `scan`, `handleFile`, `readFingerprint`, `consumeRange`, `importCompressed` | `DirWatcher` |
| File source, `internal/watcher/file.go` | open file, `offset`, line scanner, fsnotify watch | `Watch`, `importCompressedSiblings`, `consumeReader`, `watchLoop` | `FileWatcher` |
| Syslog source, `internal/watcher/syslog.go` | listeners, one goroutine per TCP connection | `Listen`, `listenUDP`, `listenTCP`, `handleTCPConn`, `processMessage` | `SyslogReceiver` |
| Source manager, `internal/watcher/manager.go` | `running`, `keywords`, `watch`, one mutex | `Apply`, `Stop`, `startLocked`, `stopLocked` | `SourceManager` |
| Runtime configuration, `internal/runtimeconfig` | `current`, the `runtime_config` row, subscribers | `New`, `Get`, `Set`, `Subscribe`, `notify`, `Validate`, `pathAllowed`, `Key` | `HotReload`, `Settings` |
| Bootstrap configuration, `internal/config` | none | `Load`, `Validate`, `RuntimeSeed` | `Settings` (without the fields that never reach the database) |
| Server process, `cmd/main.go`, `internal/api/config_handler.go` | the root context | start-up, bootstrap account, `PUT /api/config`, restart, signal | `HotReload`, `Accounts` |
| Request storage, `internal/storage` | `requests`, `keyword_hits`, `file_state` | `Insert`, `InsertBatch`, `GetFileState`, `UpsertFileState`, `Query`, `Stats` | `Ingest` (`InsertBatch`), `SyslogReceiver` (`Insert`), `DirWatcher` (`file_state`), `RequestLog` (`Query`, `Stats`) |
| Authentication, `internal/auth` | users, sessions, audit log | login, logout, the checks before every route, user administration, password change | `Accounts` |
| Log parsers, `internal/parser` | none | the presets, `auto`, custom patterns, user agents | `Parsers` |
| Statistics API, `internal/api/handler.go` | none | `handleStats`, `handleRequests`, `parseFilter` | `RequestLog` |
| Web user interface, `cmd/static/index.html` | the page shown | page buttons, filters | `RequestLog` (the request list only) |

How they interact. `main` opens the database, creates the settings store and the
manager, calls `Apply` once, subscribes the manager to the store and serves HTTP.
A `PUT /api/config` handler calls `Store.Set`, which writes the row and
publishes the value under the store's lock and, after releasing it, calls
`Manager.Apply`. `Apply` holds the manager's mutex while it cancels readers,
waits for each goroutine to return, and starts new ones. A reader (directory,
file or syslog) shares nothing with the others but the database. The log
directory is changed by web servers and logrotate at any moment. HTTP handlers
run concurrently with the readers and with each other; none of them opens a
transaction, so what they share is exactly the tables, statement by statement.

### What is hard

* **Directory source.** `handleFile` looks a path up three times (stat, read the
  head, read the content) and commits lines and cursor separately; a rotation, a
  truncation, a failed statement or a crash falls between any two of these. What
  must hold: no complete line is skipped, and a line is stored twice only with a
  reason one can name.
* **File source.** fsnotify events are delivered after the fact and merged; the
  line scanner never reads again once it met end-of-file; every error restarts
  the loop at the end of the file. What must hold: old content is never read,
  nothing is tailed twice, and what a scan still has before it is delivered.
* **Manager and configuration.** Several saves, a signal and returning readers
  overlap; the mutex is held across a wait for goroutines. What must hold: one
  reader per key, the readers are those of the last `Apply`, a crash between
  persisting and applying is repaired by the next start, every save is answered
  and a signal ends the process.
* **Syslog.** Cancelling wakes nobody: a goroutine per socket closes it, and
  `Listen` does not wait for that goroutine. Connections outlive `Listen`; `Insert`
  is several statements without a transaction. What must hold: a stop ends
  `Listen`, nothing read after a stop is stored, every message is, and a request
  has the keyword hits of one receiver.
* **Accounts and sessions.** `RequireAuth` judges the actor by three statements,
  the handler then writes by several more, and the change of a password and the
  deletion of its sessions are two of them. What must hold: a session from before
  a password change or a disable is gone, a session never becomes another
  account's, nobody is locked out but by itself, and what was changed is audited.
* **Parsers and statistics.** Formats overlap, so a line may be read by an engine
  that was not meant for it; a page takes two SELECTs and the dashboard nine while
  batches are committed; a timestamp is compared as text in one place and taken to
  UTC in another. What must hold: an entry says what its server did, paging
  skips nothing, the lists of one answer differ only by what arrived meanwhile.
* **Settings.** Two validators let different documents through, a path is judged
  without the directory the process was started in, and a seed is not judged by
  the panel's rules at all. What must hold: no edit puts a reader outside the roots.

The full list of hazards, each at its line and with the properties that cover
it, is under `hazards` in `PROJECT.json`.

## 2. Modules

```
LogDirectory        external: names, inodes, contents; servers, logrotate, gzip
  └ Ingest          requests table, InsertBatch, what the line scanner makes of a buffer
      │                                        ── IngestProofs (shared lemmas)
      ├ DirWatcher      one directory source   ── DirWatcherProofs (types, nothing skipped)
      │   │                                    ── DirDeliveryProofs (nothing twice)
      │   ├ AtLeastOnce   (INSTANCE: the abstract specification it implements)
      │   └ MCDirWatcher
      └ FileWatcher     one file source        ── FileWatcherProofs
          └ MCFileWatcher
SourceManager       the manager (component, no specification of its own)
  └ HotReload       store + handlers + main + manager
      └ Settings      which documents reach the store, and which readers they start
          │                                    ── HotReloadProofs
          └ MCHotReload
SyslogReceiver      one syslog source through its restarts ── SyslogProofs
  └ MCSyslogReceiver
Parsers             lines to entries (operators only)
  └ RequestLog      the table while it is written, paged through and counted
      │                                        ── RequestLogProofs
      └ MCRequestLog
Accounts            users, sessions and the requests that manage them ── AccountsProofs
  └ MCAccounts
```

**LogDirectory** is the environment; nothing of it is under `src/`. A file is a
sequence of cells, one cell per line, except that a line of `SplitLines` is
written in two calls and takes two cells (so an unterminated half can be at
end-of-file), and that a finished gzip stream ends in a `Trailer` cell. `dir`
maps names to inodes, `data` inodes to contents; an unlinked inode lives while
someone has it open, and its number is then reused. Servers open the log with
`O_APPEND`; logrotate renames, copies and truncates, compresses in place
(`StartCompress` … `CompressCell`) or moves a finished archive into its place
(`PublishArchive`). `RotationKinds` selects among them.

**Ingest** is what both watchers do with a buffer. `stored[l]` counts the rows of
line `l`. A half line, a header or a trailer is an entry that no parser accepts;
a line of `Oversize` is longer than the 1 MiB scanner buffer, which makes
`scanner.Err` non-nil. `InsertBatch` is one transaction.

**DirWatcher** has one action per call that another actor can come between:
`StartScan`, `SkipFile`/`StatFile` (stat and `GetFileState`), `FileGone`/
`ReadFingerprint` (the decision where to resume), `OpenFile`, `ReadChunk`,
`FlushBatch`, then `ScanError`, `FinishPlain` or `FinishArchive`, `CommitRow`
(`UpsertFileState`), `EndScan`. `job` holds the locals of `handleFile` and
`consumeRange`. The mtime is left out: in the code it only decides whether an
identical row is written again. `DatabaseError`, `Crash` and `Cancel` may happen
in any state where the code meets them. Three auxiliary variables record what no
table keeps: `excused` (lines inserted by a `handleFile` that failed before its
row was saved, that a rotation overlapped, or that found the file shorter than a
fingerprint), `blind` (names that once got a
row without fingerprint but with an offset) and `halved` (lines of which a scan
found only the first half). No guard reads them.

**AtLeastOnce** is what such a source promises, with no file, offset or
fingerprint in it: lines are delivered in attempts (`Deliver`), an attempt is
settled (`Settle`) or fails (`GiveUp`), and only the lines of failed attempts may
be delivered again. `DirWatcher` instantiates it with the mapping `appended`
← lines written, `copies` ← `stored`, `retry` ← `excused`, `open` ← the lines that
the running `handleFile` has inserted. An attempt at a file that is still shorter
than a fingerprint counts as one that may be retried: the source will do so.

**FileWatcher** follows `Watch`: import the siblings, then `AddWatch`, `OpenAtEnd`,
and per event `TakeCreate`/`Reopen` or `TakeWrite`, `ReadChunk`, `InsertScanned`;
`ScanFails`, `OpenFails` and `Retry` are the error paths. `drained` is the
scanner's end-of-file state. `Notify` appends an event or merges it with an equal
one at the end of the queue, as inotify does. Auxiliary: `old`, `imported`,
`missed`, `outrun`.

**SourceManager** splits `Apply` and `Stop` into the steps between which other
goroutines run: `BeginApply`/`BeginStop` (take the mutex and compute the diff),
`CancelOne`, `Forget` (the goroutine has returned), `TurnToStart`, `StartOne`,
`StartFails`, `EndApply`/`EndStop`. A `runningSource` is a slot; a key maps to a
slot. The order of a map iteration is left open. A cancelled reader returns in a
later step; a `Mortal` one may return by itself.

**HotReload** composes the manager with the settings store, the handlers, `main`
and the signal goroutine. `Save` is `Store.Set` up to the release of its lock;
`Apply` and `Applied` are the call of the manager. `Crash` also stands for the
re-exec of `POST /api/restart`. `applied` and `raced` are auxiliary. Its
constants `Offered` and `Seeds` are the configurations `Set` accepts and those a
first launch may start with.

**Settings** closes these two constants (`SettingsAssumption`, which TLC
evaluates): `Offered` is what `Runtime.Validate` and `pathAllowed` let through of
the submitted documents, `Seeds` what `Config.Validate` lets through of
`config.json`. A path is a sequence of elements and a flag; `Clean` and `Rel`
model `path/filepath`. `DocumentsAssumption` says that a document is one: it has its
fields, each source a type and a path.

**SyslogReceiver** is one syslog source through the receivers the manager starts
for it, each with its own protocol and keywords. `loop` is the listener goroutine
(`Bind`, `ReceiveUDP`, `AcceptTCP`, `ListenFails`, `Return`), `socket` the listening
socket and the goroutine that closes it: `CloseBegins` makes reads fail,
`CloseEnds` frees the port. A connection reads (`Scan`), looks at the context
(`Check`) and inserts; `InsertRequest` and `InsertHit` are the statements of
`storage.Insert`. A message is queued in `inbox` of the UDP listener or of its
connection; a datagram that is lost is one that is never sent. Auxiliary: `late`
(read by a connection after its stop), `failed` (a statement failed or a crash
came).

**Parsers** abstracts a line to what the regular expressions tell apart: how many
words precede the bracketed time, the quoted request, the status, how many quoted
strings end it. `Line` is what a server writes for a request in each format,
`Parse` what each engine makes of it. `Assigned` is the table of the variables a custom
pattern may name with the fields their values go to; several variables share a
field (`$uri` and `$request_uri`, the path of `$request`; `$host`, `$http_host` and
`$server_name`), and `SetFields` lets the last one win. `OSInfo` and `BrowserInfo` are
the ordered rules of `useragent.go`.

**RequestLog** reads the table that `Ingest` fills. `OpenList`, `NextPage` and `PrevPage`
are the buttons of the browser, which count the page before they load it; `CountRows`
and `SelectPage` are the two SELECTs of a page. `SelectBreaksOff` is an error while the
rows are read, which ends the loop like the end of the rows and is never asked for, so
that the first of them go out as the page; `LoadFails` is the 500 of a failed
statement, after which the browser keeps the old rows and total under the new page
number. `RunStatement` and `StatementFails` are each of the nine statements of `Stats`. A
timestamp is a wall clock, an offset and whether it has a fraction, because the
filters and the order compare the text (`Before`) while `DATE()` takes it to UTC. Of
`page`, `seen`, `owed`, `missed` and `stale` are auxiliary.

**Accounts** has one action per SQL statement and per check: `Receive`, `Admit`
(the no-account mode), `FindSession`, `Prune`, `LoadUser`, `RequireAdmin`, then the
statements of each handler, then `Audit`. `req` holds for each client where its
request is and what `RequireAuth` had read of the actor. `Fail`, `Restart` and
`Expire` are the faults. `era` (on users and sessions), the `name` of a session,
`wrote` and `unrevoked` are auxiliary.

## 3. Properties and runs

Every property of a passing run has a mutant in `PROJECT.json`: a plausible bug
in one mapped definition under which TLC finds the property violated.

### Directory source (`MCDirWatcher`)

| Run | Instance | Checks |
|---|---|---|
| `dir_ingest` | one live log, three lines (the second may be split), rename and copytruncate, two rotation steps, three inodes, one fault, one graceful stop | `TypeOK`, `CursorSound`, `DeliversAtLeastOnce` |
| `dir_archives` | a recursive source over archives and a nested live log, one oversized and one split line, two rotation steps (rename, compress in place, publish), one fault | `ReingestNeedsExcuse`, `EventuallyIngested` |
| `dir_rotated_name` | glob that also matches `access.log.1` | violation of `NeverReingested` |

`CursorSound` is the at-least-once promise: every complete line before the
offset from which the *next* scan would resume a file is in the table. It is
stated with the very `Resume` decision of `handleFile` on the current file, so it
covers the combinations of a stale row with a reused inode, a truncated and
regrown file, and a crash between batch and row. Its two exemptions are real
properties of the code: a line whose first half was end-of-file during a scan
(the scanner hands the half over and the offset moves past it) and a name that
got a row without a fingerprint but with an offset (empty when its head was read,
grown when it was read).

`ReingestNeedsExcuse` is the other direction: a second row for a line exists only
if a `handleFile` that inserted it failed before its row was saved, was
overlapped by a rotation, or found the file shorter than a fingerprint, so that the head it saved no
longer fits once the file has grown (see the bounds below). Stops, restarts, repeated scans and rotations at other
moments never re-ingest. In `dir_archives` it says the same of archives: an
archive that was read to its end is never read again.

`DeliversAtLeastOnce` is the refinement: every step of the source is a step of
`AtLeastOnce` or stutters. It says more than `ReingestNeedsExcuse`, whose excuse
is a state: here a line may come twice only if an *earlier attempt* at it failed,
was overlapped by a rotation or met a short file, each attempt delivers a line once, and no line
arrives that was not written.

`EventuallyIngested`: a complete line in a covered, readable file is stored in
the end unless it is rotated away first; a file that cannot be scanned (oversized
line, unfinished stream) starves only itself. The other files of the same
walk are the point: an error of one file must not end the walk.

### File source (`MCFileWatcher`)

| Run | Instance | Checks |
|---|---|---|
| `file_tail` | three lines, rename and copytruncate, two rotation steps, three inodes, one fault, one stop | `TypeOK`, `TailsAtMostOnce`, `NeverReadsHistory` |
| `file_import` | archive siblings imported at start-up, an oversized and a split line, batches of one, one fault | `ScanDelivers` |
| `file_sticky` | no fault, no rotation, two lines | violation of `MonitorsNewEntries` |

`NeverReadsHistory`: the tail inserts no line that was in the log when `Watch`
was called. `TailsAtMostOnce`: no line is tailed twice, unless the log was opened
while a Create event of it was still pending (`outrun`), which happens when a
rotation falls between the watch and the open, or when two rotations follow each
other so closely that the first file is gone when its event is handled. Both are
possible in the code, so the exemption is not removable. `ScanDelivers`: what a
fresh scanner has before it is inserted, given up by a recorded failure, or cut
off by a truncation.

### Manager, configuration, process (`MCHotReload`)

| Run | Instance | Checks |
|---|---|---|
| `reload` | twelve submitted documents, of which `Validate` must refuse eight, each for another reason; no `config.json`, or one the panel would refuse; two roots and two working directories; a listener that may die; two handlers, two saves, three starts | `TypeOK`, `OneReaderPerKey`, `RunningIsApplied`, `InSyncUnlessRaced`, `EditsKeepReadersInRoots`, `SavesAreAnswered`, `ShutdownEnds` |
| `reload_raced` | the same with one start | violation of `SavedIsRunning` |

`OneReaderPerKey`: goroutines of one key never overlap (the port of a listener
may outlive its goroutine, see `syslog_rebind`). `RunningIsApplied`: whenever the mutex is free the
readers are exactly those of the configuration applied last, with its
definitions and keywords. `InSyncUnlessRaced`: once no save is on its way, that is
the *persisted* configuration, also after a crash between persisting and
applying, unless two saves overlapped. `SavesAreAnswered` and `ShutdownEnds` show
that waiting for goroutines while holding the mutex deadlocks nobody.
`EditsKeepReadersInRoots`: once an edit has been applied, no reader is at work on
a path outside the configured roots, whichever directory the process was started
in and even if `config.json` had put one there. A root relative to the working
directory (`../old`) and a path with `..` behind a root are the cases in which the
textual check could go wrong.

### Syslog source (`MCSyslogReceiver`)

| Run | Instance | Checks |
|---|---|---|
| `syslog` | two receivers (both protocols with two keywords, UDP with one keyword), one connection, a good, an unparsable and an oversized message, one fault | `TypeOK`, `PredecessorIsSilent`, `HitsAreComplete`, `StopReturns`, `EveryMessageStored` |
| `syslog_rebind` | two UDP receivers, no fault | violation of `RestartBinds` |

`StopReturns`: a cancelled `Listen` returns, whatever it was doing, also when the
cancel came before the bind or one of two listeners had died; `HotReload`
assumes exactly this of its readers. `PredecessorIsSilent`: what a connection
reads after the stop of its receiver is never stored, and no UDP listener of a
predecessor works beside its successor. A message whose insert was already under
way may still be stored. `HitsAreComplete`: a request has the hits of the keywords
of one receiver, unless a statement failed. `EveryMessageStored`: nothing but a
stop, the message's own failed insert, a read error of its own listener or an
oversized message before it on its connection keeps a message that reached a
socket out of the table.

### Accounts and sessions (`MCAccounts`)

| Run | Instance | Checks |
|---|---|---|
| `accounts` | two browsers, three names, three requests interleaved statement by statement, one fault (failing statement, crash, expiry), from an empty database and from two administrators who are logged in | `TypeOK`, `RevokedSessionsAreGone`, `SessionsKeepTheirOwner`, `LockedOutOnlyByItself`, `ChangesAreAudited` |

`RevokedSessionsAreGone`: a session that was opened before its account's password
changed or the account was disabled is not accepted, unless the request that made
the change has yet to delete it or was cut off by a fault before it could (two
statements, no transaction). A login that verified the *old* password and
inserts its session *after* the change is not covered, because the code lets it
live: its session carries the new era. That is a hazard of the code, listed as
such. `SessionsKeepTheirOwner`: `ON DELETE CASCADE` is declared but the
database is opened without `foreign_keys`, so a deleted account leaves its
sessions behind; that they never become those of the next account rests on
`AUTOINCREMENT` alone. `LockedOutOnlyByItself`: the comment "Don't let an admin
disable themselves and lock everyone out" is kept for one administrator. The
exemptions are what the code allows: an administrator may *demote* itself,
the first account may be a viewer, and two administrators may remove each other
at the same time because the check reads what `RequireAuth` saw.
`ChangesAreAudited`: an answered change has its audit row; the exemptions are a
PATCH whose second half is refused after its first half was written, and one
whose account vanished meanwhile.

### Parsers, request list, statistics (`MCRequestLog`)

| Run | Instance | Checks |
|---|---|---|
| `requests` | every request (user name with and without a space, empty, malformed and whole request line, four times, referer or none) in each of four formats through each of six engines, whole and cut, and in four custom patterns, of which two give path, host or time more than once; three visits in batches of up to two while a list of one row per page, or the dashboard, is loaded, unfiltered or with a day, a path and a keyword; one failing statement | `TypeOK`, `AttributedAsServed`, `NoLineIsLost`, `PagingSkipsNothing`, `StatsOnlyLag`, `DaysAgree` |

`AttributedAsServed`: what is stored for a line names the address, host, path,
query and instant of the request it was written for, whatever engine read
whatever format. A custom pattern may log several hosts (the one asked for, the
one configured) and two URIs (asked for and served); the entry then has one of those logged. Three exemptions are behaviours of the code: a user name
with a space makes a combined line look like one with a virtual host; only
`apache:vhost_combined` takes the port off a host; a combined line cut behind its
size is a valid common line. `NoLineIsLost` is the converse: a whole line in a
format its engine is for is stored, unless the request is empty or the user name
has a space. For `auto` these are all four formats, the common one included: this is
what `ParseLine` does, while three places of the repository say that it does not:
`docs/TODO.md:14-15` ("currently auto only tries Nginx vhost/combined and Apache combined"),
`parser.go:26-27` ("currently Nginx then Apache combined") and `format.go:50` ("tries Nginx then
Apache combined presets"). `parser.go:44-47` falls back to the expression of the common format, so
the property and its theorem side with the code, and its mutant (`ParseLineCombined`) is what those
three places describe.
`PagingSkipsNothing`: who pages to the end, back and forth, has been shown every request
that matched when the list was opened although rows arrive meanwhile (some are shown twice);
it needs the tie-break of the index order, since two of the visits have the same
second. The exemptions are what the code allows: the rows of a page whose load failed or
broke off, because the browser has already counted the page and the next click
goes on from there (`missed`); and an end of the list that was judged by a stale total, because
a row committed between the COUNT and the SELECT of the last page pushed
another one behind it, or because the last page did not load. `StatsOnlyLag`: of the lists of one answer each
counts at least what the ones before it counted and nothing the filter excludes;
a failed statement yields an empty list that the answer does not mark. `DaysAgree`: filter and
histogram mean the same day for requests logged in UTC; with another offset, or
with a fraction in the last second of the day, they do not.

### Bounds and why they are enough

`MaxLines`, `MaxRotations`, `MaxFaults`, `MaxStops`, `MaxStored`, `MaxSaves`,
`MaxBoots`, `MaxStarts`, `MaxUsers`, `MaxSessions`, `MaxRequests`, `MaxFailures` and
the number of rows and the batch of a member of `Traffics` are the only bounds; each
appears in the guards of the actions that count. Two rotations are needed for an
inode to be freed and reused under the same name and for two rotations to race
one event; three lines are needed for one before, one in and one after a rotated
file; `stored` is counted to two because every property asks only about none, one
or more. One fault and one stop suffice to separate a batch from its row and to
restart over every state; two saves race, three starts cover a crash before and
after the row exists. Two syslog receivers are a predecessor and a
successor; a message is sent once, so each has one row. Three requests are two
that race and one that finds the result; one of the two initial states has both
browsers logged in, so that none is spent on that; three user ids and three tokens leave room for one account
created and one session opened. `DayLength` is four seconds, so three days
fit into thirteen; `PageSize` is one, so three rows are three pages. The theorems
hold for every value of the constants of their modules.

`FingerprintSize` is two cells in `dir_ingest` and `dir_archives`: a file of one cell is
shorter than a fingerprint and one of three is longer, so heads that grow between two
scans, and heads that no longer do, both occur. That a head may grow is an error of the code. A
fingerprint mismatch is meant to signal that "the file was rewritten from the beginning"
(`storage.go:98-101`); but a file with fewer than 64 bytes at its first scan has another
fingerprint once it has grown, so `handleFile` takes it for a replaced file, reads it from its
start again and stores its first lines twice. Most lines are longer than 64 bytes; one in the common format can
be shorter. To see it, run `dir_rotated_name.cfg` with `FingerprintSize = 2`,
`RotationKinds = {}` and `Matching = {a}`: `NeverReingested` is violated without any
rotation or failure. In the passing runs and in the theorems it is one of the named reasons for
a second row.

`CHECK_DEADLOCK FALSE` is set because the bounded runs stop when no server,
rotator or administrator acts any more, and because the process may be down for
good.

### Fairness

* `WF(Worker)` in both watchers: the goroutine is scheduled, the ticker or delay
  fires, system calls return, and a source that was stopped is started again
  (`Start`). Servers, rotators, faults and stops are never forced to act; faults
  are bounded, so eventually a `handleFile` gets through.
* `HotReload`: weak fairness of each step of the mutex holder, of answering, of
  `Exit` and of a cancelled reader's return (all readers select on their
  context or close their sockets; `StopReturns` shows it for syslog). Strong fairness of taking the mutex: it is
  enabled only while the mutex is free, and Go's `sync.Mutex` hands the lock over
  to a waiter that starves. Nothing is assumed of saves, signals and crashes.
* `SyslogReceiver`: weak fairness of each listener, of the goroutines that close
  the sockets of a receiver (together, which is weaker) and of each connection.
  Peers, starts, stops and faults are never forced.
* `Accounts` and `RequestLog` state none: their properties are of safety.

## 4. What the violation runs show

* `dir_rotated_name`: the README says rotation "is detected and never causes
  lines to be re-ingested or skipped". `file_state` is keyed by path, so under a
  glob that also matches the rotated name the renamed file is unknown and is
  ingested from its start.
* `file_sticky`: "Automatically monitor new log file entries". A `bufio.Scanner`
  does not read again after end-of-file, and `watchLoop` keeps one per opened
  file: after the first Write event nothing appended to that file is read.
* `reload_raced`: "the settings panel's Save button can start/stop/restart
  sources". `Set` notifies after it released its lock, so of two overlapping
  saves the older may be applied last, and the readers stay on a configuration
  that is neither persisted nor displayed.
* `syslog_rebind`: `stopLocked` waits for `done` so that "a follow-up start sees the
  previous reader fully released (matters for syslog listeners that bind a
  port)". The port is freed by a goroutine that `Listen` does not wait for: `Close`
  wakes the reader first, `Listen` returns, and the successor's bind may come
  before the port is free. The window is short, but nothing retries a failed bind:
  the source stays registered and deaf until it is changed again.

## 5. What is proved

`tlapm` checks eight modules; the assumptions are the named `ASSUME`s of the modules
they extend, which TLC evaluates in every run. Where a theorem has a hypothesis
of its own, it is about which names or patterns a source has, it is stated in the theorem,
and the text below says what the code does without it. Every inductive invariant was
an invariant of a TLC run before it was proved.

**`IngestProofs`** has the lemmas that the watchers share: the types of what
`Prefix`, `SubSeq`, `Entries` and `InsertBatch` return, and the effect of each
step of the directory: no two names refer to one file (`ApartInv`), and
`Effect(held)` says that either one file grows by a cell that continues it, of a
new line or the rest of its last, or every file that somebody has and that is no
archive stays as it is or is emptied; and that a name keeps its file, loses it or
gets a new, empty one, except the names the rotator moves and copies to.
`DirectoryHasEffect` proves this of every action of `LogDirectory`, so the proofs
about readers speak of these few cases and not of each action.

**`DirWatcherProofs`** has two theorems. `TypeCorrect == Spec => []TypeOK`: the type invariant is
inductive as stated because it carries the facts that make it so: a file is open
exactly while it is read, the inode of a job is that of a file from the stat on,
and the position never leaves the naturals. The proof has a lemma per helper
(what `Resume` and `RowOf` return) and one step per action.

`NoLineIsSkipped == LogsGrowOld => (Spec => []CursorSound)`, for every
fingerprint size, batch, buffer and bound. `CursorSound` speaks of the offset
from which the next scan *would* resume; what is inductive is that every row which still
belongs to the file under its name has a *safe* offset (`CursorRowInv`): the cells before
it hold no complete line that is neither stored nor in `halved`, and break none
off. While a job runs the same holds of the offset it will save (`JobInv`); during the
reading it holds up to the place where the buffer begins, and the buffer is the
continuation of the file (`Scanned`). A reused inode is recognised because the first
cell of a fingerprint is a line that was written before (`NumberedInv`), and a
new file under the name begins with a later one.

A row may mix three files: the inode is that of the stat, the fingerprint that of the
file that had the name when its head was read, the offset that of the file that was
opened. If rotation brought the fingerprinted log back under the name, in a file with the number of the stat, the row would
send the next scan past lines nobody has read. `PassedInv` says why this does not happen: a log whose
head was read under a name is there or gone for good, since it is under no other name from which
rotation could bring it (`PastOrAt`), and no two logs begin alike (`HeadsInv`,
from one step to the next by `OldLog`: what a name has now it had, or its predecessor in the
rotation had). The hypothesis is what this rests on: rotation takes logs to later names only
(`Ages`: `access.log`, `access.log.1`, `access.log.2`), and an archive is neither read as
plain text nor rotated. Any live or rotated name may be watched, all of them at once, and
archives may match the pattern. With a single generation of plain logs the
hypothesis holds (`OneGeneration`); so it does of every run.

**`DirDeliveryProofs`**: when a pattern matches live logs only (`LiveLogsOnly`), for a
fingerprint of any size,

* `ReingestIsExcused`: `ReingestNeedsExcuse`;
* `DeliveryIsAtLeastOnce`: `DeliversAtLeastOnce`, that is, `DirWatcher` implements
  `AtLeastOnce` for every value of the constants.

The invariant relates lines to *places*: a line ends in
one place of the files that matter (`OnceInv`), a half-written one nowhere yet
(`HalfInv`); the row resumes behind every line that was inserted for good
(`RowInv`, `IntactInv`); what the running `handleFile` has inserted lies before its position
(`InsertedInv`), and what it has still to insert is new or excused (`NewInv`). From
`NewInv` every `FlushBatch` is a `Deliver`, a committed row is a `Settle`, and an
error, a crash or a stop is a `GiveUp`. A row whose head is short may stop fitting its own
file; the lines before its offset are then excused (`Short` in `CommitRow`), and a row whose head
is not short fits as long as the file is the same. Each part of the hypothesis is needed,
and each is a behaviour of the code: a pattern that matches the rotated name
ingests the log twice (`dir_rotated_name`), and an archive that is scanned while gzip writes it
is imported by every scan.

**`FileWatcherProofs`**: `TypeCorrect`, and when archives keep apart from the
log's own name (`LogIsLive`)

* `HistoryIsNeverRead`: `NeverReadsHistory`;
* `NothingTailedTwice`: `TailsAtMostOnce`.

Both rest on one operator: `Avoids(X)` says that neither the open file
beyond the reader's position, nor its buffer, nor a log that an event or a
retry will open, completes a line of `X`. `HistoryInv` is `Avoids(old)`. `SpentInv` is
`Avoids` of the lines already tailed, and needs in addition that the log which a pending
Create event announces has no line in common with the buffer and with the open
log: exactly what fails once two rotations outran one event, which is what
`outrun` records. `Behind` carries the argument over truncations: after one the
reader is beyond the end of the file, and what is written later has later numbers.

**`HotReloadProofs`**: for any keys, definitions, handlers, seeds, offered
configurations, paths, roots, working directories and any bound on saves and starts,

* `TypeCorrect`: `TypeOK`;
* `OneReader`: `OneReaderPerKey`;
* `DiffCorrect`: `RunningIsApplied`;
* `InSync`: `InSyncUnlessRaced`;
* `EditsStayInRoots`: `EditsKeepReadersInRoots`.

None of the last four is inductive. `Inv` adds what is true inside a call of the
manager: `LockInv` (who is inside holds the mutex, and which goroutines are at
work depends on the mode of the process), `WorkInv` (what the holder has still to
stop, is waiting for and has to start; `stop`, `wait` and `start` each own one of
them), `OwnInv` (a goroutine that has not returned is the one `running` knows for
its key: this is where the wait for `done` before `delete` matters), `TargetInv`
(the holder's target is that of its own snapshot), `ContentInv` (every reader that
is not to be stopped is wanted, with the right keywords, and whatever is wanted
and missing is to be started) and `SyncInv` (without an overlap the only
configuration on its way is the persisted row). `ContentInv` gives
`RunningIsApplied` at the moment the mutex is released; `RunningIsApplied` and
`SyncInv` give `InSyncUnlessRaced`. `Invariance` proves all parts together, one
lemma per action; steps inside the manager share `InsideFrame` for the parts they
cannot touch.

`EditsStayInRoots` joins this to the algorithm of `pathAllowed`. `AcceptedInv`: what is
persisted, on its way to the manager or applied was submitted and accepted, or is the seed;
with `DiffCorrect` a reader at work is one of an accepted document. What is left is
that `PathAllowed`, which compares cleaned spellings without knowing the working
directory, is right about where the path leads from any of them (`AllowedIsBelow`). `Clean`
is a fold over the elements (`CleanFolds`), and every value on the way is `Normal`: some
`..` and then names. `CleanFirst`: to resolve a path from a directory is to
resolve its cleaned form. `RelContinues`: when `Rel` of root and path does not climb,
the cleaned path is the cleaned root continued by names only. `NamesAppend`: names are
appended to whatever the fold has reached. So from every directory the path
leads where the root leads, and on from there.

**`AccountsProofs`**: for any clients, names, forms, databases an earlier run may
have left, and any bounds,

* `TypeCorrect`: `TypeOK`;
* `OwnersKept`: `SessionsKeepTheirOwner`;
* `Revocation`: `RevokedSessionsAreGone`.

`IInv` is `TypeOK`, `LoginOK(c)` for every client, `SessionsKeepTheirOwner` and
`StaleAreOwed`. `LoginOK` is about the one request that carries an id over a
statement without having read the row again: a login about to mint a session has
verified the name that it submits, and if that id still exists it still
has this name -- which holds because ids are never given out twice and names never change. Hence the
owner of the new session is the one who logged in. `StaleAreOwed` strengthens
`RevokedSessionsAreGone` to accounts that are disabled at the moment: without it,
disabling an account and enabling it again would bring its old sessions back
into the statement with nothing known of them. The assumption on the initial databases
(`StartsAssumption`) says of an earlier run what the theorems say of this one.

The two action properties are `NobodyElseLocksOut` (`LockedOutOnlyByItself`) and
`ChangesLeaveARow` (`ChangesAreAudited`). The first needs no more than `TypeOK`: each statement that takes rights away is
shown to be by a request that `MayLockOut` describes, because the guards against
acting on oneself leave an administrator standing otherwise. For the second,
`AuditInv` says where a request is that has changed an account (`wrote`); the only
ways from there that avoid the audit row are a fault and the two refusals in the middle of a PATCH.

**`SyslogProofs`**: for any messages, connections, receivers and faults,

* `TypeCorrect`: `TypeOK`;
* `StopIsFinal`: `PredecessorIsSilent`;
* `HitsComplete`: `HitsAreComplete`.

`StartedInv` says that every receiver but the last is cancelled and has returned.
`OnceInv` says that a message is at one position of one inbox, or with one worker, or
behind; it is what makes `LateInv` inductive: a message read after the stop is with a
connection that has not looked at the context yet, so it is never also with one that has. `HitsInv` is
the loop invariant of `Insert`: hits inserted and hits to insert are together
those of the keywords of its receiver, whichever receiver runs meanwhile.

**`RequestLogProofs`**: for any traffic, filters, page size and length of a day,

* `TypeCorrect`: `TypeOK`, and with it that no page shows more rows than it has room for;
* `NothingIsSkipped`: `PagingSkipsNothing`;
* `DaysMatch`: `DaysAgree`;
* `WholeLinesAreKept`: `NoLineIsLost`;
* `EntriesAreAttributed`: `AttributedAsServed`, when every custom pattern of a source
  is complete (`CompletePatterns`);
* `ListsOnlyLag`: `StatsOnlyLag`.

`PagingSkipsNothing` speaks of the end of a walk. What holds on the way is `OwedInv`: a row
that matched when the list was opened is shown, or was on a page that failed or broke off, or is behind
the pages up to the one at hand (`Behind`). It survives a batch because rows are only added, so that
a position in the list never decreases (`RowsMoveDown`); a page because its rows are exactly
those at its positions, shown or `missed`; a step to the next page because the page at hand is
then among those passed; and a step back because fewer are (`PagesMonotone`). `CountedInv` (the total is
that of the rows a page was selected from, unless `stale`) turns "no more pages" into "nothing is
behind them". That a page has no more rows than its size (`PageFits`) holds because the order is
total (`TextOrder`): a row's position is its own, which makes it an injection into the positions of the page.

`StatsOnlyLag` compares lists that different statements have counted at different
moments. `ListsInv` says of each list what it counts at the moment it is read and
keeps: a list that its limit did not cut (`CountsAll`) adds up to the number of rows that
matched when its statement ran, hence to at least what the lists before it
counted, and to at most what matches now, because a batch only adds matching rows
(`MatchesStay`). That every kind of list adds up to the rows it was made of is
`StatementCounts`: groups partition the rows (`SumCounts`), a top-N list without a cut
has all groups (`TopCounts`), and every row has one day of the histogram
(`DaysCount`). `TopAssumption` says that the limits of the lists are numbers.

The theorems about parsing have a lemma per layer: the words of a line in each
format (`WordsOf`), its quoted strings whole and cut (`QuotedOf`), which expression
then matches (`MatchOf`), what a parser takes from where (`ParsersRead`, `ParsedBy`),
and that the port taken off is the one put on (`PortTakenOff`). What
is assumed of lines is stated in `TrafficsAssumption`: there is an address, at
least one word for the user ("-"), and a time; and of hosts in `HostsAssumption`: a host
with its port is not itself a host, and no two hosts look alike with theirs. A
custom pattern is complete when it has an address, a status, a time (of either
kind) and a request (whole, or method and URI). What a pattern leaves out, the code
leaves empty in the entry, so without the hypothesis the statement is not
true of the code, and nothing else is excluded: variables may come in any order, be
repeated or unknown, and a field may be given under all its names at once. What each field holds
in the end is `FieldsSet`, from `FieldSet`: it is what some variable of the pattern assigns to
it, or empty when none does; `CustomReads` adds the host of the referer for an entry without one.

**Folds.** Two theorems are about folds: `ListsOnlyLag` about the sum over groups, `EditsStayInRoots`
about the elements of a path. The induction theorems of the library take the statement as a parameter,
which the provers cannot fill in; both modules state induction about a set of
numbers instead (`Naturals`, from `LeastNatural`, from the well-foundedness of `<`
over the naturals) and apply it to the set of the lengths or sizes for which the statement holds. The folds
of the community modules are the one function that satisfies their recursion;
that there is one is proved by the same induction (`TableExists`, `SumIsTable`),
and what it returns is then known from its *trace*, the sequence of the intermediate
values (`FoldHasTrace`, `TracesAgree`).

**Model-checked only.** Liveness (`EventuallyIngested`, `ScanDelivers`,
`SavesAreAnswered`, `ShutdownEnds`, `StopReturns`, `EveryMessageStored`): the prover does not
handle fairness. `ReingestNeedsExcuse` is checked beyond the hypothesis of its theorem, for a
pattern that matches archives (`dir_archives`). Every other invariant and action property of
a passing run is a theorem.

## 6. What is abstracted or left out

* In the sources, parsing is reduced to whether a token is a complete line. A half
  line counts as unparsable; in `auto` mode a half that happens to be a valid
  shorter format is stored as a mutilated request: `Parsers` models that, and
  `AttributedAsServed` names it.
* Keyword matching is a relation (`Matches`, `Within`) from keywords to what
  contains them; mtime is left out (see `DirWatcher`).
* Files have distinct contents: two logs with the same first bytes (the
  fingerprint's known limit) do not occur.
* `importCompressed` inserts what it can decode and then reports the error, so an
  archive that is found while gzip still writes it is imported by every scan until it is
  complete, against README.md:163-165 ("imported once when discovered and then
  ignored"). The model does this (`CompressCell`, `ScanError`); its lines are
  `excused`, as those of any failed file.
* `Runtime.Validate` rejects the syslog protocol `both` that the README documents and
  `Listen` implements; a seed from `config.json` may have it, and such a
  configuration can then not be saved again. `Key` does not clean paths: two
  spellings of one path are two readers of one file. Both are in `Settings`; no
  property speaks of them.
* `OpenAtEnd` and `NewScanner` take the open and the seek of one descriptor as one
  step: what is appended between the two is skipped, as if the open came later.
* A write to the rotated file by a server that has not reopened it is modelled
  (`wfd`); network file systems and files that shrink without truncation are not.
* One page is loaded at a time: that answers to two quick clicks may arrive in the other
  order is left out. Rows with the same timestamp come in the order of their ids, as the index on
  the timestamp yields them; with a filter SQLite may choose another index and sort, which
  orders such rows in its own, fixed way.
* A URI that ends in a bare `?` has no query, as one without it: with `$request` and `$uri` in one pattern
  the query of the first would be emptied by the second, which `UriFields` leaves.
* The syntax of times, numbers and URLs is not modelled: a time parses, a path is a
  value. Neither are the sizes of responses and the top-N queries' page layout.
* `Accounts`: a password is right or wrong, weak or strong; the audit row is the step
  that writes it; `last_login_at`, the routes that only read and
  `PurgeExpiredSessions`, which nothing calls, are left out.

**Not modelled.** Writing the starter `config.json`, the `-import` flag, serving the
static files and opening the database: sequential I/O without state that another
component sees before it is finished. `index.html` except the request list: it only displays. The deregistration of subscribers: the
program has one and never removes it.

## 7. Plan

Done: the modules, runs and theorems above. What is left, in this order:

1. **Two directory sources** over one `file_state` table, whose trees overlap.
2. **Proofs**: `ReingestNeedsExcuse` for patterns that match archives, which needs an
   invariant about the lines an archive shares with the log it is made of.
