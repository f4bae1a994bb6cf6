--------------------------- MODULE SourceManager ----------------------------
(***************************************************************************)
(* internal/watcher/manager.go: the Manager owns one reader goroutine per  *)
(* configured source.  Apply and Stop run under one mutex; whoever holds   *)
(* it stops readers one at a time (cancel, wait for the goroutine, forget  *)
(* it), then starts the missing ones, in the order of a map iteration.     *)
(* The readers themselves run concurrently and return when cancelled; some *)
(* may return by themselves (a syslog listener that cannot bind).          *)
(*                                                                         *)
(* The module is a component: it has no specification of its own.          *)
(***************************************************************************)
EXTENDS Naturals, Sequences

CONSTANTS
    Keys,         \* what Source.Key returns
    Definitions,  \* the other fields sourcesEqual compares
    Startable,    \* the definitions parser.New accepts
    Mortal,       \* the definitions whose reader may return by itself
    KeywordLists, \* values of Runtime.Keywords
    NoKeywords,   \* the empty list, m.keywords of a new manager
    Threads,      \* the goroutines that call the manager
    Nobody,       \* the mutex is free
    Slots,        \* identities of runningSource values
    NoSlot        \* "no entry in m.running"

Source == [key : Keys, definition : Definitions]
Runtime == [watch : BOOLEAN, keywords : KeywordLists, sources : Seq(Source)]
Reader == [source : Source, keywords : KeywordLists,
           phase : {"reading", "cancelled", "returned"}]

\* A runningSource that is garbage, or has not been allocated yet.
Unused == [source |-> CHOOSE s \in Source : TRUE, keywords |-> NoKeywords,
           phase |-> "returned"]

ASSUME ManagerAssumption ==
    /\ Keys # {} /\ Definitions # {}
    /\ Startable \subseteq Definitions
    /\ Mortal \subseteq Definitions
    /\ NoKeywords \in KeywordLists
    /\ Nobody \notin Threads
    /\ NoSlot \notin Slots

VARIABLES
    mu,        \* who holds m.mu, or Nobody
    step,      \* what the holder is doing: "stop", "wait", "start", or "idle"
    target,    \* the holder's target: a set of sources
    list,      \* rc.Keywords of the holder's Apply
    toStop,    \* keys the holder has still to stop
    awaited,   \* the keys (at most one) whose reader the holder waits for
    toStart,   \* sources the holder has still to start
    running,   \* m.running
    keywords,  \* m.keywords
    watch,     \* m.watch
    reader,    \* the reader goroutine of each slot
    ended      \* m.ctx is cancelled

holderVars == <<mu, step, target, list, toStop, awaited, toStart>>
managerVars == <<holderVars, running, keywords, watch, reader, ended>>

HolderTypeOK ==
    /\ mu \in Threads \cup {Nobody}
    /\ step \in {"idle", "stop", "wait", "start"}
    /\ target \subseteq Source
    /\ list \in KeywordLists
    /\ toStop \subseteq Keys
    /\ awaited \subseteq Keys
    /\ toStart \subseteq Source

ReadersTypeOK ==
    /\ running \in [Keys -> Slots \cup {NoSlot}]
    /\ keywords \in KeywordLists
    /\ watch \in BOOLEAN
    /\ reader \in [Slots -> Reader]
    /\ ended \in BOOLEAN

ManagerTypeOK == HolderTypeOK /\ ReadersTypeOK

\* A new manager; no goroutine of an earlier process is left.
ManagerInit ==
    /\ mu = Nobody
    /\ step = "idle"
    /\ target = {}
    /\ list = NoKeywords
    /\ toStop = {} /\ awaited = {} /\ toStart = {}
    /\ running = [k \in Keys |-> NoSlot]
    /\ keywords = NoKeywords
    /\ watch = FALSE
    /\ reader = [s \in Slots |-> Unused]
    /\ ended = FALSE

-----------------------------------------------------------------------------
(* Helpers.                                                                *)

\* The target set of Apply: of several sources with one key the first wins.
Target(rc) ==
    {rc.sources[i] : i \in {n \in DOMAIN rc.sources :
        rc.watch /\ \A m \in 1..(n - 1) : rc.sources[m].key # rc.sources[n].key}}

Running == {k \in Keys : running[k] # NoSlot}

\* The source m.running[k] was started with.
SourceOf(k) == reader[running[k]].source

\* Mutant of Kept: a change of the keywords alone restarts nothing.
KeptWithOldKeywords(k, rc) == SourceOf(k) \in Target(rc) /\ watch

\* A reader Apply leaves alone: its definition is unchanged, and so are the
\* keywords and the watch flag.
Kept(k, rc) == SourceOf(k) \in Target(rc) /\ watch /\ keywords = rc.keywords

\* A new runningSource is neither in m.running nor that of a live goroutine.
FreeSlot(s) ==
    /\ reader[s].phase = "returned"
    /\ \A k \in Keys : running[k] # s

-----------------------------------------------------------------------------
(* Apply and Stop.                                                         *)

\* Apply takes the mutex and works out what has to stop.
BeginApply(t, rc) ==
    /\ mu = Nobody
    /\ mu' = t
    /\ step' = "stop"
    /\ target' = Target(rc)
    /\ list' = rc.keywords
    /\ toStop' = {k \in Running : ~Kept(k, rc)}
    /\ UNCHANGED <<awaited, toStart, running, keywords, watch, reader, ended>>

\* Stop takes the mutex.
BeginStop(t) ==
    /\ mu = Nobody
    /\ mu' = t
    /\ step' = "stop"
    /\ target' = {}
    /\ list' = keywords
    /\ toStop' = Running
    /\ UNCHANGED <<awaited, toStart, running, keywords, watch, reader, ended>>

\* Mutant of CancelOne: stopLocked waits without having cancelled.
WaitOnly ==
    /\ step = "stop"
    /\ \E k \in toStop :
          /\ toStop' = toStop \ {k}
          /\ awaited' = {k}
    /\ step' = "wait"
    /\ UNCHANGED <<mu, target, list, toStart, running, keywords, watch, reader, ended>>

\* stopLocked: rs.cancel().
CancelOne ==
    /\ step = "stop"
    /\ \E k \in toStop :
          /\ toStop' = toStop \ {k}
          /\ awaited' = {k}
          /\ reader' = [reader EXCEPT ![running[k]].phase =
                           IF @ = "reading" THEN "cancelled" ELSE @]
    /\ step' = "wait"
    /\ UNCHANGED <<mu, target, list, toStart, running, keywords, watch, ended>>

\* Mutant of Forget: the reader is not waited for.
ForgetAtOnce ==
    /\ step = "wait"
    /\ running' = [k \in Keys |-> IF k \in awaited THEN NoSlot ELSE running[k]]
    /\ awaited' = {}
    /\ step' = "stop"
    /\ UNCHANGED <<mu, target, list, toStop, toStart, keywords, watch, reader, ended>>

\* stopLocked: <-rs.done, then the entry is deleted.
Forget ==
    /\ step = "wait"
    /\ \A k \in awaited : reader[running[k]].phase = "returned"
    /\ running' = [k \in Keys |-> IF k \in awaited THEN NoSlot ELSE running[k]]
    /\ reader' = [s \in Slots |->
                    IF \E k \in awaited : running[k] = s THEN Unused ELSE reader[s]]
    /\ awaited' = {}
    /\ step' = "stop"
    /\ UNCHANGED <<mu, target, list, toStop, toStart, keywords, watch, ended>>

\* Everything that has to stop has stopped; what is missing is started.
TurnToStart ==
    /\ step = "stop"
    /\ toStop = {}
    /\ step' = "start"
    /\ toStart' = {s \in target : running[s.key] = NoSlot}
    /\ UNCHANGED <<mu, target, list, toStop, awaited, running, keywords, watch,
                   reader, ended>>

\* startLocked: a reader with a context derived from m.ctx.
StartOne ==
    /\ step = "start"
    /\ \E s \in toStart :
          /\ s.definition \in Startable
          /\ toStart' = toStart \ {s}
          /\ \E i \in Slots :
                /\ FreeSlot(i)
                /\ running' = [running EXCEPT ![s.key] = i]
                /\ reader' = [reader EXCEPT ![i] =
                                [source |-> s, keywords |-> list, phase |-> "reading"]]
    /\ UNCHANGED <<mu, step, target, list, toStop, awaited, keywords, watch, ended>>

\* startLocked: parser.New fails; the other sources are started all the same.
StartFails ==
    /\ step = "start"
    /\ \E s \in toStart :
          /\ s.definition \notin Startable
          /\ toStart' = toStart \ {s}
    /\ UNCHANGED <<mu, step, target, list, toStop, awaited, running, keywords, watch,
                   reader, ended>>

Done == step = "start" /\ toStart = {}

\* Mutant of Unlock: the mutex is not released.
KeepLock ==
    /\ Done
    /\ step' = "idle"
    /\ target' = {}
    /\ list' = NoKeywords
    /\ UNCHANGED <<mu, toStop, awaited, toStart, running, reader, ended>>

Unlock ==
    /\ Done
    /\ mu' = Nobody
    /\ step' = "idle"
    /\ target' = {}
    /\ list' = NoKeywords
    /\ UNCHANGED <<toStop, awaited, toStart, running, reader, ended>>

\* Apply records what it applied and returns.
EndApply(rc) ==
    /\ Unlock
    /\ watch' = rc.watch
    /\ keywords' = rc.keywords

\* Stop returns; m.watch stays as it was.
EndStop ==
    /\ Unlock
    /\ UNCHANGED <<watch, keywords>>

HolderStep == CancelOne \/ Forget \/ TurnToStart \/ StartOne \/ StartFails

-----------------------------------------------------------------------------
(* The readers.                                                            *)

\* Mutant of Return: the goroutine ends without closing done.
ReturnOpen(s) ==
    /\ reader' = [reader EXCEPT ![s].phase = "open"]
    /\ UNCHANGED <<holderVars, running, keywords, watch, ended>>

Return(s) ==
    /\ reader' = [reader EXCEPT ![s].phase = "returned"]
    /\ UNCHANGED <<holderVars, running, keywords, watch, ended>>

\* Watch or Listen sees that its context is cancelled.
ReaderStops(s) ==
    /\ \/ reader[s].phase = "cancelled"
       \/ reader[s].phase = "reading" /\ ended
    /\ Return(s)

\* Watch or Listen returns an error; nobody is told.
ReaderDies(s) ==
    /\ reader[s].phase = "reading"
    /\ reader[s].source.definition \in Mortal
    /\ Return(s)

-----------------------------------------------------------------------------
(* Properties.                                                             *)

\* Two readers of one key never read at the same time, whatever Apply and Stop
\* calls overlap: stopLocked waits, so that "a follow-up start sees the previous
\* reader fully released".
OneReaderPerKey ==
    \A i, j \in Slots :
        /\ reader[i].phase # "returned"
        /\ reader[j].phase # "returned"
        /\ reader[i].source.key = reader[j].source.key
        => i = j

\* m.running holds exactly the readers rc asks for, each started with the
\* definition and the keywords of rc.
Reflects(rc) ==
    /\ \A k \in Running :
          SourceOf(k).key = k /\ reader[running[k]].keywords = rc.keywords
    /\ {SourceOf(k) : k \in Running} =
          {s \in Target(rc) : s.definition \in Startable}
=============================================================================
