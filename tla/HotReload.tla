----------------------------- MODULE HotReload ------------------------------
(***************************************************************************)
(* How a saved configuration reaches the readers: PUT /api/config          *)
(* (internal/api/config_handler.go) calls Store.Set of                     *)
(* internal/runtimeconfig, which persists and publishes it under the       *)
(* store's lock and, after releasing that, calls the one subscriber of     *)
(* cmd/main.go: Manager.Apply (SourceManager).  Handlers run concurrently, *)
(* and with the signal handler of main.  A process that died or was        *)
(* replaced boots from the persisted row.                                  *)
(***************************************************************************)
EXTENDS SourceManager

CONSTANTS
    Handlers,   \* the goroutines that serve PUT /api/config
    Main,       \* the main goroutine, up to ListenAndServe
    Signal,     \* the goroutine that waits for SIGINT and SIGTERM
    Offered,    \* what administrators may submit, a set of Runtime
    Seeds,      \* what config.RuntimeSeed may return
    NoRuntime,  \* no row, nothing applied
    MaxSaves,   \* bound: successful saves
    MaxBoots    \* bound: starts of the process

ASSUME HotReloadAssumption ==
    /\ Threads = Handlers \cup {Main, Signal}
    /\ Offered \subseteq Runtime
    /\ Seeds \subseteq Runtime
    /\ NoRuntime \notin Runtime
    /\ MaxSaves \in Nat /\ MaxBoots \in Nat

ASSUME ThreadsAssumption ==
    Main \notin Handlers /\ Signal \notin Handlers /\ Main # Signal

VARIABLES
    row,       \* the runtime_config row, or NoRuntime
    current,   \* Store.current
    mode,      \* of the process: "down", "boot", "serving", "stopping" (signal
               \* received) or "closing" (Shutdown called)
    pc,        \* pc[t]: "idle", "call" (about to lock m.mu) or "inside"
    snapshot,  \* snapshot[t]: the configuration t passes to Apply
    saves,     \* saves so far
    boots,     \* starts of the process so far
    applied,   \* auxiliary: what the last Apply was given, NoRuntime after Stop
    raced      \* auxiliary: a save began while another was being applied

storeVars == <<row, current>>
countVars == <<saves, boots>>
vars == <<managerVars, storeVars, mode, pc, snapshot, countVars, applied, raced>>

TypeOK ==
    /\ ManagerTypeOK
    /\ row \in Runtime \cup {NoRuntime}
    /\ current \in Runtime \cup {NoRuntime}
    /\ mode \in {"down", "boot", "serving", "stopping", "closing"}
    /\ pc \in [Threads -> {"idle", "call", "inside"}]
    /\ snapshot \in [Threads -> Runtime \cup {NoRuntime}]
    /\ saves \in 0..MaxSaves
    /\ boots \in 0..MaxBoots
    /\ applied \in Runtime \cup {NoRuntime}
    /\ raced \in BOOLEAN

Init ==
    /\ ManagerInit
    /\ row = NoRuntime /\ current = NoRuntime
    /\ mode = "down"
    /\ pc = [t \in Threads |-> "idle"]
    /\ snapshot = [t \in Threads |-> NoRuntime]
    /\ saves = 0 /\ boots = 0
    /\ applied = NoRuntime
    /\ raced = FALSE

-----------------------------------------------------------------------------
(* The process.                                                            *)

\* runtimeconfig.New: the seed is used on the first launch only; then main
\* calls Apply with what the store holds.
Boot ==
    /\ mode = "down"
    /\ boots < MaxBoots
    /\ boots' = boots + 1
    /\ \/ row = NoRuntime /\ row' \in Seeds
       \/ row # NoRuntime /\ row' = row
    /\ current' = row'
    /\ mode' = "boot"
    /\ pc' = [pc EXCEPT ![Main] = "call"]
    /\ snapshot' = [snapshot EXCEPT ![Main] = row']
    /\ UNCHANGED <<managerVars, saves, applied, raced>>

\* The process is gone, and every goroutine with it.
Gone ==
    /\ mode' = "down"
    /\ pc' = [t \in Threads |-> "idle"]
    /\ snapshot' = [t \in Threads |-> NoRuntime]
    /\ applied' = NoRuntime
    /\ raced' = FALSE
    /\ current' = NoRuntime
    /\ mu' = Nobody /\ step' = "idle"
    /\ target' = {} /\ list' = NoKeywords
    /\ toStop' = {} /\ awaited' = {} /\ toStart' = {}
    /\ running' = [k \in Keys |-> NoSlot]
    /\ keywords' = NoKeywords /\ watch' = FALSE
    /\ reader' = [s \in Slots |-> Unused]
    /\ ended' = FALSE
    /\ UNCHANGED <<row, countVars>>

\* The process is killed, or performRestart calls syscall.Exec.
Crash == mode # "down" /\ Gone

\* SIGINT or SIGTERM: main's context is cancelled; mgr.Stop is next.
Terminate ==
    /\ mode = "serving"
    /\ mode' = "stopping"
    /\ ended' = TRUE
    /\ pc' = [pc EXCEPT ![Signal] = "call"]
    /\ UNCHANGED <<holderVars, running, keywords, watch, reader, storeVars, snapshot,
                   countVars, applied, raced>>

\* Shutdown makes ListenAndServe return: main returns, whatever handlers are
\* still at work.
Exit == mode = "closing" /\ Gone

-----------------------------------------------------------------------------
(* Store.Set and the calls of the manager.                                 *)

\* Set's Validate: every source has a parser.  Its other checks are in Settings.
Valid(rc) == \A i \in DOMAIN rc.sources : rc.sources[i].definition \in Startable

\* Mutant of Save: the new configuration is published but not persisted.
SaveUnpersisted(t) ==
    /\ mode \in {"serving", "stopping", "closing"}
    /\ pc[t] = "idle"
    /\ saves < MaxSaves
    /\ saves' = saves + 1
    /\ \E rc \in Offered :
          /\ Valid(rc)
          /\ current' = rc
          /\ snapshot' = [snapshot EXCEPT ![t] = rc]
    /\ pc' = [pc EXCEPT ![t] = "call"]
    /\ raced' = \E u \in Handlers : pc[u] # "idle"
    /\ UNCHANGED <<managerVars, row, mode, boots, applied>>

\* Set: persist and publish under the lock, which is released before notify.
\* A request that was accepted goes on while the process shuts down.
Save(t) ==
    /\ mode \in {"serving", "stopping", "closing"}
    /\ pc[t] = "idle"
    /\ saves < MaxSaves
    /\ saves' = saves + 1
    /\ \E rc \in Offered :
          /\ Valid(rc)
          /\ row' = rc
          /\ current' = rc
          /\ snapshot' = [snapshot EXCEPT ![t] = rc]
    /\ pc' = [pc EXCEPT ![t] = "call"]
    /\ raced' = \E u \in Handlers : pc[u] # "idle"
    /\ UNCHANGED <<managerVars, mode, boots, applied>>

\* notify, or main itself, calls Apply with its snapshot.
Apply(t) ==
    /\ pc[t] = "call"
    /\ BeginApply(t, snapshot[t])
    /\ pc' = [pc EXCEPT ![t] = "inside"]
    /\ UNCHANGED <<storeVars, mode, snapshot, countVars, applied, raced>>

\* Apply returns; a handler answers its request, main begins to serve.
Applied(t) ==
    /\ mu = t
    /\ EndApply(snapshot[t])
    /\ pc' = [pc EXCEPT ![t] = "idle"]
    /\ mode' = IF t = Main THEN "serving" ELSE mode
    /\ applied' = snapshot[t]
    /\ snapshot' = [snapshot EXCEPT ![t] = NoRuntime]
    /\ UNCHANGED <<storeVars, countVars, raced>>

Stop ==
    /\ pc[Signal] = "call"
    /\ BeginStop(Signal)
    /\ pc' = [pc EXCEPT ![Signal] = "inside"]
    /\ UNCHANGED <<storeVars, mode, snapshot, countVars, applied, raced>>

Stopped ==
    /\ mu = Signal
    /\ EndStop
    /\ pc' = [pc EXCEPT ![Signal] = "idle"]
    /\ mode' = "closing"
    /\ applied' = NoRuntime
    /\ UNCHANGED <<storeVars, snapshot, countVars, raced>>

\* The lock holder's steps inside Apply and Stop.
Proceed ==
    /\ HolderStep
    /\ UNCHANGED <<storeVars, mode, pc, snapshot, countVars, applied, raced>>

ReaderStep(s) ==
    /\ ReaderStops(s)
    /\ UNCHANGED <<storeVars, mode, pc, snapshot, countVars, applied, raced>>

ReaderError ==
    /\ \E s \in Slots : ReaderDies(s)
    /\ UNCHANGED <<storeVars, mode, pc, snapshot, countVars, applied, raced>>

Next ==
    \/ Boot \/ Crash \/ Terminate \/ Exit
    \/ \E t \in Handlers : Save(t)
    \/ \E t \in Handlers \cup {Main} : Apply(t) \/ Applied(t)
    \/ Stop \/ Stopped
    \/ Proceed
    \/ \E s \in Slots : ReaderStep(s)
    \/ ReaderError

\* Goroutines are scheduled, the mutex is handed over, and a cancelled reader
\* returns.  Nothing is assumed of administrators, signals and crashes.
Fairness ==
    /\ \A t \in Handlers \cup {Main} : SF_vars(Apply(t)) /\ WF_vars(Applied(t))
    /\ SF_vars(Stop) /\ WF_vars(Stopped) /\ WF_vars(Exit)
    /\ WF_vars(Proceed)
    /\ \A s \in Slots : WF_vars(ReaderStep(s))

Spec == Init /\ [][Next]_vars /\ Fairness

-----------------------------------------------------------------------------
(* Properties.                                                             *)

\* Whenever the mutex is free, the readers are exactly those of the Runtime
\* applied last: no source is forgotten, kept with an old definition or with
\* old keywords, whatever sequence of Apply calls led there.
RunningIsApplied ==
    mu = Nobody /\ applied # NoRuntime => Reflects(applied)

\* No save and no start-up is on its way to the manager.
Settled == mode = "serving" /\ \A t \in Threads : pc[t] = "idle"

\* Once things settle the readers are those of the persisted row, also after a
\* crash between Set and Apply, unless two saves overlapped.
InSyncUnlessRaced == Settled /\ ~raced => Reflects(row)

\* Every save is answered, unless the process ends: Apply waits for readers
\* while it holds the mutex, and they all return.
SavesAreAnswered == \A t \in Handlers : pc[t] # "idle" ~> pc[t] = "idle"

\* After a signal the process ends, however many saves are in flight.
ShutdownEnds == mode = "stopping" ~> mode = "down"

\* cmd/main.go: the manager "subscribes to runtime-config changes so the
\* settings panel's "Save" button can start/stop/restart sources": what was
\* saved last is what runs.
SavedIsRunning == Settled => Reflects(row)
=============================================================================
