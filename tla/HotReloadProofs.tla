-------------------------- MODULE HotReloadProofs ---------------------------
(***************************************************************************)
(* Proofs about HotReload: type correctness, one reader per key, and that  *)
(* the readers are those of the configuration applied last, for every set  *)
(* of keys, definitions, handlers and configurations, and any number of    *)
(* saves and starts of the process; and about Settings: after an edit no   *)
(* reader is at work outside the roots, for every set of paths, roots and  *)
(* working directories.                                                    *)
(***************************************************************************)
EXTENDS Settings, FiniteSetTheorems, SequenceTheorems, WellFoundedInduction, TLAPS

Callers == Handlers \cup {Main}

-----------------------------------------------------------------------------
(* The inductive invariant, in named parts.                                *)

\* The mutex and the goroutines: whoever is inside a call of the manager holds
\* it; which goroutines are at work depends on the mode of the process.
LockInv ==
    /\ (mu = Nobody) <=> (step = "idle")
    /\ \A t \in Threads : (pc[t] = "inside") <=> (mu = t)
    /\ \A t \in Callers : pc[t] # "idle" => snapshot[t] \in Runtime
    /\ mode = "down" => \A t \in Threads : pc[t] = "idle"
    /\ pc[Main] # "idle" => mode = "boot"
    /\ pc[Signal] # "idle" => mode = "stopping"

\* The work the holder of the mutex has before it.
WorkInv ==
    /\ step \in {"idle", "start"} => toStop = {}
    /\ step # "wait" => awaited = {}
    /\ step # "start" => toStart = {}
    /\ toStop \cup awaited \subseteq Running
    /\ toStop \cap awaited = {}
    /\ \A s \in toStart : s \in target /\ running[s.key] = NoSlot
    /\ \A s, r \in target : s.key = r.key => s = r

\* A goroutine that has not returned is the one m.running knows for its key.
OwnInv ==
    \A i \in Slots : reader[i].phase # "returned" => running[reader[i].source.key] = i

\* What the holder works towards.
TargetInv ==
    /\ \A t \in Callers : mu = t => /\ target = Target(snapshot[t])
                                    /\ list = snapshot[t].keywords
    /\ mu = Signal => target = {} /\ list = keywords

\* The readers in m.running: those that are not to be stopped are wanted, and
\* what is wanted and not running is to be started.
ContentInv ==
    /\ \A k \in Running : SourceOf(k).key = k /\ SourceOf(k).definition \in Startable
    /\ mu = Nobody => \A k \in Running : reader[running[k]].keywords = keywords
    /\ mu # Nobody => \A k \in Running \ (toStop \cup awaited) :
                         SourceOf(k) \in target /\ reader[running[k]].keywords = list
    /\ step = "start" => \A s \in target : \/ s.definition \notin Startable
                                           \/ s \in toStart
                                           \/ running[s.key] # NoSlot

\* An overlap of saves apart, the last save is applied or about to be.
SyncInv ==
    /\ mode # "down" => row \in Runtime
    /\ mode = "down" => ~raced
    /\ mode = "boot" => /\ pc[Main] # "idle" /\ snapshot[Main] = row
                        /\ \A t \in Handlers : pc[t] = "idle"
                        /\ ~raced
    /\ mode = "serving" /\ ~raced =>
          \/ /\ \A t \in Handlers : pc[t] = "idle"
             /\ applied = row
          \/ \E t \in Handlers : /\ pc[t] # "idle" /\ snapshot[t] = row
                                 /\ \A u \in Handlers \ {t} : pc[u] = "idle"

Inv == LockInv /\ WorkInv /\ OwnInv /\ TargetInv /\ ContentInv /\ RunningIsApplied
       /\ SyncInv

-----------------------------------------------------------------------------
(* Types.                                                                  *)

\* A slot that was never used has the type of a reader.
LEMMA UnusedType == Unused \in Reader /\ Unused.phase = "returned"
  <1>1. PICK k \in Keys, d \in Definitions : TRUE
    BY ManagerAssumption
  <1>2. [key |-> k, definition |-> d] \in Source
    BY DEF Source
  <1>3. (CHOOSE s \in Source : TRUE) \in Source
    BY <1>2
  <1> QED
    BY <1>3, ManagerAssumption DEF Unused, Reader

\* The target set of Apply holds sources of the configuration, one per key.
LEMMA TargetType ==
  ASSUME NEW rc \in Runtime
  PROVE  /\ Target(rc) \subseteq Source
         /\ \A s, r \in Target(rc) : s.key = r.key => s = r
  <1>1. rc.sources \in Seq(Source)
    BY DEF Runtime
  <1>2. \A n \in DOMAIN rc.sources : n \in Nat /\ n >= 1 /\ rc.sources[n] \in Source
    BY <1>1
  <1>3. ASSUME NEW s \in Target(rc), NEW r \in Target(rc), s.key = r.key
        PROVE  s = r
    <2>1. PICK n \in DOMAIN rc.sources :
             /\ s = rc.sources[n]
             /\ \A m \in 1..(n - 1) : rc.sources[m].key # rc.sources[n].key
      BY DEF Target
    <2>2. PICK q \in DOMAIN rc.sources :
             /\ r = rc.sources[q]
             /\ \A m \in 1..(q - 1) : rc.sources[m].key # rc.sources[q].key
      BY DEF Target
    <2>3. ~(n < q) /\ ~(q < n)
      BY <1>2, <1>3, <2>1, <2>2
    <2> QED
      BY <1>2, <2>1, <2>2, <2>3
  <1> QED
    BY <1>2, <1>3 DEF Target

\* Changing the phase of a reader changes nothing else of it.
LEMMA PhaseType ==
  ASSUME NEW r \in Reader, NEW p \in {"reading", "cancelled", "returned"}
  PROVE  LET q == [r EXCEPT !.phase = p]
         IN  q \in Reader /\ q.source = r.source /\ q.keywords = r.keywords /\ q.phase = p
  BY DEF Reader

\* The initial state has the right types.
LEMMA TypeInit == Init => TypeOK
  <1> SUFFICES ASSUME Init PROVE TypeOK
    OBVIOUS
  <1>1. HolderTypeOK
    BY ManagerAssumption DEF Init, ManagerInit, HolderTypeOK
  <1>2. ReadersTypeOK
    <2>1. reader \in [Slots -> Reader]
      BY UnusedType DEF Init, ManagerInit
    <2> QED
      BY <2>1, ManagerAssumption DEF Init, ManagerInit, ReadersTypeOK
  <1>3. saves \in 0..MaxSaves /\ boots \in 0..MaxBoots
    BY HotReloadAssumption DEF Init
  <1> QED
    BY <1>1, <1>2, <1>3 DEF Init, TypeOK, ManagerTypeOK

\* Every step of the process, a handler or the manager keeps the types.
LEMMA TypeStep ==
  ASSUME TypeOK, WorkInv, LockInv, [Next]_vars
  PROVE  TypeOK'
  <1> USE DEF TypeOK, ManagerTypeOK
  <1>m. Main \in Threads /\ Signal \in Threads /\ Handlers \subseteq Threads
    BY HotReloadAssumption
  <1>1. CASE Boot
    BY <1>1, <1>m, HotReloadAssumption DEF Boot, managerVars, holderVars, HolderTypeOK, ReadersTypeOK
  <1>2. CASE Gone
    BY <1>2, UnusedType, ManagerAssumption
    DEF Gone, countVars, HolderTypeOK, ReadersTypeOK
  <1>3. CASE Terminate
    BY <1>3, <1>m DEF Terminate, storeVars, countVars, holderVars, HolderTypeOK, ReadersTypeOK
  <1>4. ASSUME NEW t \in Handlers, Save(t)
        PROVE  TypeOK'
    BY <1>4, <1>m, HotReloadAssumption DEF Save, managerVars, holderVars, HolderTypeOK, ReadersTypeOK
  <1>5. ASSUME NEW t \in Callers, Apply(t)
        PROVE  TypeOK'
    <2>1. snapshot[t] \in Runtime /\ t \in Threads
      BY <1>5, <1>m DEF Apply, LockInv, Callers
    <2>2. Target(snapshot[t]) \subseteq Source /\ snapshot[t].keywords \in KeywordLists
      BY <2>1, TargetType DEF Runtime
    <2>3. Running \subseteq Keys
      BY DEF Running
    <2> QED
      BY <1>5, <2>1, <2>2, <2>3
      DEF Apply, BeginApply, storeVars, countVars, HolderTypeOK, ReadersTypeOK
  <1>6. ASSUME NEW t \in Callers, Applied(t)
        PROVE  TypeOK'
    <2>1. snapshot[t] \in Runtime /\ t \in Threads
      BY <1>6, <1>m DEF Applied, LockInv, Callers
    <2>2. snapshot[t].watch \in BOOLEAN /\ snapshot[t].keywords \in KeywordLists
      BY <2>1 DEF Runtime
    <2> QED
      BY <1>6, <2>1, <2>2, ManagerAssumption
      DEF Applied, EndApply, Unlock, storeVars, countVars, HolderTypeOK, ReadersTypeOK
  <1>7. CASE Stop
    BY <1>7, <1>m DEF Stop, BeginStop, Running, storeVars, countVars, HolderTypeOK, ReadersTypeOK
  <1>8. CASE Stopped
    BY <1>8, <1>m, ManagerAssumption
    DEF Stopped, EndStop, Unlock, storeVars, countVars, HolderTypeOK, ReadersTypeOK
  <1>9. CASE Proceed
    <2> USE DEF storeVars, countVars
    <2>1. CASE CancelOne
      <3>1. PICK k \in toStop :
               /\ toStop' = toStop \ {k}
               /\ awaited' = {k}
               /\ reader' = [reader EXCEPT ![running[k]].phase =
                                IF @ = "reading" THEN "cancelled" ELSE @]
        BY <2>1 DEF CancelOne
      <3>2. running[k] \in Slots
        BY DEF WorkInv, Running, ReadersTypeOK
      <3>3. reader[running[k]].phase \in {"reading", "cancelled", "returned"}
        BY <3>2 DEF ReadersTypeOK, Reader
      <3>4. reader' \in [Slots -> Reader]
        BY <3>1, <3>2, <3>3, PhaseType DEF ReadersTypeOK
      <3> QED
        BY <1>9, <2>1, <3>1, <3>4 DEF Proceed, CancelOne, HolderTypeOK, ReadersTypeOK
    <2>2. CASE Forget
      BY <1>9, <2>2, UnusedType DEF Proceed, Forget, HolderTypeOK, ReadersTypeOK
    <2>3. CASE TurnToStart
      BY <1>9, <2>3 DEF Proceed, TurnToStart, HolderTypeOK, ReadersTypeOK
    <2>4. CASE StartOne
      <3>1. PICK s \in toStart, i \in Slots :
               /\ toStart' = toStart \ {s}
               /\ running' = [running EXCEPT ![s.key] = i]
               /\ reader' = [reader EXCEPT ![i] =
                              [source |-> s, keywords |-> list, phase |-> "reading"]]
        BY <2>4 DEF StartOne
      <3>2. [source |-> s, keywords |-> list, phase |-> "reading"] \in Reader
        BY DEF HolderTypeOK, Reader
      <3> QED
        BY <1>9, <2>4, <3>1, <3>2 DEF Proceed, StartOne, HolderTypeOK, ReadersTypeOK
    <2>5. CASE StartFails
      BY <1>9, <2>5 DEF Proceed, StartFails, HolderTypeOK, ReadersTypeOK
    <2> QED
      BY <1>9, <2>1, <2>2, <2>3, <2>4, <2>5 DEF Proceed, HolderStep
  <1>10. ASSUME NEW s \in Slots, Return(s),
                UNCHANGED <<storeVars, mode, pc, snapshot, countVars, applied, raced>>
         PROVE  TypeOK'
    <2>1. reader' \in [Slots -> Reader]
      BY <1>10, PhaseType DEF Return, ReadersTypeOK
    <2> QED
      BY <1>10, <2>1 DEF Return, storeVars, countVars, holderVars, HolderTypeOK, ReadersTypeOK
  <1>11. CASE UNCHANGED vars
    BY <1>11 DEF vars, managerVars, holderVars, storeVars, countVars, HolderTypeOK, ReadersTypeOK
  <1> QED
    BY <1>1, <1>2, <1>3, <1>4, <1>5, <1>6, <1>7, <1>8, <1>9, <1>10, <1>11
    DEF Next, Crash, Exit, Callers, ReaderStep, ReaderError, ReaderStops, ReaderDies

-----------------------------------------------------------------------------
(* The invariant holds initially and is kept by every action.              *)

\* The initial state satisfies the invariant.
LEMMA InvInit == Init => Inv
  <1> SUFFICES ASSUME Init PROVE Inv
    OBVIOUS
  <1>1. Running = {}
    BY DEF Init, ManagerInit, Running
  <1>2. LockInv
    BY HotReloadAssumption, ThreadsAssumption, ManagerAssumption
    DEF Init, ManagerInit, LockInv, Callers
  <1>3. WorkInv
    BY <1>1 DEF Init, ManagerInit, WorkInv
  <1>4. OwnInv
    BY UnusedType DEF Init, ManagerInit, OwnInv
  <1>5. TargetInv
    BY HotReloadAssumption, ManagerAssumption DEF Init, ManagerInit, TargetInv, Callers
  <1>6. ContentInv
    BY <1>1 DEF Init, ManagerInit, ContentInv
  <1>7. RunningIsApplied
    BY DEF Init, RunningIsApplied
  <1>8. SyncInv
    BY DEF Init, SyncInv
  <1> QED
    BY <1>2, <1>3, <1>4, <1>5, <1>6, <1>7, <1>8 DEF Inv

\* What the manager alone determines stays true when nothing of it changes.
LEMMA ManagerFrame ==
  ASSUME WorkInv, OwnInv, ContentInv,
         UNCHANGED <<holderVars, running, keywords, watch, reader>>
  PROVE  WorkInv' /\ OwnInv' /\ ContentInv'
  BY DEF WorkInv, OwnInv, ContentInv, holderVars, Running, SourceOf

\* So does the property proper, unless another configuration was applied.
LEMMA AppliedFrame ==
  ASSUME RunningIsApplied,
         UNCHANGED <<holderVars, running, keywords, watch, reader>>, UNCHANGED applied
  PROVE  RunningIsApplied'
  BY DEF RunningIsApplied, Reflects, holderVars, Running, SourceOf, Target

\* The boot of the process.
LEMMA BootStep ==
  ASSUME TypeOK, Inv, Boot
  PROVE  Inv'
  <1> USE DEF Inv
  <1>m. Main \in Threads /\ Signal \in Threads /\ Handlers \subseteq Threads
    BY HotReloadAssumption
  <1>f. UNCHANGED <<holderVars, running, keywords, watch, reader>> /\ UNCHANGED applied
    BY DEF Boot, managerVars
  <1>r. row' \in Runtime
    BY HotReloadAssumption DEF Boot, TypeOK
  <1>p. pc' = [pc EXCEPT ![Main] = "call"] /\ mode' = "boot" /\ mode = "down"
        /\ snapshot' = [snapshot EXCEPT ![Main] = row']
    BY DEF Boot
  <1>t. pc \in [Threads -> {"idle", "call", "inside"}] /\ mu \in Threads \cup {Nobody}
        /\ snapshot \in [Threads -> Runtime \cup {NoRuntime}]
    BY DEF TypeOK, ManagerTypeOK, HolderTypeOK
  <1>n. mu = Nobody
    BY <1>p, <1>t DEF LockInv
  <1>1. LockInv'
    BY <1>m, <1>f, <1>r, <1>p, <1>t, <1>n, ThreadsAssumption, ManagerAssumption
    DEF LockInv, holderVars, Callers
  <1>2. TargetInv'
    BY <1>f, <1>n, <1>m, ManagerAssumption DEF TargetInv, holderVars, Callers
  <1>3. raced' = FALSE
    BY <1>p DEF Boot, SyncInv
  <1>4. SyncInv'
    BY <1>m, <1>r, <1>p, <1>t, <1>3, ThreadsAssumption DEF SyncInv, LockInv
  <1> QED
    BY <1>f, <1>1, <1>2, <1>4, ManagerFrame, AppliedFrame

\* The end of the process.
LEMMA GoneStep ==
  ASSUME TypeOK, Inv, Gone
  PROVE  Inv'
  <1> USE DEF Inv
  <1>m. Main \in Threads /\ Signal \in Threads /\ Handlers \subseteq Threads
    BY HotReloadAssumption
  <1>1. Running' = {}
    BY DEF Gone, Running
  <1>2. LockInv'
    BY <1>m, ThreadsAssumption, ManagerAssumption DEF Gone, LockInv, Callers
  <1>3. WorkInv'
    BY <1>1 DEF Gone, WorkInv
  <1>4. OwnInv'
    BY UnusedType DEF Gone, OwnInv
  <1>5. TargetInv'
    BY <1>m, ManagerAssumption DEF Gone, TargetInv, Callers
  <1>6. ContentInv'
    BY <1>1 DEF Gone, ContentInv
  <1>7. RunningIsApplied'
    BY DEF Gone, RunningIsApplied
  <1>8. SyncInv'
    BY DEF Gone, SyncInv
  <1> QED
    BY <1>2, <1>3, <1>4, <1>5, <1>6, <1>7, <1>8

\* A signal.
LEMMA TerminateStep ==
  ASSUME TypeOK, Inv, Terminate
  PROVE  Inv'
  <1> USE DEF Inv
  <1>m. Main \in Threads /\ Signal \in Threads /\ Handlers \subseteq Threads
    BY HotReloadAssumption
  <1>f. /\ UNCHANGED <<holderVars, running, keywords, watch, reader>>
        /\ UNCHANGED applied /\ UNCHANGED snapshot /\ UNCHANGED mu
    BY DEF Terminate, holderVars
  <1>p. pc' = [pc EXCEPT ![Signal] = "call"] /\ mode' = "stopping" /\ mode = "serving"
    BY DEF Terminate
  <1>t. pc \in [Threads -> {"idle", "call", "inside"}]
    BY DEF TypeOK
  <1>1. LockInv'
    BY <1>m, <1>f, <1>p, <1>t, ThreadsAssumption DEF LockInv, holderVars, Callers
  <1>2. TargetInv'
    BY <1>f DEF TargetInv, holderVars
  <1>3. SyncInv'
    BY <1>p DEF Terminate, storeVars, SyncInv
  <1> QED
    BY <1>f, <1>1, <1>2, <1>3, ManagerFrame, AppliedFrame

\* A save: the new row, and a call of the manager to come.
LEMMA SaveStep ==
  ASSUME TypeOK, Inv, NEW t \in Handlers, Save(t)
  PROVE  Inv'
  <1> USE DEF Inv
  <1>m. Main \in Threads /\ Signal \in Threads /\ Handlers \subseteq Threads
    BY HotReloadAssumption
  <1>f. /\ UNCHANGED <<holderVars, running, keywords, watch, reader>>
        /\ UNCHANGED applied /\ UNCHANGED mode /\ UNCHANGED mu
    BY DEF Save, managerVars, holderVars
  <1>p. /\ pc[t] = "idle" /\ pc' = [pc EXCEPT ![t] = "call"]
        /\ mode \in {"serving", "stopping", "closing"}
        /\ raced' = \E u \in Handlers : pc[u] # "idle"
    BY DEF Save
  <1>t. pc \in [Threads -> {"idle", "call", "inside"}]
        /\ snapshot \in [Threads -> Runtime \cup {NoRuntime}]
    BY DEF TypeOK
  <1>r. PICK rc \in Runtime : row' = rc /\ snapshot' = [snapshot EXCEPT ![t] = rc]
    BY HotReloadAssumption DEF Save
  <1>1. LockInv'
    BY <1>m, <1>f, <1>p, <1>r, <1>t, ThreadsAssumption DEF LockInv, holderVars, Callers
  <1>n. mu # t
    BY <1>m, <1>p DEF LockInv
  <1>2. TargetInv'
    <2>1. ASSUME NEW u \in Callers, mu' = u
          PROVE  target' = Target(snapshot'[u]) /\ list' = snapshot'[u].keywords
      <3>1. snapshot'[u] = snapshot[u] /\ mu = u
        BY <1>f, <1>m, <1>n, <1>r, <1>t, <2>1 DEF Callers
      <3> QED
        BY <1>f, <2>1, <3>1 DEF TargetInv, holderVars
    <2> QED
      BY <1>f, <2>1 DEF TargetInv, holderVars
  <1>3. SyncInv'
    BY <1>m, <1>f, <1>p, <1>r, <1>t DEF SyncInv
  <1> QED
    BY <1>f, <1>1, <1>2, <1>3, ManagerFrame, AppliedFrame

\* A handler or main takes the mutex.
LEMMA ApplyStep ==
  ASSUME TypeOK, Inv, NEW t \in Callers, Apply(t)
  PROVE  Inv'
  <1> USE DEF Inv
  <1> DEFINE rc == snapshot[t]
  <1>m. /\ Main \in Threads /\ Signal \in Threads /\ Handlers \subseteq Threads
        /\ t \in Threads /\ t # Signal /\ Nobody \notin Threads
    BY HotReloadAssumption, ThreadsAssumption, ManagerAssumption DEF Callers
  <1>p. /\ pc[t] = "call" /\ pc' = [pc EXCEPT ![t] = "inside"]
        /\ mu = Nobody /\ mu' = t /\ step' = "stop"
        /\ target' = Target(rc) /\ list' = rc.keywords
        /\ toStop' = {k \in Running : ~Kept(k, rc)}
        /\ UNCHANGED <<awaited, toStart, running, keywords, watch, reader>>
        /\ UNCHANGED <<row, mode, snapshot, applied, raced>>
    BY DEF Apply, BeginApply, storeVars
  <1>t. pc \in [Threads -> {"idle", "call", "inside"}]
    BY DEF TypeOK
  <1>r. rc \in Runtime
    BY <1>p DEF LockInv
  <1>1. LockInv'
    BY <1>m, <1>p, <1>t DEF LockInv, Callers
  <1>2. WorkInv'
    BY <1>p, <1>r, TargetType DEF WorkInv, LockInv, Running
  <1>3. OwnInv'
    BY <1>p DEF OwnInv
  <1>4. TargetInv'
    BY <1>m, <1>p DEF TargetInv
  <1>5. ContentInv'
    BY <1>m, <1>p DEF ContentInv, Running, SourceOf, Kept
  <1>6. RunningIsApplied'
    BY <1>m, <1>p DEF RunningIsApplied
  <1>7. SyncInv'
    <2>1. \A u \in Threads : (pc'[u] = "idle") <=> (pc[u] = "idle")
      BY <1>m, <1>p, <1>t
    <2> QED
      BY <1>m, <1>p, <2>1 DEF SyncInv
  <1> QED
    BY <1>1, <1>2, <1>3, <1>4, <1>5, <1>6, <1>7

\* Apply returns: what runs is what was asked for.
LEMMA AppliedStep ==
  ASSUME TypeOK, Inv, NEW t \in Callers, Applied(t)
  PROVE  Inv'
  <1> USE DEF Inv
  <1>m. /\ Main \in Threads /\ Signal \in Threads /\ Handlers \subseteq Threads
        /\ t \in Threads /\ t # Signal /\ Nobody \notin Threads
    BY HotReloadAssumption, ThreadsAssumption, ManagerAssumption DEF Callers
  <1>c. PICK rc \in Runtime : rc = snapshot[t]
    BY <1>m DEF Applied, LockInv
  <1>p. /\ mu = t /\ mu' = Nobody /\ step = "start" /\ toStart = {} /\ step' = "idle"
        /\ target' = {} /\ keywords' = rc.keywords
        /\ pc' = [pc EXCEPT ![t] = "idle"]
        /\ mode' = IF t = Main THEN "serving" ELSE mode
        /\ applied' = rc
        /\ snapshot' = [snapshot EXCEPT ![t] = NoRuntime]
        /\ UNCHANGED <<toStop, awaited, toStart, running, reader, row, raced>>
    BY <1>c DEF Applied, EndApply, Unlock, Done, storeVars
  <1>t. pc \in [Threads -> {"idle", "call", "inside"}]
        /\ snapshot \in [Threads -> Runtime \cup {NoRuntime}]
    BY DEF TypeOK
  <1>b. pc[t] = "inside" /\ target = Target(rc) /\ list = rc.keywords
    BY <1>c, <1>m, <1>p DEF LockInv, TargetInv
  <1>e. toStop = {} /\ awaited = {}
    BY <1>p DEF WorkInv
  <1>1. LockInv'
    <2>1. \A u \in Threads : u # t => pc[u] # "inside"
      BY <1>m, <1>p DEF LockInv
    <2>2. (t = Main /\ mode = "boot" /\ pc[Signal] = "idle") \/ (t # Main /\ mode # "down")
      BY <1>m, <1>p, <1>b DEF LockInv
    <2>3. \A u \in Threads : pc'[u] # "inside" /\ (pc'[u] # "idle" => pc[u] # "idle" /\ u # t)
      BY <1>m, <1>p, <1>t, <2>1
    <2>4. \A u \in Callers : pc'[u] # "idle" => snapshot'[u] \in Runtime
      BY <1>m, <1>p, <1>t, <2>3 DEF LockInv, Callers
    <2>5. /\ mode' # "down"
          /\ pc'[Main] # "idle" => mode' = "boot"
          /\ pc'[Signal] # "idle" => mode' = "stopping"
      BY <1>m, <1>p, <2>2, <2>3 DEF LockInv
    <2> QED
      BY <1>m, <1>p, <2>3, <2>4, <2>5 DEF LockInv
  <1>2. WorkInv'
    BY <1>p, <1>e DEF WorkInv
  <1>3. OwnInv'
    BY <1>p DEF OwnInv
  <1>4. TargetInv'
    BY <1>m, <1>p, ManagerAssumption DEF TargetInv, Callers
  <1>5. ContentInv'
    BY <1>m, <1>p, <1>b, <1>e DEF ContentInv, Running, SourceOf
  <1>6. RunningIsApplied'
    <2>1. \A k \in Running : /\ SourceOf(k).key = k
                             /\ SourceOf(k).definition \in Startable
                             /\ SourceOf(k) \in Target(rc)
                             /\ reader[running[k]].keywords = rc.keywords
      BY <1>m, <1>p, <1>b, <1>e DEF ContentInv
    <2>2. ASSUME NEW s \in Target(rc), s.definition \in Startable
          PROVE  \E k \in Running : SourceOf(k) = s
      <3>1. s.key \in Keys
        BY <1>b, TargetType DEF Source
      <3>2. s.key \in Running
        BY <1>p, <1>b, <2>2, <3>1 DEF ContentInv, Running
      <3>3. SourceOf(s.key) = s
        BY <1>b, <2>1, <3>2 DEF WorkInv
      <3> QED
        BY <3>2, <3>3
    <2>3. Reflects(rc)
      BY <2>1, <2>2 DEF Reflects
    <2>4. Reflects(rc)'
      BY <1>p, <2>3 DEF Reflects, Running, SourceOf, Target
    <2> QED
      BY <1>p, <2>3, <2>4 DEF RunningIsApplied, Reflects, Running, SourceOf, Target
  <1>7. SyncInv'
    BY <1>c, <1>m, <1>p, <1>t, <1>b DEF SyncInv, LockInv, Callers
  <1> QED
    BY <1>1, <1>2, <1>3, <1>4, <1>5, <1>6, <1>7

\* The signal's goroutine takes the mutex.
LEMMA StopStep ==
  ASSUME TypeOK, Inv, Stop
  PROVE  Inv'
  <1> USE DEF Inv
  <1>m. /\ Main \in Threads /\ Signal \in Threads /\ Handlers \subseteq Threads
        /\ Signal \notin Callers /\ Nobody \notin Threads
    BY HotReloadAssumption, ThreadsAssumption, ManagerAssumption DEF Callers
  <1>p. /\ pc[Signal] = "call" /\ pc' = [pc EXCEPT ![Signal] = "inside"]
        /\ mu = Nobody /\ mu' = Signal /\ step' = "stop"
        /\ target' = {} /\ list' = keywords /\ toStop' = Running
        /\ UNCHANGED <<awaited, toStart, running, keywords, watch, reader>>
        /\ UNCHANGED <<row, mode, snapshot, applied, raced>>
    BY DEF Stop, BeginStop, storeVars
  <1>t. pc \in [Threads -> {"idle", "call", "inside"}]
    BY DEF TypeOK
  <1>1. LockInv'
    BY <1>m, <1>p, <1>t DEF LockInv, Callers
  <1>2. WorkInv'
    BY <1>p DEF WorkInv, LockInv, Running
  <1>3. OwnInv'
    BY <1>p DEF OwnInv
  <1>4. TargetInv'
    BY <1>m, <1>p DEF TargetInv
  <1>5. ContentInv'
    BY <1>m, <1>p DEF ContentInv, Running, SourceOf
  <1>6. RunningIsApplied'
    BY <1>m, <1>p DEF RunningIsApplied
  <1>7. SyncInv'
    BY <1>m, <1>p DEF SyncInv, LockInv
  <1> QED
    BY <1>1, <1>2, <1>3, <1>4, <1>5, <1>6, <1>7

\* Stop returns: nothing runs.
LEMMA StoppedStep ==
  ASSUME TypeOK, Inv, Stopped
  PROVE  Inv'
  <1> USE DEF Inv
  <1>m. /\ Main \in Threads /\ Signal \in Threads /\ Handlers \subseteq Threads
        /\ Signal \notin Callers /\ Nobody \notin Threads /\ NoRuntime \notin Runtime
    BY HotReloadAssumption, ThreadsAssumption, ManagerAssumption DEF Callers
  <1>p. /\ mu = Signal /\ mu' = Nobody /\ step = "start" /\ toStart = {} /\ step' = "idle"
        /\ target' = {}
        /\ pc' = [pc EXCEPT ![Signal] = "idle"]
        /\ mode' = "closing"
        /\ applied' = NoRuntime
        /\ UNCHANGED <<toStop, awaited, toStart, running, reader, keywords, watch>>
        /\ UNCHANGED <<row, raced, snapshot>>
    BY DEF Stopped, EndStop, Unlock, Done, storeVars
  <1>t. pc \in [Threads -> {"idle", "call", "inside"}]
    BY DEF TypeOK
  <1>b. pc[Signal] = "inside" /\ mode = "stopping"
    BY <1>m, <1>p DEF LockInv
  <1>e. toStop = {} /\ awaited = {} /\ target = {}
    BY <1>p DEF WorkInv, TargetInv
  <1>n. Running = {}
    BY <1>m, <1>p, <1>e DEF ContentInv
  <1>1. LockInv'
    <2>1. \A u \in Threads : pc'[u] # "inside" /\ (pc'[u] # "idle" => pc[u] # "idle" /\ u # Signal)
      BY <1>m, <1>p, <1>t DEF LockInv
    <2>2. \A u \in Callers : pc'[u] # "idle" => snapshot'[u] \in Runtime
      BY <1>m, <1>p, <2>1 DEF LockInv, Callers
    <2>3. pc'[Main] = "idle" /\ pc'[Signal] = "idle"
      BY <1>m, <1>p, <1>b, <2>1 DEF LockInv
    <2> QED
      BY <1>m, <1>p, <2>1, <2>2, <2>3 DEF LockInv
  <1>2. WorkInv'
    BY <1>p, <1>e DEF WorkInv
  <1>3. OwnInv'
    BY <1>p DEF OwnInv
  <1>4. TargetInv'
    BY <1>m, <1>p DEF TargetInv, Callers
  <1>5. ContentInv'
    BY <1>p, <1>n DEF ContentInv, Running
  <1>6. RunningIsApplied'
    BY <1>p DEF RunningIsApplied
  <1>7. SyncInv'
    BY <1>p, <1>b DEF SyncInv
  <1> QED
    BY <1>1, <1>2, <1>3, <1>4, <1>5, <1>6, <1>7

\* The parts that a step inside the manager cannot touch.
LEMMA InsideFrame ==
  ASSUME TypeOK, Inv, mu # Nobody, mu' = mu, step' # "idle",
         target' = target, list' = list, keywords' = keywords,
         UNCHANGED <<storeVars, mode, pc, snapshot, countVars, applied, raced>>
  PROVE  LockInv' /\ TargetInv' /\ RunningIsApplied' /\ SyncInv'
  <1> USE DEF Inv, storeVars
  <1>1. LockInv'
    BY DEF LockInv
  <1>2. TargetInv'
    BY DEF TargetInv, Target
  <1>3. RunningIsApplied'
    BY DEF RunningIsApplied
  <1>4. SyncInv'
    BY DEF SyncInv
  <1> QED
    BY <1>1, <1>2, <1>3, <1>4

\* A reader that is stopped keeps its place until it has returned.
LEMMA CancelStep ==
  ASSUME TypeOK, Inv, Proceed, CancelOne
  PROVE  Inv'
  <1> USE DEF Inv
  <1>1. PICK k \in toStop :
           /\ toStop' = toStop \ {k}
           /\ awaited' = {k}
           /\ reader' = [reader EXCEPT ![running[k]].phase =
                            IF @ = "reading" THEN "cancelled" ELSE @]
    BY DEF CancelOne
  <1>p. /\ step = "stop" /\ step' = "wait"
        /\ UNCHANGED <<mu, target, list, toStart, running, keywords>>
    BY DEF CancelOne
  <1>2. /\ k \in Running /\ running[k] \in Slots /\ running \in [Keys -> Slots \cup {NoSlot}]
        /\ reader \in [Slots -> Reader]
    BY <1>1 DEF WorkInv, Running, TypeOK, ManagerTypeOK, ReadersTypeOK
  <1>3. \A i \in Slots : /\ reader'[i].source = reader[i].source
                         /\ reader'[i].keywords = reader[i].keywords
                         /\ reader[i].phase = "returned" => reader'[i].phase = "returned"
    <2>1. ASSUME NEW i \in Slots, i # running[k]
          PROVE  reader'[i] = reader[i]
      BY <1>1, <1>2, <2>1
    <2>2. reader[running[k]].phase \in {"reading", "cancelled", "returned"}
      BY <1>2 DEF Reader
    <2>3. PICK p \in {"reading", "cancelled", "returned"} :
             /\ reader'[running[k]] = [reader[running[k]] EXCEPT !.phase = p]
             /\ reader[running[k]].phase = "returned" => p = "returned"
      BY <1>1, <1>2, <2>2
    <2>4. /\ reader'[running[k]].source = reader[running[k]].source
          /\ reader'[running[k]].keywords = reader[running[k]].keywords
          /\ reader'[running[k]].phase = p
      BY <1>2, <2>3, PhaseType
    <2>5. reader[running[k]].phase = "returned" => reader'[running[k]].phase = "returned"
      BY <2>3, <2>4
    <2>6. ASSUME NEW i \in Slots
          PROVE  /\ reader'[i].source = reader[i].source
                 /\ reader'[i].keywords = reader[i].keywords
                 /\ reader[i].phase = "returned" => reader'[i].phase = "returned"
      BY <2>1, <2>4, <2>5
    <2> QED
      BY <2>6
  <1>n. \A i \in Slots : reader'[i].phase # "returned" => reader[i].phase # "returned"
    BY <1>3
  <1>4. WorkInv'
    BY <1>1, <1>2, <1>p DEF WorkInv, Running
  <1>5. OwnInv'
    BY <1>3, <1>n, <1>p DEF OwnInv
  <1>6. Running' = Running /\ \A j \in Running : running[j] \in Slots
    BY <1>2, <1>p DEF Running
  <1>7. ContentInv'
    BY <1>1, <1>3, <1>6, <1>p DEF ContentInv, SourceOf, LockInv, WorkInv
  <1>8. mu # Nobody
    BY <1>p DEF LockInv
  <1> QED
    BY <1>4, <1>5, <1>7, <1>8, <1>p, InsideFrame DEF Proceed

\* A reader that has returned is forgotten.
LEMMA ForgetStep ==
  ASSUME TypeOK, Inv, Proceed, Forget
  PROVE  Inv'
  <1> USE DEF Inv
  <1>p. /\ step = "wait" /\ step' = "stop" /\ awaited' = {}
        /\ \A k \in awaited : reader[running[k]].phase = "returned"
        /\ running' = [k \in Keys |-> IF k \in awaited THEN NoSlot ELSE running[k]]
        /\ reader' = [s \in Slots |->
                        IF \E k \in awaited : running[k] = s THEN Unused ELSE reader[s]]
        /\ UNCHANGED <<mu, target, list, toStop, toStart, keywords>>
    BY DEF Forget
  <1>1. /\ running \in [Keys -> Slots \cup {NoSlot}] /\ NoSlot \notin Slots
        /\ reader \in [Slots -> Reader]
        /\ target \subseteq Source
    BY ManagerAssumption DEF TypeOK, ManagerTypeOK, ReadersTypeOK, HolderTypeOK
  <1>2. \A k \in Keys : k \in Running' <=> k \in Running /\ k \notin awaited
    BY <1>p, <1>1 DEF Running
  <1>3. \A k \in Running' : running'[k] = running[k] /\ reader'[running'[k]] = reader[running[k]]
    <2>1. ASSUME NEW k \in Running', NEW j \in awaited, running[j] = running[k]
          PROVE  FALSE
      BY <1>1, <1>2, <2>1 DEF ContentInv, WorkInv, Running, SourceOf
    <2> QED
      BY <1>p, <1>1, <1>2, <2>1 DEF Running
  <1>4. WorkInv'
    <2>1. \A s \in toStart : running'[s.key] = NoSlot
      BY <1>p DEF WorkInv
    <2>2. (toStop \cup awaited)' \subseteq Running'
      BY <1>p, <1>2 DEF WorkInv, Running
    <2> QED
      BY <1>p, <2>1, <2>2 DEF WorkInv
  <1>5. OwnInv'
    <2>1. ASSUME NEW i \in Slots, reader'[i].phase # "returned"
          PROVE  running'[reader'[i].source.key] = i
      <3>1. reader'[i] = reader[i] /\ ~ \E k \in awaited : running[k] = i
        BY <1>p, <2>1, UnusedType
      <3>2. running[reader[i].source.key] = i /\ reader[i].source.key \in Keys
        BY <1>1, <2>1, <3>1 DEF OwnInv, Reader, Source
      <3> QED
        BY <1>p, <3>1, <3>2
    <2> QED
      BY <2>1 DEF OwnInv
  <1>6. ContentInv'
    BY <1>p, <1>2, <1>3 DEF ContentInv, SourceOf, Running, LockInv
  <1>7. mu # Nobody
    BY <1>p DEF LockInv
  <1> QED
    BY <1>4, <1>5, <1>6, <1>7, <1>p, InsideFrame DEF Proceed

\* From stopping to starting.
LEMMA TurnStep ==
  ASSUME TypeOK, Inv, Proceed, TurnToStart
  PROVE  Inv'
  <1> USE DEF Inv
  <1>p. /\ step = "stop" /\ step' = "start" /\ toStop = {}
        /\ toStart' = {s \in target : running[s.key] = NoSlot}
        /\ UNCHANGED <<mu, target, list, toStop, awaited, running, reader, keywords>>
    BY DEF TurnToStart
  <1>1. WorkInv'
    BY <1>p DEF WorkInv, Running
  <1>2. OwnInv'
    BY <1>p DEF OwnInv
  <1>3. ContentInv'
    BY <1>p DEF ContentInv, SourceOf, Running
  <1>4. mu # Nobody
    BY <1>p DEF LockInv
  <1> QED
    BY <1>1, <1>2, <1>3, <1>4, <1>p, InsideFrame DEF Proceed

\* A new reader takes a free slot under a key that has none.
LEMMA StartStep ==
  ASSUME TypeOK, Inv, Proceed, StartOne
  PROVE  Inv'
  <1> USE DEF Inv
  <1>1. PICK s \in toStart, i \in Slots :
           /\ s.definition \in Startable
           /\ toStart' = toStart \ {s}
           /\ FreeSlot(i)
           /\ running' = [running EXCEPT ![s.key] = i]
           /\ reader' = [reader EXCEPT ![i] =
                           [source |-> s, keywords |-> list, phase |-> "reading"]]
    BY DEF StartOne
  <1>p. /\ step = "start" /\ step' = "start"
        /\ UNCHANGED <<mu, target, list, toStop, awaited, keywords>>
    BY DEF StartOne
  <1>2. /\ running \in [Keys -> Slots \cup {NoSlot}] /\ NoSlot \notin Slots
        /\ reader \in [Slots -> Reader]
        /\ target \subseteq Source
    BY ManagerAssumption DEF TypeOK, ManagerTypeOK, ReadersTypeOK, HolderTypeOK
  <1>3. /\ s \in target /\ s.key \in Keys /\ running[s.key] = NoSlot
        /\ toStop = {} /\ awaited = {} /\ mu # Nobody
    BY <1>2, <1>p DEF WorkInv, LockInv, Source
  <1>4. \A k \in Keys : k # s.key => running'[k] = running[k] /\ running[k] # i
    BY <1>1, <1>2 DEF FreeSlot
  <1>5. running'[s.key] = i /\ reader'[i] = [source |-> s, keywords |-> list, phase |-> "reading"]
    BY <1>1, <1>2, <1>3
  <1>6. \A j \in Slots : j # i => reader'[j] = reader[j]
    BY <1>1, <1>2
  <1>7. \A k \in Keys : k \in Running' <=> k \in Running \/ k = s.key
    BY <1>2, <1>4, <1>5 DEF Running
  <1>8. WorkInv'
    <2>1. \A r \in toStart' : running'[r.key] = NoSlot /\ r \in target
      <3>1. ASSUME NEW r \in toStart'
            PROVE  running'[r.key] = NoSlot /\ r \in target
        <4>1. r \in toStart /\ r # s /\ r \in target
          BY <1>1, <3>1 DEF WorkInv
        <4>2. r.key # s.key /\ r.key \in Keys
          BY <1>2, <1>3, <4>1 DEF WorkInv, Source
        <4> QED
          BY <1>4, <4>1, <4>2 DEF WorkInv
      <3> QED
        BY <3>1
    <2> QED
      BY <1>3, <1>p, <2>1 DEF WorkInv
  <1>9. OwnInv'
    <2>1. ASSUME NEW j \in Slots, reader'[j].phase # "returned"
          PROVE  running'[reader'[j].source.key] = j
      <3>1. CASE j = i
        BY <1>5, <3>1
      <3>2. CASE j # i
        <4>1. running[reader[j].source.key] = j /\ reader'[j] = reader[j]
          BY <1>6, <2>1, <3>2 DEF OwnInv
        <4>2. reader[j].source.key \in Keys /\ reader[j].source.key # s.key
          BY <1>2, <1>3, <4>1 DEF Reader, Source
        <4> QED
          BY <1>4, <4>1, <4>2
      <3> QED
        BY <3>1, <3>2
    <2> QED
      BY <2>1 DEF OwnInv
  <1>10. ContentInv'
    <2>1. ASSUME NEW k \in Running'
          PROVE  /\ SourceOf(k)'.key = k /\ SourceOf(k)'.definition \in Startable
                 /\ SourceOf(k)' \in target /\ reader'[running'[k]].keywords = list
      <3>1. CASE k = s.key
        BY <1>1, <1>3, <1>5, <3>1 DEF SourceOf
      <3>2. CASE k # s.key
        <4>1. k \in Running /\ k \in Keys
          BY <1>7, <3>2 DEF Running
        <4>2. running'[k] = running[k] /\ reader'[running'[k]] = reader[running[k]]
          BY <1>2, <1>4, <1>6, <3>2, <4>1 DEF Running
        <4> QED
          BY <1>3, <4>1, <4>2 DEF ContentInv, SourceOf
      <3> QED
        BY <3>1, <3>2
    <2>2. ASSUME NEW r \in target
          PROVE  \/ r.definition \notin Startable
                 \/ r \in toStart'
                 \/ running'[r.key] # NoSlot
      <3>1. r.key \in Keys
        BY <1>2 DEF Source
      <3> QED
        BY <1>1, <1>2, <1>4, <1>5, <1>p, <3>1 DEF ContentInv
    <2> QED
      BY <1>3, <1>p, <2>1, <2>2 DEF ContentInv
  <1> QED
    BY <1>3, <1>8, <1>9, <1>10, <1>p, InsideFrame DEF Proceed

\* A source without a parser is passed over.
LEMMA FailStep ==
  ASSUME TypeOK, Inv, Proceed, StartFails
  PROVE  Inv'
  <1> USE DEF Inv
  <1>p. /\ step = "start" /\ step' = "start"
        /\ \E s \in toStart : s.definition \notin Startable /\ toStart' = toStart \ {s}
        /\ UNCHANGED <<mu, target, list, toStop, awaited, running, reader, keywords>>
    BY DEF StartFails
  <1>1. WorkInv'
    BY <1>p DEF WorkInv, Running
  <1>2. OwnInv'
    BY <1>p DEF OwnInv
  <1>3. ContentInv'
    BY <1>p DEF ContentInv, SourceOf, Running
  <1>4. mu # Nobody
    BY <1>p DEF LockInv
  <1> QED
    BY <1>1, <1>2, <1>3, <1>4, <1>p, InsideFrame DEF Proceed

\* A goroutine that returns leaves everything else as it is.
LEMMA ReturnStep ==
  ASSUME TypeOK, Inv, NEW s \in Slots, Return(s),
         UNCHANGED <<storeVars, mode, pc, snapshot, countVars, applied, raced>>
  PROVE  Inv'
  <1> USE DEF Inv
  <1>1. reader \in [Slots -> Reader] /\ running \in [Keys -> Slots \cup {NoSlot}]
    BY DEF TypeOK, ManagerTypeOK, ReadersTypeOK
  <1>p. /\ reader' = [reader EXCEPT ![s].phase = "returned"]
        /\ UNCHANGED <<mu, step, target, list, toStop, awaited, toStart, running, keywords>>
        /\ UNCHANGED <<row, mode, pc, snapshot, applied, raced>>
    BY DEF Return, holderVars, storeVars
  <1>2. ASSUME NEW i \in Slots
        PROVE  /\ reader'[i].source = reader[i].source
               /\ reader'[i].keywords = reader[i].keywords
               /\ reader'[i].phase # "returned" => reader[i].phase # "returned"
    BY <1>1, <1>p, PhaseType
  <1>3. /\ Running' = Running /\ \A k \in Running : running[k] \in Slots
        /\ \A k \in Running : SourceOf(k)' = SourceOf(k)
    BY <1>1, <1>2, <1>p DEF Running, SourceOf
  <1>4. LockInv' /\ WorkInv' /\ TargetInv' /\ SyncInv'
    BY <1>p DEF LockInv, WorkInv, TargetInv, SyncInv, Running, Target
  <1>5. OwnInv'
    BY <1>2, <1>p DEF OwnInv
  <1>6. ContentInv'
    BY <1>2, <1>3, <1>p DEF ContentInv
  <1>7. RunningIsApplied'
    <2>1. ASSUME mu' = Nobody, applied' # NoRuntime
          PROVE  Reflects(applied)'
      <3>1. Reflects(applied)
        BY <1>p, <2>1 DEF RunningIsApplied
      <3>2. Target(applied)' = Target(applied)
        BY <1>p DEF Target
      <3>3. \A k \in Running' : /\ SourceOf(k)'.key = k
                                /\ reader'[running'[k]].keywords = applied'.keywords
        BY <1>2, <1>3, <1>p, <3>1 DEF Reflects
      <3>4. {SourceOf(k) : k \in Running}' = {SourceOf(k) : k \in Running}
        BY <1>3
      <3> QED
        BY <3>1, <3>2, <3>3, <3>4 DEF Reflects
    <2> QED
      BY <2>1 DEF RunningIsApplied
  <1> QED
    BY <1>4, <1>5, <1>6, <1>7

-----------------------------------------------------------------------------
(* The theorems.                                                           *)

\* Every step keeps the invariant.
LEMMA InvStep ==
  ASSUME TypeOK, Inv, [Next]_vars
  PROVE  Inv'
  <1>1. CASE Boot
    BY <1>1, BootStep
  <1>2. CASE Gone
    BY <1>2, GoneStep
  <1>3. CASE Terminate
    BY <1>3, TerminateStep
  <1>4. ASSUME NEW t \in Handlers, Save(t)
        PROVE  Inv'
    BY <1>4, SaveStep
  <1>5. ASSUME NEW t \in Callers, Apply(t)
        PROVE  Inv'
    BY <1>5, ApplyStep
  <1>6. ASSUME NEW t \in Callers, Applied(t)
        PROVE  Inv'
    BY <1>6, AppliedStep
  <1>7. CASE Stop
    BY <1>7, StopStep
  <1>8. CASE Stopped
    BY <1>8, StoppedStep
  <1>9. CASE Proceed
    BY <1>9, CancelStep, ForgetStep, TurnStep, StartStep, FailStep DEF Proceed, HolderStep
  <1>10. ASSUME NEW s \in Slots, ReaderStep(s)
         PROVE  Inv'
    BY <1>10, ReturnStep DEF ReaderStep, ReaderStops
  <1>11. CASE ReaderError
    BY <1>11, ReturnStep DEF ReaderError, ReaderDies
  <1>12. CASE UNCHANGED vars
    <2> USE DEF Inv
    <2>1. UNCHANGED <<holderVars, running, keywords, watch, reader>> /\ UNCHANGED applied
      BY <1>12 DEF vars, managerVars
    <2>2. LockInv' /\ TargetInv' /\ SyncInv'
      BY <1>12 DEF vars, managerVars, holderVars, storeVars, LockInv, TargetInv, SyncInv, Target
    <2> QED
      BY <2>1, <2>2, ManagerFrame, AppliedFrame
  <1> QED
    BY <1>1, <1>2, <1>3, <1>4, <1>5, <1>6, <1>7, <1>8, <1>9, <1>10, <1>11, <1>12
    DEF Next, Crash, Exit, Callers

\* The types and the invariant hold in every reachable state.
THEOREM Invariance == Spec => [](TypeOK /\ Inv)
  <1>1. Init => TypeOK /\ Inv
    BY TypeInit, InvInit
  <1>2. TypeOK /\ Inv /\ [Next]_vars => (TypeOK /\ Inv)'
    BY TypeStep, InvStep DEF Inv
  <1> QED
    BY <1>1, <1>2, PTL DEF Spec

\* The process, the store and the manager stay in their types.
THEOREM TypeCorrect == Spec => []TypeOK
  BY Invariance, PTL

\* Two readers of one key never overlap: stopLocked's wait for done, under the
\* mutex, is enough, whatever saves, signals and returns interleave.
THEOREM OneReader == Spec => []OneReaderPerKey
  <1>1. TypeOK /\ Inv => OneReaderPerKey
    BY DEF Inv, OwnInv, OneReaderPerKey
  <1> QED
    BY <1>1, Invariance, PTL

\* The diff of Apply is right: whenever the mutex is free the readers are those
\* of the configuration applied last, with its definitions and keywords.
THEOREM DiffCorrect == Spec => []RunningIsApplied
  <1>1. TypeOK /\ Inv => RunningIsApplied
    BY DEF Inv
  <1> QED
    BY <1>1, Invariance, PTL

\* The persisted configuration is the one that runs once things settle, across
\* crashes and restarts, unless two saves overlapped.
THEOREM InSync == Spec => []InSyncUnlessRaced
  <1>1. TypeOK /\ Inv => InSyncUnlessRaced
    <2> SUFFICES ASSUME TypeOK, Inv, Settled, ~raced
                 PROVE  Reflects(row)
      BY DEF InSyncUnlessRaced
    <2>1. mu = Nobody
      BY DEF Inv, LockInv, Settled, TypeOK, ManagerTypeOK, HolderTypeOK
    <2>2. applied = row /\ row \in Runtime
      BY HotReloadAssumption DEF Inv, SyncInv, Settled
    <2> QED
      BY <2>1, <2>2, HotReloadAssumption DEF Inv, RunningIsApplied
  <1> QED
    BY <1>1, Invariance, PTL

-----------------------------------------------------------------------------
(* Induction over the naturals, from the library's principle of a minimal  *)
(* element: its own rule takes the predicate as an operator.               *)

\* A nonempty set of naturals has a least element.
LEMMA LeastNatural ==
  ASSUME NEW T, T \subseteq Nat, T # {}
  PROVE  \E x \in T : \A y \in T : x <= y
  <1>1. IsWellFoundedOn(OpToRel(<, Nat), Nat)
    BY NatLessThanWellFounded
  <1>2. PICK x \in T : \A y \in T : ~ (<<y, x>> \in OpToRel(<, Nat))
    BY <1>1, WFMin
  <1>3. \A y \in T : ~ (y < x)
    BY <1>2 DEF OpToRel
  <1> QED
    BY <1>3

\* What holds of 0 and passes from n to n + 1 holds of every natural.
LEMMA Naturals ==
  ASSUME NEW S, 0 \in S, \A n \in Nat : n \in S => n + 1 \in S
  PROVE  Nat \subseteq S
  <1> DEFINE T == Nat \ S
  <1> SUFFICES ASSUME T # {} PROVE FALSE
    OBVIOUS
  <1>1. PICK x \in T : \A y \in T : x <= y
    <2>1. T \subseteq Nat
      OBVIOUS
    <2> HIDE DEF T
    <2> QED
      BY <2>1, LeastNatural
  <1>2. x - 1 \in Nat /\ (x - 1) + 1 = x
    OBVIOUS
  <1>3. x - 1 \in S
    BY <1>1, <1>2
  <1> QED
    BY <1>2, <1>3

\* A nonempty set of numbers up to n has a greatest element, and Max is it.
LEMMA GreatestIsMax ==
  ASSUME NEW n \in Nat, NEW s \in SUBSET (1..n), s # {}
  PROVE  Max(s) \in s /\ \A y \in s : Max(s) >= y
  <1> DEFINE T == {n - x : x \in s}
  <1>0. \A x \in s : x \in Nat /\ x <= n
    OBVIOUS
  <1>1. T \subseteq Nat /\ T # {}
    <2>1. \A x \in s : n - x \in Nat /\ n - x \in T
      BY <1>0
    <2> QED
      BY <2>1
  <1>2. PICK m \in T : \A y \in T : m <= y
    <2> HIDE DEF T
    <2> QED
      BY <1>1, LeastNatural
  <1>3. PICK x \in s : m = n - x
    OBVIOUS
  <1>4. ASSUME NEW y \in s PROVE x >= y
    <2>1. n - y \in T
      OBVIOUS
    <2>2. m <= n - y
      BY <1>2, <2>1
    <2> QED
      BY <1>0, <1>3, <2>2
  <1> QED
    BY <1>4 DEF Max

\* That of an interval is its end.
LEMMA MaxOfInterval ==
  ASSUME NEW n \in Nat \ {0}
  PROVE  Max(1..n) = n
  <1>1. n \in 1..n /\ (1..n) \in SUBSET (1..n)
    OBVIOUS
  <1>2. Max(1..n) \in 1..n /\ \A y \in 1..n : Max(1..n) >= y
    BY <1>1, GreatestIsMax
  <1> QED
    BY <1>1, <1>2

-----------------------------------------------------------------------------
(* filepath.Clean as a fold.                                               *)

\* The step of Clean.
Step(rooted, done, e) ==
    CASE e = "." -> done
      [] e = ".." /\ done # <<>> /\ Last(done) # ".." -> Front(done)
      [] e = ".." /\ done = <<>> /\ rooted -> done
      [] OTHER -> Append(done, e)

\* The table that FoldLeft chooses, from d on over the elements xs.
IsTable(g, rooted, d, xs) ==
    g = [s \in SUBSET DOMAIN xs |->
            IF s = {} THEN d ELSE Step(rooted, g[s \ {Max(s)}], xs[Max(s)])]

Fold(rooted, d, xs) == (CHOOSE g : IsTable(g, rooted, d, xs))[DOMAIN xs]

\* f[i] is what comes of d after i elements.
Trace(rooted, d, xs, f) ==
    f[0] = d /\ \A i \in 1..Len(xs) : f[i] = Step(rooted, f[i - 1], xs[i])

\* Clean folds the elements of a path.
LEMMA CleanFolds ==
  ASSUME NEW p \in [rooted : BOOLEAN, elements : Seq(STRING)]
  PROVE  Clean(p) \in [rooted : {p.rooted}, elements : {Fold(p.rooted, <<>>, p.elements)}]
  <1>1. \A q : /\ [p EXCEPT !.elements = q].rooted = p.rooted
               /\ [p EXCEPT !.elements = q].elements = q
               /\ [p EXCEPT !.elements = q] \in [rooted : BOOLEAN, elements : {q}]
    OBVIOUS
  <1>2. Clean(p).elements = Fold(p.rooted, <<>>, p.elements)
    BY <1>1 DEF Clean, FoldLeft, MapThenFoldSet, Step, IsTable, Fold
  <1>3. PICK q : Clean(p) = [p EXCEPT !.elements = q]
    BY DEF Clean
  <1> QED
    BY <1>1, <1>2, <1>3

\* There is such a table.
LEMMA TableExists ==
  ASSUME NEW E, NEW rooted, NEW d, NEW xs \in Seq(E)
  PROVE  \E g : IsTable(g, rooted, d, xs)
  <1> DEFINE D == 1..Len(xs)
             Body(g, s) == IF s = {} THEN d ELSE Step(rooted, g[s \ {Max(s)}], xs[Max(s)])
             UpTo(g, n) == \A s \in SUBSET D : Cardinality(s) <= n => g[s] = Body(g, s)
  <1>1. Len(xs) \in Nat /\ DOMAIN xs = D /\ IsFiniteSet(D) /\ Cardinality(D) \in Nat
    BY FS_Interval, FS_CardinalityType
  <1>2. \A s \in SUBSET D : IsFiniteSet(s) /\ Cardinality(s) \in Nat /\ Cardinality(s) <= Cardinality(D)
    <2> HIDE DEF D
    <2> QED
      BY <1>1, FS_Subset, FS_CardinalityType
  <1>3. ASSUME NEW s \in SUBSET D, s # {}
        PROVE  s \ {Max(s)} \in SUBSET D /\ Cardinality(s \ {Max(s)}) = Cardinality(s) - 1
    <2>1. Max(s) \in s
      BY <1>1, <1>3, GreatestIsMax
    <2> HIDE DEF D
    <2> QED
      BY <1>2, <2>1, FS_RemoveElement
  <1>4. \A n \in Nat : \E g : UpTo(g, n)
    <2> DEFINE S == {n \in Nat : \E g : UpTo(g, n)}
    <2>1. 0 \in S
      <3> DEFINE g == [s \in SUBSET D |-> d]
      <3>1. \A s \in SUBSET D : Cardinality(s) <= 0 => s = {}
        BY <1>2, FS_EmptySet
      <3>2. UpTo(g, 0)
        BY <3>1
      <3> QED
        BY <3>2
    <2>2. ASSUME NEW n \in Nat, n \in S PROVE n + 1 \in S
      <3>1. PICK g : UpTo(g, n)
        BY <2>2
      <3> DEFINE h == [s \in SUBSET D |-> IF Cardinality(s) <= n THEN g[s] ELSE Body(g, s)]
      <3>2. ASSUME NEW s \in SUBSET D, Cardinality(s) <= n + 1
            PROVE  h[s] = Body(h, s)
        <4>1. h[s] = Body(g, s)
          BY <3>1
        <4>2. CASE s = {}
          BY <4>1, <4>2
        <4>3. CASE s # {}
          <5>1. /\ s \ {Max(s)} \in SUBSET D
                /\ Cardinality(s \ {Max(s)}) = Cardinality(s) - 1
            BY <1>3, <4>3
          <5>2. Cardinality(s \ {Max(s)}) <= n
            BY <1>2, <2>2, <3>2, <5>1
          <5>3. h[s \ {Max(s)}] = g[s \ {Max(s)}]
            BY <5>1, <5>2
          <5> HIDE DEF h
          <5> QED
            BY <4>1, <4>3, <5>3
        <4> QED
          BY <4>2, <4>3
      <3>3. UpTo(h, n + 1)
        <4> HIDE DEF h, Body
        <4> QED
          BY <3>2
      <3> HIDE DEF UpTo, h
      <3> QED
        BY <2>2, <3>3
    <2>3. Nat \subseteq S
      <3> HIDE DEF S
      <3> QED
        BY <2>1, <2>2, Naturals
    <2> HIDE DEF UpTo
    <2> QED
      BY <2>3
  <1>5. PICK g : UpTo(g, Cardinality(D))
    <2> HIDE DEF UpTo, D
    <2> QED
      BY <1>1, <1>4
  <1> DEFINE h == [s \in SUBSET D |-> g[s]]
  <1>6. \A s \in SUBSET D : h[s] = Body(g, s)
    BY <1>2, <1>5
  <1>7. ASSUME NEW s \in SUBSET D
        PROVE  h[s] = Body(h, s)
    <2>1. CASE s = {}
      BY <1>6, <2>1
    <2>2. CASE s # {}
      <3>1. s \ {Max(s)} \in SUBSET D
        OBVIOUS
      <3>2. h[s \ {Max(s)}] = g[s \ {Max(s)}]
        BY <3>1
      <3> HIDE DEF h
      <3> QED
        BY <1>6, <2>2, <3>2
    <2> QED
      BY <2>1, <2>2
  <1>8. h = [s \in SUBSET D |-> h[s]]
    OBVIOUS
  <1>9. IsTable(h, rooted, d, xs)
    <2> HIDE DEF h, D
    <2> QED
      BY <1>1, <1>7, <1>8 DEF IsTable
  <1> QED
    <2> HIDE DEF h
    <2> QED
      BY <1>9

\* What Fold returns is the end of a trace.
LEMMA FoldHasTrace ==
  ASSUME NEW E, NEW rooted, NEW d, NEW xs \in Seq(E)
  PROVE  \E f : Trace(rooted, d, xs, f) /\ f[Len(xs)] = Fold(rooted, d, xs)
  <1> DEFINE it == CHOOSE g : IsTable(g, rooted, d, xs)
             f == [i \in 0..Len(xs) |-> it[1..i]]
  <1>1. IsTable(it, rooted, d, xs)
    BY TableExists
  <1>2. Fold(rooted, d, xs) = it[DOMAIN xs]
    BY DEF Fold
  <1> HIDE DEF it
  <1>3. Len(xs) \in Nat /\ DOMAIN xs = 1..Len(xs)
    OBVIOUS
  <1>4. f[Len(xs)] = Fold(rooted, d, xs)
    BY <1>2, <1>3
  <1>5. f[0] = d
    <2>1. 1..0 = {} /\ {} \in SUBSET DOMAIN xs
      OBVIOUS
    <2>2. it[{}] = d
      BY <1>1, <2>1 DEF IsTable
    <2> QED
      BY <1>3, <2>1, <2>2
  <1>6. ASSUME NEW i \in 1..Len(xs)
        PROVE  f[i] = Step(rooted, f[i - 1], xs[i])
    <2>1. i \in Nat \ {0} /\ Max(1..i) = i
      BY <1>3, MaxOfInterval
    <2>2. 1..i \in SUBSET DOMAIN xs /\ 1..i # {} /\ (1..i) \ {i} = 1..(i - 1)
      <3>1. i \in 1..i /\ \A j \in 1..i : j \in 1..Len(xs)
        BY <1>3
      <3>2. \A j : j \in (1..i) \ {i} <=> j \in 1..(i - 1)
        BY <2>1
      <3> QED
        BY <1>3, <3>1, <3>2
    <2>3. it[1..i] = Step(rooted, it[(1..i) \ {Max(1..i)}], xs[Max(1..i)])
      BY <1>1, <2>2 DEF IsTable
    <2>4. f[i] = it[1..i] /\ f[i - 1] = it[1..(i - 1)]
      BY <1>3
    <2> QED
      BY <2>1, <2>2, <2>3, <2>4
  <1> QED
    <2> HIDE DEF f
    <2> QED
      BY <1>4, <1>5, <1>6 DEF Trace

\* The traces of a fold agree.
LEMMA TracesAgree ==
  ASSUME NEW E, NEW rooted, NEW d, NEW xs \in Seq(E), NEW f, NEW g,
         Trace(rooted, d, xs, f), Trace(rooted, d, xs, g)
  PROVE  \A i \in 0..Len(xs) : f[i] = g[i]
  <1> DEFINE S == {i \in Nat : i <= Len(xs) => f[i] = g[i]}
  <1>1. 0 \in S
    BY DEF Trace
  <1>2. ASSUME NEW i \in Nat, i \in S PROVE i + 1 \in S
    <2> SUFFICES ASSUME i + 1 <= Len(xs) PROVE f[i + 1] = g[i + 1]
      OBVIOUS
    <2>1. i + 1 \in 1..Len(xs) /\ (i + 1) - 1 = i /\ i <= Len(xs)
      OBVIOUS
    <2>2. f[i] = g[i]
      BY <1>2, <2>1
    <2>3. /\ f[i + 1] = Step(rooted, f[(i + 1) - 1], xs[i + 1])
          /\ g[i + 1] = Step(rooted, g[(i + 1) - 1], xs[i + 1])
      BY <2>1 DEF Trace
    <2> QED
      BY <2>1, <2>2, <2>3
  <1>3. Nat \subseteq S
    <2> HIDE DEF S
    <2> QED
      BY <1>1, <1>2, Naturals
  <1> QED
    BY <1>3

LEMMA FoldOfTrace ==
  ASSUME NEW E, NEW rooted, NEW d, NEW xs \in Seq(E), NEW f, Trace(rooted, d, xs, f)
  PROVE  Fold(rooted, d, xs) = f[Len(xs)]
  <1>1. PICK g : Trace(rooted, d, xs, g) /\ g[Len(xs)] = Fold(rooted, d, xs)
    BY FoldHasTrace
  <1>2. Len(xs) \in 0..Len(xs)
    OBVIOUS
  <1> QED
    BY <1>1, <1>2, TracesAgree

\* Element by element.
LEMMA FoldEmpty ==
  ASSUME NEW rooted, NEW d
  PROVE  Fold(rooted, d, <<>>) = d
  <1>1. <<>> \in Seq({}) /\ Len(<<>>) = 0
    OBVIOUS
  <1>2. PICK f : Trace(rooted, d, <<>>, f) /\ f[Len(<<>>)] = Fold(rooted, d, <<>>)
    BY <1>1, FoldHasTrace
  <1> QED
    BY <1>1, <1>2 DEF Trace

LEMMA FoldAppend ==
  ASSUME NEW E, NEW rooted, NEW d, NEW xs \in Seq(E), NEW e \in E
  PROVE  Fold(rooted, d, Append(xs, e)) = Step(rooted, Fold(rooted, d, xs), e)
  <1> DEFINE n == Len(xs)
  <1>1. /\ n \in Nat /\ Append(xs, e) \in Seq(E) /\ Len(Append(xs, e)) = n + 1
        /\ Append(xs, e)[n + 1] = e
        /\ \A i \in 1..n : Append(xs, e)[i] = xs[i]
    OBVIOUS
  <1>2. PICK f : /\ Trace(rooted, d, Append(xs, e), f)
                 /\ f[n + 1] = Fold(rooted, d, Append(xs, e))
    BY <1>1, FoldHasTrace
  <1>3. Trace(rooted, d, xs, f)
    BY <1>1, <1>2 DEF Trace
  <1>4. Fold(rooted, d, xs) = f[n]
    BY <1>3, FoldOfTrace
  <1>5. n + 1 \in 1..n + 1 /\ (n + 1) - 1 = n
    BY <1>1
  <1> HIDE DEF n
  <1>6. f[n + 1] = Step(rooted, f[(n + 1) - 1], Append(xs, e)[n + 1])
    BY <1>1, <1>2, <1>5 DEF Trace
  <1> QED
    BY <1>1, <1>2, <1>4, <1>5, <1>6

\* Part by part.
LEMMA FoldConcat ==
  ASSUME NEW E, NEW rooted, NEW d, NEW xs \in Seq(E), NEW ys \in Seq(E)
  PROVE  Fold(rooted, d, xs \o ys) = Fold(rooted, Fold(rooted, d, xs), ys)
  <1> DEFINE n == Len(xs)
             m == Len(ys)
             zs == xs \o ys
  <1>1. /\ n \in Nat /\ m \in Nat /\ zs \in Seq(E) /\ Len(zs) = n + m
        /\ \A i \in 1..n : zs[i] = xs[i]
        /\ \A i \in 1..m : zs[n + i] = ys[i]
    BY ConcatProperties
  <1> HIDE DEF zs
  <1>2. PICK f : Trace(rooted, d, zs, f) /\ f[Len(zs)] = Fold(rooted, d, zs)
    <2>1. zs \in Seq(E)
      BY <1>1
    <2> QED
      BY <2>1, FoldHasTrace
  <1>3. Trace(rooted, d, xs, f)
    BY <1>1, <1>2 DEF Trace
  <1>4. Fold(rooted, d, xs) = f[n]
    BY <1>3, FoldOfTrace
  <1> DEFINE g == [i \in 0..m |-> f[n + i]]
  <1>5. Trace(rooted, f[n], ys, g)
    <2>1. g[0] = f[n]
      BY <1>1
    <2>2. ASSUME NEW i \in 1..m
          PROVE  g[i] = Step(rooted, g[i - 1], ys[i])
      <3>1. n + i \in 1..n + m /\ (n + i) - 1 = n + (i - 1) /\ i \in 0..m /\ i - 1 \in 0..m
        BY <1>1
      <3>2. f[n + i] = Step(rooted, f[(n + i) - 1], zs[n + i])
        BY <1>1, <1>2, <3>1 DEF Trace
      <3> QED
        BY <1>1, <3>1, <3>2
    <2> HIDE DEF g
    <2> QED
      BY <2>1, <2>2 DEF Trace
  <1>6. Fold(rooted, f[n], ys) = g[m]
    <2> HIDE DEF g
    <2> QED
      BY <1>5, FoldOfTrace
  <1> QED
    BY <1>1, <1>2, <1>4, <1>6 DEF zs

-----------------------------------------------------------------------------
(* What Clean and Resolve return.                                          *)

\* The step of Clean on a sequence that ends with a name.
LEMMA StepBack ==
  ASSUME NEW E, NEW d \in Seq(E), NEW e \in E, e # ".."
  PROVE  Step(TRUE, Append(d, e), "..") = d
  <1>1. /\ Append(d, e) \in Seq(E) /\ Len(Append(d, e)) = Len(d) + 1 /\ Len(d) \in Nat
        /\ Append(d, e) # <<>> /\ Append(d, e)[Len(d) + 1] = e
        /\ \A i \in 1..Len(d) : Append(d, e)[i] = d[i]
    OBVIOUS
  <1>2. SubSeq(Append(d, e), 1, Len(d)) = d
    BY <1>1, SubSeqProperties, SeqEqual
  <1>3. Last(Append(d, e)) = e /\ Front(Append(d, e)) = d
    BY <1>1, <1>2 DEF Last, Front
  <1> QED
    BY <1>1, <1>3 DEF Step

\* A nonempty sequence is its front and its last element.
LEMMA FrontAndLast ==
  ASSUME NEW E, NEW d \in Seq(E), d # <<>>
  PROVE  /\ Front(d) \in Seq(E) /\ Last(d) \in E /\ d = Append(Front(d), Last(d))
         /\ Len(Front(d)) = Len(d) - 1 /\ Len(d) \in Nat \ {0}
         /\ \A i \in 1..Len(d) - 1 : Front(d)[i] = d[i]
  <1>1. Len(d) \in Nat \ {0}
    BY EmptySeq
  <1>2. Last(d) \in E
    BY <1>1 DEF Last
  <1>3. /\ Front(d) \in Seq(E) /\ Len(Front(d)) = Len(d) - 1
        /\ \A i \in 1..Len(d) - 1 : Front(d)[i] = d[i]
    <2>1. PICK k \in Nat : k = Len(d) - 1
      BY <1>1
    <2>2. \A i \in 1..k : d[i] \in E
      BY <2>1
    <2>3. /\ SubSeq(d, 1, k) \in Seq(E) /\ Len(SubSeq(d, 1, k)) = k
          /\ \A i \in 1..k : SubSeq(d, 1, k)[i] = d[i]
      <3>1. 1 \in Int /\ k \in Int /\ k - 1 + 1 = k /\ (1 <= k \/ k = 0)
        BY <2>1
      <3> QED
        BY <2>2, <3>1, SubSeqProperties
    <2> QED
      BY <2>1, <2>3 DEF Front
  <1>4. /\ Append(Front(d), Last(d)) \in Seq(E)
        /\ Len(Append(Front(d), Last(d))) = Len(d)
        /\ \A i \in 1..Len(d) : Append(Front(d), Last(d))[i] = d[i]
    BY <1>1, <1>2, <1>3, AppendProperties DEF Last
  <1>5. Append(Front(d), Last(d)) = d
    BY <1>4, SeqEqual
  <1> QED
    BY <1>1, <1>2, <1>3, <1>5

LEMMA StepType ==
  ASSUME NEW E, NEW rooted, NEW d \in Seq(E), NEW e \in E
  PROVE  Step(rooted, d, e) \in Seq(E)
  BY FrontAndLast DEF Step

\* No element stays ".", and ".." only in front of everything else.
Normal(d) == \A i \in 1..Len(d) : d[i] # "." /\ (d[i] = ".." => \A j \in 1..i : d[j] = "..")

LEMMA StepNormal ==
  ASSUME NEW E, NEW d \in Seq(E), NEW e \in E, Normal(d)
  PROVE  Normal(Step(FALSE, d, e))
  <1> DEFINE q == Append(d, e)
  <1>1. /\ q \in Seq(E) /\ Len(q) = Len(d) + 1 /\ q[Len(d) + 1] = e /\ Len(d) \in Nat
        /\ \A i \in 1..Len(d) : q[i] = d[i]
    OBVIOUS
  <1>2. CASE Step(FALSE, d, e) = d
    BY <1>2
  <1>3. CASE d # <<>> /\ Step(FALSE, d, e) = Front(d)
    <2>1. /\ Len(Front(d)) = Len(d) - 1 /\ Len(d) \in Nat \ {0}
          /\ \A i \in 1..Len(d) - 1 : Front(d)[i] = d[i]
      BY <1>3, FrontAndLast
    <2>2. ASSUME NEW i \in 1..Len(Front(d))
          PROVE  /\ Front(d)[i] # "."
                 /\ Front(d)[i] = ".." => \A j \in 1..i : Front(d)[j] = ".."
      <3>1. i \in 1..Len(d) /\ \A j \in 1..i : j \in 1..Len(d) - 1
        BY <2>1
      <3>2. d[i] # "." /\ (d[i] = ".." => \A j \in 1..i : d[j] = "..")
        BY <3>1 DEF Normal
      <3> QED
        BY <2>1, <3>1, <3>2
    <2>3. Normal(Front(d))
      BY <2>2 DEF Normal
    <2> QED
      BY <1>3, <2>3
  <1>4. CASE e \notin {".", ".."} /\ Step(FALSE, d, e) = q
    <2> HIDE DEF q
    <2>1. ASSUME NEW i \in 1..Len(q)
          PROVE  q[i] # "." /\ (q[i] = ".." => \A j \in 1..i : q[j] = "..")
      <3>1. CASE i = Len(d) + 1
        BY <1>1, <1>4, <3>1
      <3>2. CASE i # Len(d) + 1
        <4>1. i \in 1..Len(d) /\ \A j \in 1..i : j \in 1..Len(d)
          BY <1>1, <3>2
        <4>2. d[i] # "." /\ (d[i] = ".." => \A j \in 1..i : d[j] = "..")
          BY <4>1 DEF Normal
        <4> QED
          BY <1>1, <4>1, <4>2
      <3> QED
        BY <3>1, <3>2
    <2>2. Normal(q)
      BY <2>1 DEF Normal
    <2> QED
      BY <1>4, <2>2
  <1>5. CASE e = ".." /\ (d = <<>> \/ Last(d) = "..") /\ Step(FALSE, d, e) = q
    <2>1. \A i \in 1..Len(d) : d[i] = ".."
      <3>1. CASE d = <<>>
        BY <3>1
      <3>2. CASE d # <<>>
        BY <1>1, <1>5, <3>2, FrontAndLast DEF Normal, Last
      <3> QED
        BY <3>1, <3>2
    <2> HIDE DEF q
    <2>2. \A i \in 1..Len(q) : q[i] = ".."
      BY <1>1, <1>5, <2>1
    <2>3. ASSUME NEW i \in 1..Len(q)
          PROVE  q[i] # "." /\ \A j \in 1..i : q[j] = ".."
      <3>1. \A j \in 1..i : j \in 1..Len(q)
        BY <1>1
      <3> QED
        BY <2>2, <3>1
    <2>4. Normal(q)
      BY <2>3 DEF Normal
    <2> QED
      BY <1>5, <2>4
  <1> QED
    BY <1>2, <1>3, <1>4, <1>5 DEF Step

\* What holds of d and is kept by the step holds of a fold.
LEMMA FoldType ==
  ASSUME NEW E, NEW rooted, NEW d \in Seq(E), NEW xs \in Seq(E)
  PROVE  Fold(rooted, d, xs) \in Seq(E)
  <1>1. PICK f : Trace(rooted, d, xs, f) /\ f[Len(xs)] = Fold(rooted, d, xs)
    BY FoldHasTrace
  <1> DEFINE S == {i \in Nat : i <= Len(xs) => f[i] \in Seq(E)}
  <1>2. 0 \in S
    BY <1>1 DEF Trace
  <1>3. ASSUME NEW i \in Nat, i \in S PROVE i + 1 \in S
    <2> SUFFICES ASSUME i + 1 <= Len(xs) PROVE f[i + 1] \in Seq(E)
      OBVIOUS
    <2>1. i + 1 \in 1..Len(xs) /\ (i + 1) - 1 = i /\ i <= Len(xs) /\ xs[i + 1] \in E
      OBVIOUS
    <2>2. f[i + 1] = Step(rooted, f[(i + 1) - 1], xs[i + 1])
      BY <1>1, <2>1 DEF Trace
    <2> QED
      BY <1>3, <2>1, <2>2, StepType
  <1>4. Nat \subseteq S
    <2> HIDE DEF S
    <2> QED
      BY <1>2, <1>3, Naturals
  <1> QED
    BY <1>1, <1>4

\* Resolving a path from a directory is resolving its cleaned form: what Clean
\* takes away has no effect, and a ".." that it keeps is applied later.
LEMMA CleanFirst ==
  ASSUME NEW E, NEW c \in Seq(E), NEW xs \in Seq(E)
  PROVE  /\ Fold(TRUE, c, xs) = Fold(TRUE, c, Fold(FALSE, <<>>, xs))
         /\ Normal(Fold(FALSE, <<>>, xs))
  <1>1. PICK f : Trace(TRUE, c, xs, f) /\ f[Len(xs)] = Fold(TRUE, c, xs)
    BY FoldHasTrace
  <1>2. PICK g : Trace(FALSE, <<>>, xs, g) /\ g[Len(xs)] = Fold(FALSE, <<>>, xs)
    BY FoldHasTrace
  <1> DEFINE Good(i) == g[i] \in Seq(E) /\ Normal(g[i]) /\ f[i] = Fold(TRUE, c, g[i])
             S == {i \in Nat : i <= Len(xs) => Good(i)}
  <1>3. 0 \in S
    <2>1. f[0] = c /\ g[0] = <<>>
      BY <1>1, <1>2 DEF Trace
    <2>2. <<>> \in Seq(E) /\ Normal(<<>>)
      BY DEF Normal
    <2> QED
      BY <2>1, <2>2, FoldEmpty
  <1>4. ASSUME NEW i \in Nat, i \in S PROVE i + 1 \in S
    <2> HIDE DEF Good
    <2> SUFFICES ASSUME i + 1 <= Len(xs) PROVE Good(i + 1)
      OBVIOUS
    <2> USE DEF Good
    <2>1. i + 1 \in 1..Len(xs) /\ (i + 1) - 1 = i /\ i <= Len(xs) /\ xs[i + 1] \in E
      OBVIOUS
    <2>2. Good(i)
      BY <1>4, <2>1
    <2>3. PICK d \in Seq(E), e \in E : d = g[i] /\ e = xs[i + 1]
      BY <2>1, <2>2
    <2>4. f[i + 1] = Step(TRUE, Fold(TRUE, c, d), e) /\ g[i + 1] = Step(FALSE, d, e)
      BY <1>1, <1>2, <2>1, <2>2, <2>3 DEF Trace
    <2>5. Normal(d) /\ Normal(g[i + 1]) /\ g[i + 1] \in Seq(E)
      BY <2>2, <2>3, <2>4, StepNormal, StepType
    <2>6. f[i + 1] = Fold(TRUE, c, Step(FALSE, d, e))
      <3> DEFINE X == Fold(TRUE, c, d)
      <3>1. CASE e = "."
        BY <2>4, <3>1 DEF Step
      <3>2. CASE e = ".." /\ d # <<>> /\ Last(d) # ".."
        <4>1. /\ Front(d) \in Seq(E) /\ Last(d) \in E /\ d = Append(Front(d), Last(d))
              /\ Len(d) \in Nat \ {0}
          BY <3>2, FrontAndLast
        <4>2. Last(d) \notin {".", ".."}
          BY <2>5, <3>2, <4>1 DEF Normal, Last
        <4> DEFINE Y == Fold(TRUE, c, Front(d))
        <4>3. Y \in Seq(E)
          BY <4>1, FoldType
        <4>4. X = Step(TRUE, Y, Last(d))
          <5>1. \A r : Fold(r, c, Append(Front(d), Last(d)))
                         = Step(r, Fold(r, c, Front(d)), Last(d))
            BY <4>1, FoldAppend
          <5> QED
            BY <4>1, <5>1
        <4> HIDE DEF X, Y
        <4>5. X = Append(Y, Last(d))
          BY <4>2, <4>4 DEF Step
        <4>6. Step(TRUE, X, e) = Y
          BY <3>2, <4>1, <4>2, <4>3, <4>5, StepBack
        <4>7. Step(FALSE, d, e) = Front(d)
          BY <3>2 DEF Step
        <4> QED
          BY <2>4, <4>6, <4>7 DEF X, Y
      <3>3. CASE e # "." /\ ~(e = ".." /\ d # <<>> /\ Last(d) # "..")
        <4>1. Step(FALSE, d, e) = Append(d, e)
          BY <3>3 DEF Step
        <4>2. \A r : Fold(r, c, Append(d, e)) = Step(r, Fold(r, c, d), e)
          BY FoldAppend
        <4> QED
          BY <2>4, <4>1, <4>2
      <3> QED
        BY <3>1, <3>2, <3>3
    <2> QED
      BY <2>4, <2>5, <2>6
  <1>5. Nat \subseteq S
    <2> HIDE DEF S
    <2> QED
      BY <1>3, <1>4, Naturals
  <1>6. Good(Len(xs))
    <2> HIDE DEF Good
    <2>1. Len(xs) \in Nat /\ Len(xs) <= Len(xs)
      OBVIOUS
    <2> QED
      BY <1>5, <2>1
  <1> QED
    BY <1>1, <1>2, <1>6

\* Names are only appended.
LEMMA NamesAppend ==
  ASSUME NEW E, NEW c \in Seq(E), NEW u \in Seq(E),
         \A i \in 1..Len(u) : u[i] \notin {".", ".."}
  PROVE  Fold(TRUE, c, u) = c \o u
  <1> DEFINE f == [i \in 0..Len(u) |-> c \o SubSeq(u, 1, i)]
  <1>1. f[0] = c
    BY SubSeqEmpty, ConcatEmptySeq
  <1>2. ASSUME NEW i \in 1..Len(u)
        PROVE  f[i] = Step(TRUE, f[i - 1], u[i])
    <2>1. i \in 0..Len(u) /\ i - 1 \in 0..Len(u) /\ u[i] \in E
      OBVIOUS
    <2>2. SubSeq(u, 1, i) = SubSeq(u, 1, i - 1) \o <<u[i]>>
      BY SubSeqRecursiveSecond
    <2>3. SubSeq(u, 1, i - 1) \in Seq(E)
      BY <2>1, SubSeqProperties
    <2>4. c \o (SubSeq(u, 1, i - 1) \o <<u[i]>>) = Append(c \o SubSeq(u, 1, i - 1), u[i])
      BY <2>1, <2>3, ConcatAssociative
    <2>5. Step(TRUE, f[i - 1], u[i]) = Append(f[i - 1], u[i])
      BY DEF Step
    <2> QED
      BY <2>1, <2>2, <2>4, <2>5
  <1>3. Trace(TRUE, c, u, f)
    <2> HIDE DEF f
    <2> QED
      BY <1>1, <1>2 DEF Trace
  <1>4. Fold(TRUE, c, u) = f[Len(u)]
    <2> HIDE DEF f
    <2>1. \A r : Trace(r, c, u, f) => Fold(r, c, u) = f[Len(u)]
      BY FoldOfTrace
    <2> QED
      BY <1>3, <2>1
  <1>5. Len(u) \in 0..Len(u) /\ SubSeq(u, 1, Len(u)) = u
    BY SubSeqFull
  <1> QED
    BY <1>4, <1>5

\* A sequence is a prefix of what is appended to it.
LEMMA ConcatPrefix ==
  ASSUME NEW E, NEW s \in Seq(E), NEW u \in Seq(E)
  PROVE  IsPrefix(s, s \o u)
  <1>1. /\ s \o u \in Seq(E) /\ Len(s \o u) = Len(s) + Len(u)
        /\ \A i \in 1..Len(s) : (s \o u)[i] = s[i]
        /\ Len(s) \in Nat /\ Len(u) \in Nat
    BY ConcatProperties
  <1>2. PICK t \in Seq(E) : t = s \o u
    BY <1>1
  <1>3. SubSeq(t, 1, Len(s)) = s
    <2>1. /\ SubSeq(t, 1, Len(s)) \in Seq(E) /\ Len(SubSeq(t, 1, Len(s))) = Len(s)
          /\ \A i \in 1..Len(s) : SubSeq(t, 1, Len(s))[i] = t[i]
      <3>1. PICK k \in Nat : k = Len(s)
        BY <1>1
      <3>2. \A i \in 1..k : t[i] \in E
        BY <1>1, <1>2, <3>1
      <3>3. 1 \in Int /\ k \in Int /\ k - 1 + 1 = k /\ (1 <= k \/ k = 0)
        OBVIOUS
      <3> QED
        BY <3>1, <3>2, <3>3, SubSeqProperties
    <2> QED
      BY <1>1, <1>2, <2>1, SeqEqual
  <1>4. SubSeq(s, 1, Len(s)) = s
    BY SubSeqFull
  <1> QED
    BY <1>1, <1>2, <1>3, <1>4 DEF IsPrefix

\* A path goes on from another, and not with "..".
Continues(b, t) ==
    \E u \in Seq(STRING) : t.elements = b.elements \o u /\ (u = <<>> \/ u[1] # "..")

\* If no ".." leads from one cleaned path to the other, the other continues it.
LEMMA RelContinues ==
  ASSUME NEW b \in [rooted : BOOLEAN, elements : Seq(STRING)],
         NEW t \in [rooted : BOOLEAN, elements : Seq(STRING)],
         ~NoRel(b, t), Rel(b, t) = <<>> \/ Head(Rel(b, t)) # ".."
  PROVE  b.rooted = t.rooted /\ Continues(b, t)
  <1> DEFINE B == b.elements
             T == t.elements
             common == {k \in 1..Len(B) : IsPrefix(SubSeq(B, 1, k), T)}
             n == Shared(b, t)
             up == [i \in 1..(Len(B) - n) |-> ".."]
             u == SubSeq(T, n + 1, Len(T))
  <1>1. /\ b.rooted = t.rooted
        /\ B \in Seq(STRING) /\ T \in Seq(STRING) /\ Len(B) \in Nat /\ Len(T) \in Nat
    BY DEF NoRel
  <1>2. n = Cardinality(common) /\ Rel(b, t) = up \o u
    BY DEF Shared, Rel
  <1>3. IsFiniteSet(1..Len(B)) /\ Cardinality(1..Len(B)) = Len(B)
    <2>1. PICK k \in Nat : k = Len(B)
      BY <1>1
    <2>2. IsFiniteSet(1..k) /\ Cardinality(1..k) = k
      BY FS_Interval
    <2> QED
      BY <2>1, <2>2
  <1>4. n \in Nat /\ n <= Len(B) /\ (n = Len(B) => common = 1..Len(B))
    <2>1. common \in SUBSET (1..Len(B))
      OBVIOUS
    <2> HIDE DEF common, B, n
    <2>2. PICK k \in Nat : k = Len(B)
      BY <1>1
    <2>3. /\ IsFiniteSet(common) /\ Cardinality(common) <= Cardinality(1..Len(B))
          /\ Cardinality(1..Len(B)) = Cardinality(common) => 1..Len(B) = common
      BY <1>3, <2>1, FS_Subset
    <2>4. Cardinality(common) \in Nat
      BY <2>3, FS_CardinalityType
    <2> QED
      BY <1>2, <1>3, <2>3, <2>4
  <1> HIDE DEF common, n, B, T
  <1>5. u \in Seq(STRING)
    <2>1. \A i \in n + 1..Len(T) : T[i] \in STRING
      BY <1>1, <1>4
    <2> QED
      BY <1>1, <1>4, <2>1, SubSeqProperties
  <1>6. n = Len(B)
    <2> SUFFICES ASSUME n < Len(B) PROVE FALSE
      BY <1>1, <1>4
    <2>1. PICK F : F = STRING \cup {".."}
      OBVIOUS
    <2>2. up \in Seq(F) /\ Len(up) = Len(B) - n /\ up[1] = ".." /\ Len(up) >= 1
      BY <1>1, <1>4, <2>1
    <2>3. u \in Seq(F)
      BY <1>5, <2>1, SeqMonotonic
    <2> HIDE DEF u, up
    <2>4. /\ up \o u \in Seq(F) /\ Len(up \o u) = Len(up) + Len(u) /\ (up \o u)[1] = ".."
      <3>1. Len(u) \in Nat /\ Len(up) \in Nat
        BY <2>2, <2>3
      <3> QED
        BY <2>2, <2>3, <3>1, ConcatProperties
    <2>5. up \o u # <<>> /\ Head(up \o u) = ".."
      BY <2>2, <2>3, <2>4
    <2> QED
      BY <1>2, <2>5
  <1>7. up = <<>> /\ Rel(b, t) = u
    <2>1. up = <<>>
      BY <1>1, <1>6
    <2> HIDE DEF up, u
    <2> QED
      BY <1>2, <1>5, <2>1, ConcatEmptySeq
  <1>8. IsPrefix(B, T)
    <2>1. CASE Len(B) = 0
      <3>1. B = <<>> /\ SubSeq(T, 1, 0) = <<>> /\ SubSeq(B, 1, 0) = <<>>
        BY <1>1, <2>1, EmptySeq, SubSeqEmpty
      <3> QED
        BY <1>1, <2>1, <3>1 DEF IsPrefix
    <2>2. CASE Len(B) # 0
      <3>1. Len(B) \in common
        BY <1>1, <1>4, <1>6, <2>2
      <3>2. IsPrefix(SubSeq(B, 1, Len(B)), T)
        BY <3>1 DEF common
      <3> QED
        BY <1>1, <3>2, SubSeqFull
    <2> QED
      BY <2>1, <2>2
  <1>9. T = B \o u
    <2>1. Len(B) <= Len(T) /\ SubSeq(T, 1, Len(B)) = B
      BY <1>1, <1>8, SubSeqFull DEF IsPrefix
    <2>2. SubSeq(T, 1, n) \o SubSeq(T, n + 1, Len(T)) = SubSeq(T, 1, Len(T))
      <3>1. /\ 1 \in 1..Len(T) + 1 /\ n \in 1 - 1..Len(T) /\ Len(T) \in n..Len(T)
        BY <1>1, <1>6, <2>1
      <3> QED
        BY <1>1, <3>1, ConcatAdjacentSubSeq
    <2> QED
      BY <1>1, <1>6, <2>1, <2>2, SubSeqFull
  <1>10. u = <<>> \/ u[1] # ".."
    <2> HIDE DEF u
    <2>1. u # <<>> => Head(u) = u[1]
      BY <1>5
    <2> QED
      BY <1>7, <2>1
  <1> QED
    <2> HIDE DEF u
    <2>1. T = B \o u /\ b.rooted = t.rooted /\ u \in Seq(STRING) /\ (u = <<>> \/ u[1] # "..")
      BY <1>1, <1>5, <1>9, <1>10
    <2> QED
      BY <2>1 DEF T, B, Continues

\* Where a path leads, as a fold.
LEMMA ResolveFolds ==
  ASSUME NEW p \in [rooted : BOOLEAN, elements : Seq(STRING)], NEW cwd \in Seq(STRING)
  PROVE  /\ p.rooted => Resolve(p, cwd) = Clean(p).elements
         /\ ~p.rooted => Resolve(p, cwd) = Fold(TRUE, Fold(TRUE, <<>>, cwd), p.elements)
  <1> DEFINE xs == IF p.rooted THEN p.elements ELSE cwd \o p.elements
             q == [rooted |-> TRUE, elements |-> xs]
  <1>1. p.elements \in Seq(STRING) /\ p.rooted \in BOOLEAN /\ xs \in Seq(STRING)
    BY ConcatProperties
  <1>2. Resolve(p, cwd) = Fold(TRUE, <<>>, xs)
    <2>1. q \in [rooted : BOOLEAN, elements : Seq(STRING)] /\ q.rooted = TRUE /\ q.elements = xs
      BY <1>1
    <2>2. Clean(q).elements = Fold(q.rooted, <<>>, q.elements)
      <3> HIDE DEF q
      <3> QED
        BY <2>1, CleanFolds
    <2>3. Resolve(p, cwd) = Clean(q).elements
      BY DEF Resolve
    <2> HIDE DEF xs, q
    <2> QED
      BY <2>1, <2>2, <2>3
  <1>3. Clean(p).elements = Fold(p.rooted, <<>>, p.elements)
    BY CleanFolds
  <1>4. CASE p.rooted
    <2>1. p.rooted = TRUE /\ xs = p.elements
      BY <1>1, <1>4
    <2> HIDE DEF xs
    <2> QED
      BY <1>2, <1>3, <1>4, <2>1
  <1>5. CASE ~p.rooted
    <2>1. \A r : Fold(r, <<>>, cwd \o p.elements) = Fold(r, Fold(r, <<>>, cwd), p.elements)
      BY <1>1, FoldConcat
    <2> QED
      BY <1>2, <1>5, <2>1
  <1> QED
    BY <1>4, <1>5

\* A path that pathAllowed lets through leads below a root, wherever the
\* process was started.
LEMMA AllowedIsBelow ==
  ASSUME NEW p \in [rooted : BOOLEAN, elements : Seq(STRING)], Roots # {}, PathAllowed(p)
  PROVE  \E root \in Roots : \A cwd \in WorkingDirs :
            IsPrefix(Resolve(root, cwd), Resolve(p, cwd))
  <1> DEFINE Path == [rooted : BOOLEAN, elements : Seq(STRING)]
  <1>1. PICK r \in Roots : /\ ~NoRel(Clean(r), Clean(p))
                           /\ \/ Rel(Clean(r), Clean(p)) = <<>>
                              \/ Head(Rel(Clean(r), Clean(p))) # ".."
    BY DEF PathAllowed
  <1>2. r \in Path
    BY DocumentsAssumption
  <1>3. \A q \in Path : /\ Clean(q) \in Path /\ Clean(q).rooted = q.rooted
                        /\ Clean(q).elements = Fold(q.rooted, <<>>, q.elements)
    <2> SUFFICES ASSUME NEW q \in Path
                 PROVE  /\ Clean(q) \in Path /\ Clean(q).rooted = q.rooted
                        /\ Clean(q).elements = Fold(q.rooted, <<>>, q.elements)
      OBVIOUS
    <2>1. <<>> \in Seq(STRING) /\ q.elements \in Seq(STRING) /\ q.rooted \in BOOLEAN
      OBVIOUS
    <2>2. Fold(q.rooted, <<>>, q.elements) \in Seq(STRING)
      BY <2>1, FoldType
    <2> QED
      BY <2>1, <2>2, CleanFolds
  <1>4. PICK u \in Seq(STRING) : /\ Clean(r).rooted = Clean(p).rooted
                                 /\ Clean(p).elements = Clean(r).elements \o u
                                 /\ u = <<>> \/ u[1] # ".."
    <2>1. PICK b \in Path, t \in Path : b = Clean(r) /\ t = Clean(p)
      BY <1>2, <1>3
    <2>a. ~NoRel(b, t) /\ (Rel(b, t) = <<>> \/ Head(Rel(b, t)) # "..")
      BY <1>1, <2>1
    <2>b. /\ b \in [rooted : BOOLEAN, elements : Seq(STRING)]
          /\ t \in [rooted : BOOLEAN, elements : Seq(STRING)]
      OBVIOUS
    <2> HIDE DEF Path
    <2>2. b.rooted = t.rooted /\ Continues(b, t)
      BY <2>a, <2>b, RelContinues
    <2> QED
      BY <2>1, <2>2 DEF Continues
  <1>5. Clean(r).elements \in Seq(STRING) /\ Clean(p).elements \in Seq(STRING)
    BY <1>2, <1>3
  <1>6. ASSUME NEW cwd \in WorkingDirs
        PROVE  IsPrefix(Resolve(r, cwd), Resolve(p, cwd))
    <2>1. cwd \in Seq(STRING)
      BY DocumentsAssumption
    <2>2. CASE p.rooted
      <3>1. /\ Resolve(r, cwd) = Clean(r).elements
            /\ Resolve(p, cwd) = Clean(p).elements
        BY <1>2, <1>3, <1>4, <2>1, <2>2, ResolveFolds
      <3> QED
        BY <1>4, <1>5, <3>1, ConcatPrefix
    <2>3. CASE ~p.rooted
      <3> DEFINE c == Fold(TRUE, <<>>, cwd)
                 b == Clean(r).elements
                 t == Clean(p).elements
                 R == Fold(TRUE, c, b)
      <3>1. c \in Seq(STRING)
        <4>1. <<>> \in Seq(STRING)
          OBVIOUS
        <4>2. \A x : Fold(x, <<>>, cwd) \in Seq(STRING)
          BY <2>1, <4>1, FoldType
        <4> QED
          BY <4>2
      <3>2. r.rooted = FALSE /\ p.rooted = FALSE
        BY <1>2, <1>3, <1>4, <2>3
      <3>3. /\ Resolve(r, cwd) = Fold(TRUE, c, r.elements)
            /\ Resolve(p, cwd) = Fold(TRUE, c, p.elements)
        BY <1>2, <2>1, <3>2, ResolveFolds
      <3>4. b = Fold(FALSE, <<>>, r.elements) /\ t = Fold(FALSE, <<>>, p.elements)
        BY <1>2, <1>3, <3>2
      <3>6. /\ Resolve(r, cwd) = Fold(TRUE, c, b) /\ Resolve(p, cwd) = Fold(TRUE, c, t)
            /\ Normal(t)
        <4> HIDE DEF c, b, t
        <4>1. r.elements \in Seq(STRING) /\ p.elements \in Seq(STRING)
          BY <1>2
        <4> QED
          BY <3>1, <3>3, <3>4, <4>1, CleanFirst
      <3> HIDE DEF c, b, t
      <3>7. b \in Seq(STRING) /\ t = b \o u
        BY <1>4, <1>5 DEF b, t
      <3>8. R \in Seq(STRING)
        <4>1. \A x : Fold(x, c, b) \in Seq(STRING)
          BY <3>1, <3>7, FoldType
        <4> QED
          BY <4>1
      <3>9. Fold(TRUE, c, t) = Fold(TRUE, R, u)
        <4>1. \A x : Fold(x, c, b \o u) = Fold(x, Fold(x, c, b), u)
          BY <3>7, FoldConcat
        <4> QED
          BY <3>7, <4>1
      <3>10. ASSUME NEW i \in 1..Len(u) PROVE u[i] \notin {".", ".."}
        <4>1. Len(b) \in Nat /\ Len(u) \in Nat /\ Len(t) = Len(b) + Len(u)
              /\ \A j \in 1..Len(u) : t[Len(b) + j] = u[j]
          BY <3>7, ConcatProperties
        <4>2. Len(b) + i \in 1..Len(t) /\ t[Len(b) + i] = u[i]
          BY <4>1
        <4>3. u[i] # "." /\ (u[i] = ".." => \A j \in 1..Len(b) + i : t[j] = "..")
          BY <3>6, <4>2 DEF Normal
        <4>4. Len(b) + 1 \in 1..Len(b) + i /\ t[Len(b) + 1] = u[1] /\ u # <<>>
          BY <4>1
        <4> QED
          BY <1>4, <4>3, <4>4
      <3>11. Fold(TRUE, R, u) = R \o u
        <4> HIDE DEF R
        <4> QED
          BY <3>8, <3>10, NamesAppend
      <3>12. IsPrefix(R, R \o u)
        <4> HIDE DEF R
        <4> QED
          BY <3>8, ConcatPrefix
      <3> QED
        BY <3>6, <3>9, <3>11, <3>12
    <2> QED
      BY <2>2, <2>3
  <1> QED
    BY <1>6

-----------------------------------------------------------------------------
(* Readers and roots.                                                      *)

\* Whatever Validate lets through stays below the roots.
LEMMA SubmittedInRoots ==
  ASSUME NEW rc \in Submitted, NEW i \in DOMAIN rc.sources
  PROVE  InRoots(rc.sources[i].definition)
  <1>1. PICK body \in Bodies : BodyAccepted(body) /\ rc = AsRuntime(body)
    BY DEF Submitted
  <1>2. DOMAIN body = {"watch", "keywords", "sources"}
    BY DocumentsAssumption
  <1>3. /\ i \in DOMAIN body.sources
        /\ rc.sources[i].definition = WithProto(body.sources[i])
    BY <1>1, <1>2 DEF AsRuntime
  <1>4. PICK s : s = body.sources[i]
    OBVIOUS
  <1>5. /\ SourceAccepted(s) /\ {"type", "proto"} \subseteq DOMAIN s
        /\ s.path \in [rooted : BOOLEAN, elements : Seq(STRING)]
    BY <1>1, <1>3, <1>4, DocumentsAssumption DEF BodyAccepted
  <1>6. WithProto(s).type = s.type /\ (s.type # "syslog" => WithProto(s) = s)
    BY <1>5 DEF WithProto
  <1>7. CASE s.type = "syslog"
    BY <1>3, <1>4, <1>6, <1>7 DEF InRoots
  <1>8. CASE s.type # "syslog" /\ Roots # {}
    <2>1. PathAllowed(s.path)
      BY <1>5, <1>8 DEF SourceAccepted
    <2>2. \E root \in Roots : \A cwd \in WorkingDirs :
             IsPrefix(Resolve(root, cwd), Resolve(s.path, cwd))
      BY <1>5, <1>8, <2>1, AllowedIsBelow
    <2> QED
      BY <1>3, <1>4, <1>6, <1>8, <2>2 DEF InRoots
  <1> QED
    BY <1>7, <1>8 DEF InRoots

\* What is persisted, on its way to the manager or applied was submitted or is
\* the seed.
AcceptedInv ==
    /\ row \in Submitted \cup RuntimeSeeds \cup {NoRuntime}
    /\ applied \in Submitted \cup RuntimeSeeds \cup {NoRuntime}
    /\ \A t \in Callers : pc[t] # "idle" => snapshot[t] \in Submitted \cup RuntimeSeeds

LEMMA AcceptedStep ==
  ASSUME TypeOK, Inv, AcceptedInv, [Next]_vars
  PROVE  AcceptedInv'
  <1> DEFINE Known == Submitted \cup RuntimeSeeds
  <1>m. /\ Callers \subseteq Threads /\ Signal \notin Callers /\ Signal \in Threads
        /\ Offered \subseteq Known /\ Seeds \subseteq Known /\ NoRuntime \notin Known
    BY HotReloadAssumption, ThreadsAssumption, SettingsAssumption DEF Callers
  <1>t. /\ pc \in [Threads -> {"idle", "call", "inside"}]
        /\ snapshot \in [Threads -> Runtime \cup {NoRuntime}]
    BY DEF TypeOK
  <1>k. /\ row \in Known \cup {NoRuntime} /\ applied \in Known \cup {NoRuntime}
        /\ \A t \in Callers : pc[t] # "idle" => snapshot[t] \in Known
    BY DEF AcceptedInv
  <1> HIDE DEF Known
  <1>g. ASSUME row' \in Known \cup {NoRuntime}, applied' \in Known \cup {NoRuntime},
               \A t \in Callers : pc'[t] # "idle" => snapshot'[t] \in Known
        PROVE  AcceptedInv'
    BY <1>g DEF AcceptedInv, Known, Submitted, RuntimeSeeds
  <1>1. CASE Boot
    <2>1. row' \in Known /\ applied' = applied
      BY <1>1, <1>k, <1>m DEF Boot
    <2>2. pc' = [pc EXCEPT ![Main] = "call"] /\ snapshot' = [snapshot EXCEPT ![Main] = row']
      BY <1>1 DEF Boot
    <2> QED
      BY <1>g, <1>k, <1>m, <1>t, <2>1, <2>2
  <1>2. CASE Gone
    <2>1. row' = row /\ applied' = NoRuntime /\ pc' = [t \in Threads |-> "idle"]
      BY <1>2 DEF Gone
    <2> QED
      BY <1>g, <1>k, <1>m, <2>1
  <1>3. CASE Terminate \/ Stop
    <2>1. /\ row' = row /\ applied' = applied /\ snapshot' = snapshot
          /\ \E x \in {"call", "inside"} : pc' = [pc EXCEPT ![Signal] = x]
      BY <1>3 DEF Terminate, Stop, storeVars
    <2> QED
      BY <1>g, <1>k, <1>m, <1>t, <2>1
  <1>4. ASSUME NEW t \in Handlers, Save(t)
        PROVE  AcceptedInv'
    <2>1. PICK rc \in Offered : row' = rc /\ snapshot' = [snapshot EXCEPT ![t] = rc]
      BY <1>4 DEF Save
    <2>2. pc' = [pc EXCEPT ![t] = "call"] /\ applied' = applied /\ t \in Callers
      BY <1>4 DEF Save, Callers
    <2> QED
      BY <1>g, <1>k, <1>m, <1>t, <2>1, <2>2
  <1>5. ASSUME NEW t \in Callers, Apply(t)
        PROVE  AcceptedInv'
    <2>1. /\ row' = row /\ applied' = applied /\ snapshot' = snapshot
          /\ pc[t] # "idle" /\ pc' = [pc EXCEPT ![t] = "inside"]
      BY <1>5 DEF Apply, storeVars
    <2> QED
      BY <1>g, <1>k, <1>m, <1>t, <2>1
  <1>6. ASSUME NEW t \in Callers, Applied(t)
        PROVE  AcceptedInv'
    <2>1. /\ row' = row /\ applied' = snapshot[t] /\ mu = t
          /\ snapshot' = [snapshot EXCEPT ![t] = NoRuntime]
          /\ pc' = [pc EXCEPT ![t] = "idle"]
      BY <1>6 DEF Applied, storeVars
    <2>2. pc[t] # "idle"
      BY <1>m, <2>1 DEF Inv, LockInv
    <2> QED
      BY <1>g, <1>k, <1>m, <1>t, <2>1, <2>2
  <1>7. CASE Stopped
    <2>1. /\ row' = row /\ applied' = NoRuntime /\ snapshot' = snapshot
          /\ pc' = [pc EXCEPT ![Signal] = "idle"]
      BY <1>7 DEF Stopped, storeVars
    <2> QED
      BY <1>g, <1>k, <1>m, <1>t, <2>1
  <1>8. CASE UNCHANGED <<row, applied, pc, snapshot>>
    BY <1>g, <1>k, <1>8
  <1> QED
    BY <1>1, <1>2, <1>3, <1>4, <1>5, <1>6, <1>7, <1>8
    DEF Next, Crash, Exit, Callers, Proceed, ReaderStep, ReaderError, storeVars, vars

\* docs/ROADMAP.md's promise about allowed_log_roots: once an edit has been
\* applied no reader is at work outside the roots, wherever the process was
\* started -- neither a reader of the edit, whose paths pathAllowed compares in
\* their cleaned form, nor one that config.json had put there.
THEOREM EditsStayInRoots == Spec => []EditsKeepReadersInRoots
  <1>1. Init => AcceptedInv
    BY HotReloadAssumption DEF Init, AcceptedInv, Callers
  <1>2. TypeOK /\ Inv /\ AcceptedInv /\ [Next]_vars => AcceptedInv'
    BY AcceptedStep
  <1>3. TypeOK /\ Inv /\ AcceptedInv => EditsKeepReadersInRoots
    <2> SUFFICES ASSUME TypeOK, Inv, AcceptedInv,
                        mu = Nobody, applied # NoRuntime, applied \notin Seeds,
                        NEW s \in Slots, reader[s].phase # "returned"
                 PROVE  InRoots(reader[s].source.definition)
      BY DEF EditsKeepReadersInRoots
    <2>1. applied \in Submitted
      BY SettingsAssumption DEF AcceptedInv
    <2> DEFINE k == reader[s].source.key
    <2>2. k \in Keys /\ running[k] = s /\ s # NoSlot
      BY ManagerAssumption
      DEF Inv, OwnInv, TypeOK, ManagerTypeOK, ReadersTypeOK, Reader, Source
    <2>3. k \in Running /\ SourceOf(k) = reader[s].source
      BY <2>2 DEF Running, SourceOf
    <2>4. reader[s].source \in Target(applied)
      BY <2>3 DEF Inv, RunningIsApplied, Reflects
    <2>5. PICK n \in DOMAIN applied.sources : reader[s].source = applied.sources[n]
      BY <2>4 DEF Target
    <2> QED
      BY <2>1, <2>5, SubmittedInRoots
  <1> QED
    BY <1>1, <1>2, <1>3, Invariance, PTL DEF Spec
=============================================================================
