----------------------- MODULE DaemonSupervisorProofs -----------------------
(***************************************************************************)
(* Proofs about DaemonSupervisor, for any number of processes, crash       *)
(* budget, bounds and faults.                                              *)
(*                                                                         *)
(* That a spawn never happens once the budget is spent needs more than the *)
(* circuit being consulted: a start already in flight must not be passed   *)
(* by the crash that opens it.  It cannot be, because while a start is in  *)
(* flight the instance, if there is one at all, is an heir an update put   *)
(* there, and nobody listens to the exit of an heir (Guarded).             *)
(*                                                                         *)
(* That there is one daemon is a matter of what each phase knows: which    *)
(* process, and no other, can still listen or unlink the path (One).       *)
(* That the shells outlive everything but a failure or a restart follows,  *)
(* once it is known that who is being terminated serves no more (Fated).   *)
(***************************************************************************)
EXTENDS DaemonSupervisor, TLAPS

Used(p) == procs[p].st # "unused"

\* Pids in the variables name processes that were spawned; an heir is not a
\* child of the host-service.
Known ==
  /\ \A p \in Pids : ~Used(p) => procs[p].pred = Nil
  /\ \A p \in Pids : procs[p].pred # Nil => procs[p].watch = "none"
  /\ sock # Nil => Used(sock)
  /\ inst # Nil => Used(inst)
  /\ start.pid # Nil => Used(start.pid)
  /\ upd.succ # Nil => procs[upd.succ].pred # Nil

Guarded ==
  /\ crashes > CrashBudget => circuit
  /\ start.pc # "idle" => ~circuit
  /\ start.pc # "idle" /\ inst # Nil => procs[inst].watch = "none"
  /\ host = "down" => ~circuit /\ inst = Nil

IInv == TypeOK /\ Known /\ Guarded

\* What every step leaves alone about the processes: who spawned them, who
\* listens to their exit, and that a used pid stays used.
Keeps(ps) ==
  /\ ps \in [Pids -> Proc]
  /\ \A q \in Pids : /\ ps[q].pred = procs[q].pred
                     /\ ps[q].watch = procs[q].watch
                     /\ ps[q].st = "unused" <=> ~Used(q)

LEMMA SignalledKeeps ==
  ASSUME NEW proc \in Proc, NEW signal
  PROVE  /\ Signalled(proc, signal) \in Proc
         /\ Signalled(proc, signal).pred = proc.pred
         /\ Signalled(proc, signal).watch = proc.watch
         /\ Signalled(proc, signal).st = "unused" <=> proc.st = "unused"
BY DEF Signalled, Proc

LEMMA SignalTreeKeeps ==
  ASSUME TypeOK, NEW p, NEW signal
  PROVE  Keeps(SignalTree(p, signal))
<1> DEFINE ps == SignalTree(p, signal)
<1>1. ASSUME NEW q \in Pids
      PROVE  /\ ps[q] \in Proc
             /\ ps[q].pred = procs[q].pred
             /\ ps[q].watch = procs[q].watch
             /\ ps[q].st = "unused" <=> ~Used(q)
  <2>1. procs[q] \in Proc
    BY DEF TypeOK
  <2>2. ps[q] = procs[q] \/ ps[q] = Signalled(procs[q], signal)
    BY DEF SignalTree
  <2> QED
    BY <2>1, <2>2, SignalledKeeps DEF Used
<1>2. ps \in [Pids -> Proc]
  BY <1>1 DEF SignalTree
<1> QED
  BY <1>1, <1>2 DEF Keeps

LEMMA SetStateKeeps ==
  ASSUME TypeOK, NEW p \in Pids, Used(p),
         NEW st \in {"serving", "wedged", "closing", "dead"}, SetState(p, st)
  PROVE  Keeps(procs')
BY DEF TypeOK, Keeps, Used, SetState, Proc

LEMMA SignalOneKeeps ==
  ASSUME TypeOK, NEW p \in Pids, NEW signal
  PROVE  Keeps([procs EXCEPT ![p] = Signalled(@, signal)])
<1>1. procs[p] \in Proc
  BY DEF TypeOK
<1> QED
  BY <1>1, SignalledKeeps DEF TypeOK, Keeps, Used

\* A pid handed out by a spawn was not in use.
LEMMA NewPidUnused ==
  ASSUME CanSpawn
  PROVE  NewPid \in Pids /\ ~Used(NewPid)
BY DEF CanSpawn, NewPid, Unused, Used

LEMMA SpawnType ==
  ASSUME TypeOK, CanSpawn
  PROVE  SpawnChild \in [Pids -> Proc]
BY NewPidUnused DEF TypeOK, SpawnChild, Proc, Maybe

\* Typing of the shared parts of the steps.
LEMMA BeginStartType ==
  ASSUME NEW man \in Maybe, BeginStart(man)
  PROVE  start' \in Starts /\ manifest' \in Maybe
BY DEF BeginStart, Starts, Maybe

LEMMA EnsureType ==
  ASSUME TypeOK, NEW open, NEW current, NEW man \in Maybe, Ensure(open, current, man)
  PROVE  start' \in Starts /\ manifest' \in Maybe
BY BeginStartType DEF Ensure, TypeOK

LEMMA BeginSpawnType ==
  ASSUME TypeOK, BeginSpawn
  PROVE  start' \in Starts /\ procs' \in [Pids -> Proc]
BY SpawnType, NewPidUnused DEF BeginSpawn, Starts

LEMMA HappensType ==
  ASSUME TypeOK, NEW e \in Events, Happens(e)
  PROVE  used' \in [Events -> Nat]
BY DEF TypeOK, Happens

LEMMA StartPid ==
  ASSUME TypeOK, start.pc \in {"connect", "probe", "reject", "term", "ready", "termChild"}
  PROVE  start.pid \in Pids
BY DEF TypeOK, Starts

LEMMA StartMoves ==
  ASSUME TypeOK, start.pc \in {"connect", "probe", "reject", "term", "ready", "termChild"},
         NEW pc \in {"connect", "probe", "reject", "term", "ready", "termChild"}
  PROVE  /\ [start EXCEPT !.pc = pc] \in Starts
         /\ [start EXCEPT !.pc = pc].pid = start.pid
<1>1. start \in [pc : {"connect", "probe", "reject", "term", "ready", "termChild"}, pid : Pids]
  BY DEF TypeOK, Starts
<1> QED
  BY <1>1 DEF Starts

LEMMA UpdateMoves ==
  ASSUME TypeOK, upd.pc \in {"ack", "waitExit"}, NEW pc \in {"waitExit", "probe"}
  PROVE  /\ [upd EXCEPT !.pc = pc] \in Updates
         /\ [upd EXCEPT !.pc = pc].succ = upd.succ
<1>1. upd \in [pc : {"ack", "waitExit", "probe"}, pid : Pids, succ : Pids, man : Maybe]
  BY DEF TypeOK, Updates, NoUpdate
<1> QED
  BY <1>1 DEF Updates

LEMMA StartStepType ==
  ASSUME TypeOK, StartStep
  PROVE  TypeOK'
<1> USE DEF memory, osVars, Running, Idle
<1>1. CASE ConnectManifest
  <2>1. start' \in Starts
    BY <1>1, StartMoves DEF ConnectManifest
  <2> QED
    BY <1>1, <2>1 DEF ConnectManifest, TypeOK
<1>2. CASE ProbeManifest
  <2>1. start.pid \in Pids
    BY <1>2, StartPid DEF ProbeManifest
  <2>2. start' \in Starts
    <3>1. Idle \in Starts
      BY DEF Starts
    <3> QED
      BY <1>2, <3>1, StartMoves DEF ProbeManifest, Adopted
  <2>4. Answering => procs[sock].old \in BOOLEAN
    BY DEF Answering, TypeOK, Maybe, Proc
  <2> QED
    BY <1>2, <2>1, <2>2, <2>4 DEF ProbeManifest, Adopted, TypeOK, Maybe
<1>3. CASE TermStaleDone
  BY <1>3, BeginSpawnType DEF TermStaleDone, TypeOK, Maybe
<1>4. CASE ConnectSocket
  <2>1. start' \in Starts
    BY <1>4, BeginSpawnType DEF ConnectSocket, Starts, TypeOK
  <2>2. procs' \in [Pids -> Proc]
    BY <1>4, BeginSpawnType DEF ConnectSocket, TypeOK
  <2> QED
    BY <1>4, <2>1, <2>2 DEF ConnectSocket, TypeOK
<1>5. CASE ProbeSocket
  <2>1. CASE Answering /\ manifest' = sock /\ Adopted(sock) /\ UNCHANGED procs
    <3>1. sock \in Pids /\ procs[sock].old \in BOOLEAN
      BY <2>1 DEF Answering, TypeOK, Maybe, Proc
    <3> QED
      BY <1>5, <2>1, <3>1 DEF ProbeSocket, Adopted, TypeOK, Maybe, Starts
  <2>2. CASE BeginSpawn /\ UNCHANGED <<manifest, inst, old, poll, auto, boot>>
    BY <1>5, <2>2, BeginSpawnType DEF ProbeSocket, TypeOK
  <2> QED
    BY <1>5, <2>1, <2>2 DEF ProbeSocket
<1>6. CASE SpawnReady
  <2>1. start.pid \in Pids
    BY <1>6, StartPid DEF SpawnReady
  <2>2. procs' \in [Pids -> Proc]
    BY <1>6, <2>1 DEF SpawnReady, TypeOK, Proc
  <2>3. start' \in Starts
    BY <1>6 DEF SpawnReady, Starts
  <2> QED
    BY <1>6, <2>1, <2>2, <2>3 DEF SpawnReady, TypeOK, Maybe
<1>7. CASE SpawnTimeout
  <2>1. start' \in Starts
    BY <1>7, StartMoves DEF SpawnTimeout
  <2>2. procs' \in [Pids -> Proc]
    BY <1>7, SignalTreeKeeps DEF SpawnTimeout, Keeps
  <2> QED
    BY <1>7, <2>1, <2>2 DEF SpawnTimeout, TypeOK
<1>8. CASE SpawnFailed
  <2>1. start' \in Starts
    BY <1>8 DEF SpawnFailed, Starts
  <2> QED
    BY <1>8, <2>1 DEF SpawnFailed, TypeOK
<1>9. CASE TerminateStale
  <2>1. start' \in Starts
    BY <1>9, StartMoves DEF TerminateStale
  <2>2. procs' \in [Pids -> Proc]
    BY <1>9, SignalTreeKeeps DEF TerminateStale, Keeps
  <2> QED
    BY <1>9, <2>1, <2>2 DEF TerminateStale, TypeOK
<1> QED
  BY <1>1, <1>2, <1>3, <1>4, <1>5, <1>6, <1>7, <1>8, <1>9 DEF StartStep

LEMMA UpdateStepType ==
  ASSUME TypeOK, UpdateStep
  PROVE  TypeOK'
<1> USE DEF memory, osVars
<1>1. CASE PrepareUpgrade
  <2>1. NewPid \in Pids /\ sock \in Pids
    BY <1>1, NewPidUnused DEF PrepareUpgrade, Answering, TypeOK, Maybe
  <2>2. procs' \in [Pids -> Proc]
    BY <1>1, <2>1 DEF PrepareUpgrade, TypeOK, Proc, Maybe
  <2>3. upd' \in Updates
    <3>1. upd \in [pc : {"prepare"}, pid : Pids, succ : {Nil}, man : Maybe]
      BY <1>1 DEF PrepareUpgrade, TypeOK, Updates, NoUpdate
    <3> QED
      BY <1>1, <2>1, <3>1 DEF PrepareUpgrade, Updates
  <2> QED
    BY <1>1, <2>2, <2>3 DEF PrepareUpgrade, TypeOK
<1>2. CASE PrepareFails
  <2>1. upd.pid \in Pids /\ upd.man \in Maybe
    BY <1>2 DEF PrepareFails, TypeOK, Updates, NoUpdate
  <2> QED
    BY <1>2, <2>1 DEF PrepareFails, RestoreOnFailure, TypeOK, Updates, Maybe
<1>3. CASE HandoffAcked
  <2>1. upd.succ \in Pids /\ upd' \in Updates
    BY <1>3 DEF HandoffAcked, TypeOK, Updates, NoUpdate
  <2>2. procs' \in [Pids -> Proc]
    <3>1. procs \in [Pids -> Proc]
      BY DEF TypeOK
    <3>2. procs' = [procs EXCEPT ![procs[upd.succ].pred].st = "closing"]
      BY <1>3 DEF HandoffAcked
    <3> QED
      BY <3>1, <3>2 DEF Proc
  <2> QED
    BY <1>3, <2>1, <2>2 DEF HandoffAcked, TypeOK
<1>4. CASE HandoffFails
  <2>1. upd.pid \in Pids /\ upd.succ \in Pids /\ upd.man \in Maybe
    BY <1>4 DEF HandoffFails, TypeOK, Updates, NoUpdate
  <2>2. procs' \in [Pids -> Proc]
    BY <1>4, <2>1, SignalOneKeeps DEF HandoffFails, Keeps, TypeOK
  <2> QED
    BY <1>4, <2>1, <2>2 DEF HandoffFails, RestoreOnFailure, TypeOK, Updates, Maybe
<1>5. CASE PredecessorGone
  <2>1. upd.pid \in Pids /\ upd' \in Updates
    BY <1>5 DEF PredecessorGone, TypeOK, Updates, NoUpdate
  <2>2. procs' \in [Pids -> Proc]
    BY <1>5, <2>1, SignalOneKeeps DEF PredecessorGone, KillPredecessor, Keeps
  <2> QED
    BY <1>5, <2>1, <2>2 DEF PredecessorGone, TypeOK
<1>6. CASE Updated
  <2>1. upd.succ \in Pids
    BY <1>6 DEF Updated, TypeOK, Updates, NoUpdate
  <2> QED
    BY <1>6, <2>1 DEF Updated, TypeOK, Updates, Maybe
<1> QED
  BY <1>1, <1>2, <1>3, <1>4, <1>5, <1>6 DEF UpdateStep

LEMMA StopType ==
  ASSUME TypeOK, NEW k, Stop(k)
  PROVE  /\ procs' \in [Pids -> Proc] /\ manifest' \in Maybe
         /\ inst' \in Maybe /\ poll' \in Maybe /\ stopping' \in BOOLEAN
         /\ start' \in Starts /\ restart' \in [Calls -> Restarts]
         /\ crashes' \in Nat /\ circuit' \in BOOLEAN
<1>1. CASE inst = Nil
  <2>1. restart' \in [Calls -> Restarts]
    BY <1>1 DEF Stop, Idle, Restarts, TypeOK
  <2>2. start' \in Starts /\ manifest' \in Maybe
    BY <1>1, EnsureType DEF Stop, TypeOK
  <2>3. procs' = procs /\ stopping' = stopping /\ crashes' = 0 /\ circuit' = FALSE
    BY <1>1 DEF Stop
  <2>4. inst' = Nil /\ poll' = Nil
    BY DEF Stop
  <2> QED
    BY <2>1, <2>2, <2>3, <2>4 DEF TypeOK, Maybe
<1>2. CASE inst # Nil
  <2>1. inst \in Pids
    BY <1>2 DEF TypeOK, Maybe
  <2>2. restart' \in [Calls -> Restarts]
    BY <1>2, <2>1 DEF Stop, Restarts, TypeOK
  <2>3. procs' \in [Pids -> Proc]
    BY <1>2, SignalTreeKeeps DEF Stop, Keeps
  <2> QED
    BY <1>2, <2>2, <2>3 DEF Stop, TypeOK, Maybe
<1> QED
  BY <1>1, <1>2

LEMMA CommandType ==
  ASSUME TypeOK, RestartStep \/ Restart \/ Update \/ AutoUpdate
  PROVE  TypeOK'
<1> USE DEF memory, osVars
<1>1. ASSUME NEW k \in Calls, RestartAwaited(k)
      PROVE  TypeOK'
  BY <1>1, StopType DEF RestartAwaited, TypeOK
<1>2. ASSUME NEW k \in Calls, Restarted(k)
      PROVE  TypeOK'
  <2>1. start' \in Starts /\ manifest' \in Maybe
    <3>1. Ensure(FALSE, inst, Nil) /\ Nil \in Maybe
      BY <1>2 DEF Restarted, Maybe
    <3> QED
      BY <3>1, EnsureType
  <2>2. restart' \in [Calls -> Restarts]
    BY <1>2 DEF Restarted, Idle, Restarts, TypeOK
  <2> QED
    BY <1>2, <2>1, <2>2 DEF Restarted, TypeOK
<1>3. CASE Restart
  <2>1. used' \in [Events -> Nat]
    BY <1>3, HappensType DEF Restart, Events
  <2>2. CASE start.pc # "idle"
    <3>1. restart' \in [Calls -> Restarts]
      BY <1>3, <2>2 DEF Restart, Restarts, TypeOK
    <3> QED
      BY <1>3, <2>1, <2>2, <3>1 DEF Restart, TypeOK
  <2>3. CASE start.pc = "idle"
    BY <1>3, <2>1, <2>3, StopType DEF Restart, TypeOK
  <2> QED
    BY <2>2, <2>3
<1>4. ASSUME BeginUpdate
      PROVE  stopping' \in BOOLEAN /\ poll' \in Maybe /\ upd' \in Updates
  BY <1>4 DEF BeginUpdate, TypeOK, Updates, Maybe
<1>5. CASE Update
  <2>1. used' \in [Events -> Nat]
    BY <1>5, HappensType DEF Update, Events
  <2> QED
    BY <1>4, <1>5, <2>1 DEF Update, TypeOK
<1>6. CASE AutoUpdate
  BY <1>4, <1>6 DEF AutoUpdate, TypeOK
<1> QED
  BY <1>1, <1>2, <1>3, <1>5, <1>6 DEF RestartStep

LEMMA HostType ==
  ASSUME TypeOK, LivenessPoll \/ Request \/ HostBoots \/ WindowPasses \/ HostCrash
  PROVE  TypeOK'
<1> USE DEF memory, osVars
<1>1. CASE LivenessPoll
  BY <1>1 DEF LivenessPoll, TypeOK, Maybe
<1>2. CASE Request
  <2>1. start' \in Starts /\ manifest' \in Maybe
    BY <1>2, EnsureType DEF Request, TypeOK
  <2> QED
    BY <1>2, <2>1 DEF Request, TypeOK
<1>3. CASE HostBoots
  BY <1>3, BeginStartType DEF HostBoots, TypeOK
<1>4. CASE WindowPasses
  BY <1>4 DEF WindowPasses, TypeOK
<1>5. CASE HostCrash
  <2>1. used' \in [Events -> Nat]
    BY <1>5, HappensType DEF HostCrash, Events
  <2>2. start' \in Starts /\ restart' \in [Calls -> Restarts] /\ upd' \in Updates
    BY <1>5 DEF HostCrash, Idle, Starts, Restarts, Updates
  <2>3. procs' \in [Pids -> Proc]
    BY <1>5 DEF HostCrash, TypeOK, Proc
  <2> QED
    BY <1>5, <2>1, <2>2, <2>3 DEF HostCrash, TypeOK, Maybe
<1> QED
  BY <1>1, <1>2, <1>3, <1>4, <1>5

LEMMA ProcessType ==
  ASSUME TypeOK, NEW p \in Pids,
         \/ ExitEvent(p) \/ Binds(p) \/ Closes(p) \/ Crash(p) \/ Wedge(p)
         \/ Recovers(p) \/ Escalate(p)
  PROVE  TypeOK'
<1> USE DEF memory, osVars
<1>1. CASE ExitEvent(p)
  <2>1. procs' \in [Pids -> Proc]
    BY <1>1 DEF ExitEvent, TypeOK, Proc
  <2>2. ASSUME AfterCrash(crashes + 1)
        PROVE  /\ crashes' \in Nat /\ circuit' \in BOOLEAN
               /\ start' \in Starts /\ manifest' \in Maybe
    BY <2>2, EnsureType DEF AfterCrash, OverBudget, TypeOK, Maybe
  <2> QED
    BY <1>1, <2>1, <2>2 DEF ExitEvent, TypeOK, Maybe
<1>2. CASE Binds(p)
  <2>1. procs' \in [Pids -> Proc]
    BY <1>2 DEF Binds, SetState, TypeOK, Proc
  <2> QED
    BY <1>2, <2>1 DEF Binds, TypeOK, Maybe
<1>3. CASE Closes(p)
  <2>1. procs' \in [Pids -> Proc]
    BY <1>3 DEF Closes, SetState, TypeOK, Proc
  <2> QED
    BY <1>3, <2>1 DEF Closes, TypeOK, Maybe
<1>4. CASE Crash(p)
  <2>1. procs' \in [Pids -> Proc] /\ used' \in [Events -> Nat]
    BY <1>4, HappensType DEF Crash, SetState, TypeOK, Proc, Events
  <2> QED
    BY <1>4, <2>1 DEF Crash, TypeOK
<1>5. CASE Wedge(p)
  <2>1. procs' \in [Pids -> Proc]
    BY <1>5 DEF Wedge, SetState, TypeOK, Proc
  <2> QED
    BY <1>5, <2>1 DEF Wedge, TypeOK
<1>6. CASE Escalate(p)
  <2>1. procs' \in [Pids -> Proc]
    BY <1>6, SignalTreeKeeps DEF Escalate, Keeps
  <2> QED
    BY <1>6, <2>1 DEF Escalate, TypeOK
<1>7. CASE Recovers(p)
  <2>1. procs' \in [Pids -> Proc]
    BY <1>7 DEF Recovers, SetState, TypeOK, Proc
  <2> QED
    BY <1>7, <2>1 DEF Recovers, TypeOK
<1> QED
  BY <1>1, <1>2, <1>3, <1>4, <1>5, <1>6, <1>7

LEMMA InitType == Init => TypeOK
<1> SUFFICES ASSUME Init PROVE TypeOK
  OBVIOUS
<1>1. 1 \in Pids
  BY SupervisorAssumption DEF Pids
<1>2. procs \in [Pids -> Proc]
  <2>1. NoProc \in Proc
    BY DEF NoProc, Proc, Maybe
  <2>2. \A v : Left(1, v = "old") \in Proc
    BY <1>1 DEF Left, NoProc, Proc, Maybe
  <2> QED
    BY <2>1, <2>2 DEF Init
<1>3. start \in Starts /\ restart \in [Calls -> Restarts] /\ upd \in Updates
  BY DEF Init, Idle, Starts, Restarts, Updates
<1>5. manifest \in Maybe /\ sock \in Maybe
  BY <1>1 DEF Init, Maybe
<1>4. used \in [Events -> Nat]
  BY DEF Init
<1> QED
  BY <1>2, <1>3, <1>4, <1>5 DEF Init, TypeOK, Maybe

LEMMA StutterType == ASSUME TypeOK, UNCHANGED vars PROVE TypeOK'
BY DEF TypeOK, vars

LEMMA NextType == ASSUME TypeOK, [Next]_vars PROVE TypeOK'
BY StartStepType, UpdateStepType, CommandType, HostType, ProcessType, StutterType
   DEF Next, Supervise

\* The supervisor's state keeps its types; every phase of a start or an update
\* carries the pid it adopts or signals (DaemonSupervisor.ts).
THEOREM SupervisorTypes == Spec => []TypeOK
<1>1. TypeOK /\ [Next]_vars => TypeOK'
  BY NextType
<1> QED
  BY InitType, <1>1, PTL DEF Spec

-----------------------------------------------------------------------------
\* Known and Guarded are inductive, given the types.

LEMMA UnchangedKeeps == ASSUME TypeOK, procs' = procs PROVE Keeps(procs')
BY DEF Keeps, Used, TypeOK

LEMMA KnownKept ==
  ASSUME IInv, TypeOK', Keeps(procs'),
         sock' # Nil => Used(sock'), inst' # Nil => Used(inst'),
         start'.pid # Nil => Used(start'.pid),
         upd'.succ # Nil => procs[upd'.succ].pred # Nil
  PROVE  Known'
<1>1. sock' \in Maybe /\ inst' \in Maybe /\ start'.pid \in Maybe /\ upd'.succ \in Maybe
  BY DEF TypeOK, Starts, Updates, NoUpdate, Maybe
<1> QED
  BY <1>1 DEF IInv, Known, Keeps, Used, Maybe

LEMMA GuardedKept ==
  ASSUME IInv, host = "up", host' = host, circuit' = circuit, crashes' = crashes,
         inst' = inst, start'.pc # "idle" => start.pc # "idle",
         inst # Nil => procs'[inst].watch \in {procs[inst].watch, "none"}
  PROVE  Guarded'
BY DEF IInv, Guarded

\* A wedged process may be given up on, nothing else happens to it.
SameButSt(q) ==
  /\ procs'[q].pred = procs[q].pred /\ procs'[q].watch = procs[q].watch
  /\ Used(q)' <=> Used(q)

\* A process nobody has heard of yet is not one the supervisor has on record.
LEMMA SpawnKnown ==
  ASSUME IInv, CanSpawn, procs' = SpawnChild
  PROVE  /\ \A q \in Pids : q # NewPid => SameButSt(q)
         /\ NewPid \in Pids /\ ~Used(NewPid)
         /\ procs'[NewPid].pred = Nil /\ procs'[NewPid].st # "unused"
<1>1. NewPid \in Pids /\ ~Used(NewPid) /\ procs \in [Pids -> Proc]
  BY NewPidUnused DEF IInv, TypeOK
<1>2. \A q \in Pids : q # NewPid => SameButSt(q)
  BY <1>1 DEF SpawnChild, SameButSt, Proc, Used
<1>3. procs'[NewPid].pred = Nil /\ procs'[NewPid].st # "unused"
  BY <1>1 DEF SpawnChild
<1> QED
  BY <1>1, <1>2, <1>3

LEMMA EnsurePid ==
  ASSUME IInv, NEW open, NEW current, NEW man, Ensure(open, current, man)
  PROVE  /\ start'.pid # Nil => Used(start'.pid)
         /\ start'.pc # "idle" =>
              \/ start' = start
              \/ ~open /\ current = Nil /\ start.pc = "idle"
BY DEF Ensure, BeginStart, IsProcessAlive, Alive, Dead, Used, IInv, Known

LEMMA BeginSpawnKeeps ==
  ASSUME IInv, TypeOK', BeginSpawn, start.pc # "idle", host = "up",
         UNCHANGED <<sock, inst, upd, circuit, crashes, host>>
  PROVE  Known' /\ Guarded'
<1>1. /\ CanSpawn /\ NewPid \in Pids
      /\ start' = [pc |-> "ready", pid |-> NewPid] /\ procs' = SpawnChild
  BY NewPidUnused DEF BeginSpawn
<1>2. /\ sock \in Maybe /\ inst \in Maybe /\ upd.succ \in Maybe
  BY DEF IInv, TypeOK, Updates, NoUpdate, Maybe
<1>3. Known'
  <2>1. ASSUME NEW q \in Pids
        PROVE  /\ ~Used(q)' => procs'[q].pred = Nil
               /\ procs'[q].pred # Nil => procs'[q].watch = "none"
               /\ Used(q) => Used(q)'
               /\ procs[q].pred # Nil => procs'[q].pred # Nil
    BY <1>1, SpawnKnown DEF IInv, Known, SameButSt, Used
  <2>2. start'.pid = NewPid /\ procs'[start'.pid].st # "unused"
    BY <1>1, SpawnKnown
  <2> QED
    BY <1>2, <2>1, <2>2 DEF IInv, Known, Maybe, Used
<1>4. inst # Nil => procs'[inst].watch = procs[inst].watch
  BY <1>1, <1>2, SpawnKnown DEF IInv, Known, Maybe, SameButSt
<1>5. Guarded'
  BY <1>4, GuardedKept
<1> QED
  BY <1>3, <1>5

LEMMA StartStepKeeps ==
  ASSUME IInv, TypeOK', StartStep
  PROVE  Known' /\ Guarded'
<1> USE DEF memory, osVars, Running, Idle
<1>0. TypeOK /\ inst \in Maybe
  BY DEF IInv, TypeOK
<1>1. ASSUME start' = Idle, host = "up", UNCHANGED <<sock, upd, circuit, crashes, host>>,
             Keeps(procs'), inst' # Nil => Used(inst')
      PROVE  Known' /\ Guarded'
  <2>1. Known'
    BY <1>1, KnownKept DEF IInv, Known
  <2> QED
    BY <1>1, <2>1 DEF IInv, Guarded
<1>2. ASSUME NEW pc \in {"probe", "reject", "term", "termChild"},
             start.pc \in {"connect", "probe", "reject", "ready"}, start' = [start EXCEPT !.pc = pc],
             host = "up", UNCHANGED <<sock, inst, upd, circuit, crashes, host>>,
             Keeps(procs')
      PROVE  Known' /\ Guarded'
  <2>1. start'.pid = start.pid
    BY <1>0, <1>2, StartMoves
  <2>2. Known'
    BY <1>2, <2>1, KnownKept DEF IInv, Known
  <2>3. Guarded'
    BY <1>0, <1>2, GuardedKept DEF Keeps, Maybe
  <2> QED
    BY <2>2, <2>3
<1>3. CASE ConnectManifest
  BY <1>0, <1>2, <1>3, UnchangedKeeps DEF ConnectManifest
<1>4. CASE ProbeManifest
  <2>1. CASE Answering /\ Adopted(start.pid) /\ UNCHANGED procs
    <3>1. Used(start.pid) /\ start.pid # Nil
      BY <1>0, <1>4, StartPid, NilIsNoPid DEF ProbeManifest, IInv, Known
    <3> QED
      BY <1>0, <1>1, <1>4, <2>1, <3>1, UnchangedKeeps DEF ProbeManifest, Adopted
  <2>2. CASE /\ start' = [start EXCEPT !.pc = "reject"]
             /\ UNCHANGED <<inst, old, poll, auto, boot>>
    BY <1>0, <1>2, <1>4, <2>2, UnchangedKeeps DEF ProbeManifest
  <2> QED
    BY <1>4, <2>1, <2>2 DEF ProbeManifest
<1>5. CASE TermStaleDone
  BY <1>5, BeginSpawnKeeps DEF TermStaleDone
<1>6. CASE ConnectSocket
  <2>1. CASE Connectable
    <3>1. start.pid = Nil
      BY <1>0, <1>6 DEF ConnectSocket, TypeOK, Starts
    <3>2. start' = [start EXCEPT !.pc = "sockProbe"] /\ start'.pid = Nil
      BY <1>0, <1>6, <2>1, <3>1 DEF ConnectSocket, TypeOK, Starts
    <3>3. Keeps(procs') /\ procs' = procs
      BY <1>0, <1>6, <2>1, UnchangedKeeps DEF ConnectSocket
    <3>4. Known'
      BY <1>6, <3>2, <3>3, KnownKept DEF ConnectSocket, IInv, Known
    <3>5. Guarded'
      BY <1>6, <3>3, GuardedKept DEF ConnectSocket
    <3> QED
      BY <3>4, <3>5
  <2>2. CASE ~Connectable
    BY <1>6, <2>2, BeginSpawnKeeps DEF ConnectSocket
  <2> QED
    BY <2>1, <2>2
<1>7. CASE ProbeSocket
  <2>1. CASE Answering /\ manifest' = sock /\ Adopted(sock) /\ UNCHANGED procs
    BY <1>0, <1>1, <1>7, <2>1, UnchangedKeeps DEF ProbeSocket, Adopted, Answering, Serving, Used
  <2>2. CASE BeginSpawn /\ UNCHANGED <<manifest, inst, old, poll, auto, boot>>
    BY <1>7, <2>2, BeginSpawnKeeps DEF ProbeSocket
  <2> QED
    BY <1>7, <2>1, <2>2 DEF ProbeSocket
<1>8. CASE SpawnReady
  <2>1. start.pid \in Pids /\ Used(start.pid) /\ start.pid # Nil
    BY <1>0, <1>8, StartPid, NilIsNoPid DEF SpawnReady, IInv, Known
  <2>2. \A q \in Pids : /\ procs'[q].pred = procs[q].pred
                       /\ procs'[q].st = procs[q].st
                       /\ procs[q].watch = "none" => procs'[q].watch = "none"
    BY <1>0, <1>8, <2>1 DEF SpawnReady, TypeOK, Proc
  <2>3. sock \in Maybe /\ upd.succ \in Maybe
    BY <1>0 DEF TypeOK, Updates, NoUpdate, Maybe
  <2>4. Known'
    BY <1>8, <2>1, <2>2, <2>3 DEF SpawnReady, IInv, Known, Used, Maybe
  <2>5. Guarded'
    BY <1>8 DEF SpawnReady, IInv, Guarded
  <2> QED
    BY <2>4, <2>5
<1>9. CASE SpawnTimeout
  BY <1>0, <1>2, <1>9, SignalTreeKeeps DEF SpawnTimeout
<1>10. CASE SpawnFailed
  BY <1>0, <1>1, <1>10, UnchangedKeeps DEF SpawnFailed, IInv, Known
<1>11. CASE TerminateStale
  BY <1>0, <1>2, <1>11, SignalTreeKeeps DEF TerminateStale
<1> QED
  BY <1>3, <1>4, <1>5, <1>6, <1>7, <1>8, <1>9, <1>10, <1>11 DEF StartStep

LEMMA UpdateStepKeeps ==
  ASSUME IInv, TypeOK', UpdateStep
  PROVE  Known' /\ Guarded'
<1> USE DEF memory, osVars
<1>0. TypeOK /\ inst \in Maybe /\ upd.succ \in Maybe /\ sock \in Maybe
  BY DEF IInv, TypeOK, Updates, NoUpdate, Maybe
<1>1. ASSUME host = "up", UNCHANGED <<sock, inst, start, circuit, crashes, host>>,
             Keeps(procs'), upd'.succ \in {Nil, upd.succ}
      PROVE  Known' /\ Guarded'
  <2>1. Known'
    BY <1>1, KnownKept DEF IInv, Known
  <2>2. Guarded'
    BY <1>0, <1>1, GuardedKept DEF Keeps, Maybe
  <2> QED
    BY <2>1, <2>2
<1>2. CASE PrepareUpgrade
  <2>1. NewPid \in Pids /\ ~Used(NewPid) /\ sock # Nil /\ NewPid # Nil
    BY <1>2, NewPidUnused, NilIsNoPid DEF PrepareUpgrade, Answering
  <2>2. /\ \A q \in Pids : q # NewPid => procs'[q] = procs[q]
        /\ procs'[NewPid].pred = sock /\ procs'[NewPid].watch = "none"
        /\ procs'[NewPid].st = "heir"
    BY <1>0, <1>2, <2>1 DEF PrepareUpgrade, TypeOK
  <2>3. upd'.succ = NewPid
    <3>1. upd \in [pc : {"prepare"}, pid : Pids, succ : {Nil}, man : Maybe]
      BY <1>0, <1>2 DEF PrepareUpgrade, TypeOK, Updates, NoUpdate
    <3> QED
      BY <1>2, <3>1 DEF PrepareUpgrade
  <2>4. ASSUME NEW q \in Pids
        PROVE  /\ procs'[q].st = "unused" => procs'[q].pred = Nil
               /\ procs'[q].pred # Nil => procs'[q].watch = "none"
               /\ Used(q) => procs'[q].st # "unused"
    BY <2>1, <2>2 DEF IInv, Known, Used
  <2>5. start.pid \in Maybe
    BY <1>0 DEF TypeOK, Starts, Maybe
  <2>6. Known'
    BY <1>0, <1>2, <2>1, <2>2, <2>3, <2>4, <2>5
       DEF PrepareUpgrade, IInv, Known, Used, Maybe
  <2>7. inst # Nil => procs'[inst] = procs[inst]
    BY <1>0, <2>1, <2>2 DEF IInv, Known, Maybe
  <2>8. Guarded'
    BY <1>2, <2>7, GuardedKept DEF PrepareUpgrade
  <2> QED
    BY <2>6, <2>8
<1>3. CASE PrepareFails
  BY <1>0, <1>1, <1>3, UnchangedKeeps DEF PrepareFails, RestoreOnFailure, NoUpdate
<1>4. CASE HandoffAcked
  <2>1. upd.succ \in Pids /\ upd'.succ = upd.succ
    BY <1>0, <1>4, UpdateMoves DEF HandoffAcked, TypeOK, Updates, NoUpdate
  <2>2. procs[upd.succ].pred \in Maybe
    BY <1>0, <2>1 DEF TypeOK, Proc
  <2>3. procs[upd.succ].pred \in Pids
    BY <1>0, <2>1, <2>2, NilIsNoPid DEF IInv, Known, Maybe
  <2>4. Keeps(procs')
    BY <1>0, <1>4, <2>1, <2>3 DEF HandoffAcked, Serving, TypeOK, Keeps, Used, Proc
  <2> QED
    BY <1>1, <1>4, <2>1, <2>4 DEF HandoffAcked
<1>5. CASE HandoffFails
  <2>1. upd.succ \in Pids
    BY <1>0, <1>5 DEF HandoffFails, TypeOK, Updates, NoUpdate
  <2>2. Keeps(procs')
    BY <1>0, <1>5, <2>1, SignalOneKeeps, UnchangedKeeps DEF HandoffFails
  <2> QED
    BY <1>1, <1>5, <2>2 DEF HandoffFails, RestoreOnFailure, NoUpdate
<1>6. CASE PredecessorGone
  <2>1. upd.pid \in Pids /\ upd'.succ = upd.succ
    BY <1>0, <1>6, UpdateMoves DEF PredecessorGone, TypeOK, Updates, NoUpdate
  <2>2. Keeps(procs')
    BY <1>0, <1>6, <2>1, SignalOneKeeps DEF PredecessorGone, KillPredecessor
  <2> QED
    BY <1>1, <1>6, <2>1, <2>2 DEF PredecessorGone
<1>7. CASE Updated
  <2>1. upd.succ \in Pids /\ upd.succ # Nil
    BY <1>0, <1>7, NilIsNoPid DEF Updated, TypeOK, Updates, NoUpdate
  <2>2. Used(upd.succ) /\ procs[upd.succ].watch = "none"
    BY <2>1 DEF IInv, Known
  <2>3. Known'
    BY <1>0, <1>7, <2>2, KnownKept, UnchangedKeeps
       DEF Updated, NoUpdate, IInv, Known
  <2>4. Guarded'
    BY <1>7, <2>2 DEF Updated, IInv, Guarded
  <2> QED
    BY <2>3, <2>4
<1> QED
  BY <1>2, <1>3, <1>4, <1>5, <1>6, <1>7 DEF UpdateStep

LEMMA StopKeeps ==
  ASSUME IInv, TypeOK', NEW k, Stop(k), start.pc = "idle", host = "up",
         UNCHANGED <<sock, upd, host>>
  PROVE  Known' /\ Guarded'
<1>1. inst' = Nil
  BY DEF Stop
<1>2. Keeps(procs')
  BY SignalTreeKeeps, UnchangedKeeps DEF Stop, IInv
<1>3. start'.pid # Nil => Used(start'.pid)
  <2>1. CASE inst = Nil
    BY <2>1, EnsurePid DEF Stop
  <2>2. CASE inst # Nil
    BY <2>2 DEF Stop, IInv, Known
  <2> QED
    BY <2>1, <2>2
<1>4. Known'
  BY <1>1, <1>2, <1>3, KnownKept DEF IInv, Known
<1>5. Guarded'
  <2>1. CASE inst = Nil
    <3>1. crashes' = 0 /\ circuit' = FALSE
      BY <2>1 DEF Stop
    <3>2. ~(crashes' > CrashBudget)
      BY <3>1, SupervisorAssumption
    <3> QED
      BY <1>1, <3>1, <3>2 DEF Guarded
  <2>2. CASE inst # Nil
    <3>1. UNCHANGED <<crashes, circuit, start>>
      BY <2>2 DEF Stop
    <3> QED
      BY <1>1, <3>1 DEF IInv, Guarded
  <2> QED
    BY <2>1, <2>2
<1> QED
  BY <1>4, <1>5

\* A step that leaves the processes, the socket and the update's successor alone
\* and calls at most ensure().
LEMMA EnsureKeeps ==
  ASSUME IInv, TypeOK', NEW open, NEW man, Ensure(open, inst, man), host' = "up",
         UNCHANGED <<procs, sock, inst, upd>>, circuit' = open, open \in BOOLEAN,
         crashes' > CrashBudget => circuit',
         start.pc # "idle" => ~circuit'
  PROVE  Known' /\ Guarded'
<1>1. Keeps(procs')
  BY UnchangedKeeps DEF IInv
<1>2. Known'
  BY <1>1, EnsurePid, KnownKept DEF IInv, Known
<1>3. Guarded'
  BY EnsurePid DEF IInv, Guarded
<1> QED
  BY <1>2, <1>3

LEMMA CommandKeeps ==
  ASSUME IInv, TypeOK', RestartStep \/ Restart \/ Update \/ AutoUpdate
  PROVE  Known' /\ Guarded'
<1> USE DEF memory, osVars
<1>0. TypeOK /\ inst \in Maybe
  BY DEF IInv, TypeOK
<1>1. ASSUME NEW k \in Calls, RestartAwaited(k)
      PROVE  Known' /\ Guarded'
  BY <1>1, StopKeeps DEF RestartAwaited
<1>2. ASSUME NEW k \in Calls, Restarted(k)
      PROVE  Known' /\ Guarded'
  <2>1. Ensure(FALSE, inst, Nil) /\ crashes' = 0 /\ circuit' = FALSE /\ host' = "up"
    BY <1>2 DEF Restarted
  <2>2. UNCHANGED <<procs, sock, inst, upd>>
    BY <1>2 DEF Restarted
  <2>3. ~(crashes' > CrashBudget)
    BY <2>1, SupervisorAssumption
  <2> QED
    BY <2>1, <2>2, <2>3, EnsureKeeps
<1>3. ASSUME host = "up", UNCHANGED <<procs, sock, inst, start, circuit, crashes, host>>,
             upd'.succ \in {Nil, upd.succ}
      PROVE  Known' /\ Guarded'
  <2>1. Known'
    BY <1>0, <1>3, KnownKept, UnchangedKeeps DEF IInv, Known
  <2>2. Guarded'
    BY <1>3, GuardedKept
  <2> QED
    BY <2>1, <2>2
<1>4. CASE Restart
  <2>1. CASE start.pc # "idle"
    BY <1>3, <1>4, <2>1 DEF Restart
  <2>2. CASE start.pc = "idle"
    BY <1>4, <2>2, StopKeeps DEF Restart
  <2> QED
    BY <2>1, <2>2
<1>5. CASE Update
  BY <1>3, <1>5 DEF Update, BeginUpdate
<1>6. CASE AutoUpdate
  BY <1>3, <1>6 DEF AutoUpdate, BeginUpdate
<1> QED
  BY <1>1, <1>2, <1>4, <1>5, <1>6 DEF RestartStep

LEMMA HostKeeps ==
  ASSUME IInv, TypeOK',
         LivenessPoll \/ Request \/ HostBoots \/ WindowPasses \/ HostCrash
  PROVE  Known' /\ Guarded'
<1> USE DEF memory, osVars
<1>0. TypeOK /\ inst \in Maybe
  BY DEF IInv, TypeOK
<1>1. CASE LivenessPoll
  <2>1. Known'
    BY <1>0, <1>1, KnownKept, UnchangedKeeps DEF LivenessPoll, IInv, Known
  <2>2. Guarded'
    BY <1>1 DEF LivenessPoll, IInv, Guarded
  <2> QED
    BY <2>1, <2>2
<1>2. CASE Request
  <2>1. UNCHANGED <<procs, sock, inst, upd, circuit, crashes, host>> /\ host = "up"
    BY <1>2 DEF Request
  <2>2. CASE circuit
    <3>1. UNCHANGED start
      BY <1>2, <2>2 DEF Request
    <3>2. Known'
      BY <1>0, <2>1, <3>1, KnownKept, UnchangedKeeps DEF IInv, Known
    <3>3. Guarded'
      BY <2>1, <3>1, GuardedKept
    <3> QED
      BY <3>2, <3>3
  <2>3. CASE ~circuit
    <3>1. Ensure(circuit, inst, manifest)
      BY <1>2, <2>3 DEF Request
    <3> QED
      BY <1>0, <2>1, <3>1, EnsureKeeps DEF IInv, Guarded, TypeOK
  <2> QED
    BY <2>2, <2>3
<1>3. CASE HostBoots
  <2>1. start'.pid # Nil => Used(start'.pid)
    BY <1>3 DEF HostBoots, BeginStart, IsProcessAlive, Alive, Dead, Used
  <2>2. Known'
    BY <1>0, <1>3, <2>1, KnownKept, UnchangedKeeps DEF HostBoots, IInv, Known
  <2>3. Guarded'
    BY <1>3 DEF HostBoots, IInv, Guarded
  <2> QED
    BY <2>2, <2>3
<1>4. CASE WindowPasses
  <2>1. Known'
    BY <1>0, <1>4, KnownKept, UnchangedKeeps DEF WindowPasses, IInv, Known
  <2>2. Guarded'
    BY <1>0, <1>4, SupervisorAssumption DEF WindowPasses, IInv, Guarded, TypeOK
  <2> QED
    BY <2>1, <2>2
<1>5. CASE HostCrash
  <2>1. \A q \in Pids : /\ procs'[q].pred = procs[q].pred
                       /\ procs'[q].st = procs[q].st /\ procs'[q].watch = "none"
    BY <1>0, <1>5 DEF HostCrash, TypeOK, Proc
  <2>2. sock \in Maybe
    BY <1>0 DEF TypeOK
  <2>3. Known'
    BY <1>5, <2>1, <2>2 DEF HostCrash, IInv, Known, Used, Idle, NoUpdate, Maybe
  <2>4. Guarded'
    BY <1>5, SupervisorAssumption DEF HostCrash, Guarded, Idle
  <2> QED
    BY <2>3, <2>4
<1> QED
  BY <1>1, <1>2, <1>3, <1>4, <1>5

LEMMA ExitKeeps ==
  ASSUME IInv, TypeOK', NEW p \in Pids, ExitEvent(p)
  PROVE  Known' /\ Guarded'
<1>0. TypeOK /\ inst \in Maybe /\ sock \in Maybe /\ start.pid \in Maybe
      /\ upd.succ \in Maybe
  BY DEF IInv, TypeOK, Starts, Updates, NoUpdate, Maybe
<1>1. \A q \in Pids : /\ procs'[q].pred = procs[q].pred
                     /\ procs'[q].st = procs[q].st
                     /\ procs'[q].watch \in {procs[q].watch, "none"}
  BY <1>0 DEF ExitEvent, TypeOK, Proc
<1>2. host = "up" /\ UNCHANGED <<sock, upd, host>>
  BY DEF ExitEvent
<1>3. ASSUME inst' \in {Nil, inst}, start'.pid # Nil => Used(start'.pid),
             start'.pid \in Maybe
      PROVE  Known'
  BY <1>0, <1>1, <1>2, <1>3 DEF IInv, Known, Used, Maybe
<1>4. CASE procs[p].watch = "early" \/ inst # p
  <2>1. UNCHANGED <<inst, circuit, crashes, start>>
    BY <1>4 DEF ExitEvent
  <2>2. Known'
    BY <1>0, <1>3, <2>1 DEF IInv, Known
  <2>3. Guarded'
    BY <1>0, <1>1, <1>2, <2>1, GuardedKept DEF Maybe
  <2> QED
    BY <2>2, <2>3
<1>5. CASE ~(procs[p].watch = "early" \/ inst # p)
  <2>1. inst = p /\ procs[p].watch # "none" /\ inst' = Nil /\ inst # Nil
    BY <1>5, NilIsNoPid DEF ExitEvent
  <2>2. start.pc = "idle"
    BY <2>1 DEF IInv, Guarded
  <2>3. CASE stopping
    <3>1. UNCHANGED <<circuit, crashes, start>>
      BY <1>5, <2>3 DEF ExitEvent
    <3>2. Known'
      BY <1>0, <1>3, <2>1, <3>1 DEF IInv, Known
    <3>3. Guarded'
      BY <1>2, <2>1, <2>2, <3>1 DEF IInv, Guarded
    <3> QED
      BY <3>2, <3>3
  <2>4. CASE ~stopping
    <3>1. AfterCrash(crashes + 1)
      BY <1>5, <2>4 DEF ExitEvent
    <3>2. Ensure(circuit', Nil, Nil) /\ (crashes' > CrashBudget => circuit')
      BY <3>1 DEF AfterCrash, OverBudget
    <3>3. /\ start'.pid # Nil => Used(start'.pid)
          /\ start'.pc # "idle" => ~circuit'
      BY <2>2, <3>2, EnsurePid
    <3>4. start'.pid \in Maybe
      BY DEF TypeOK, Starts, Maybe
    <3>5. Known'
      BY <1>3, <2>1, <3>3, <3>4
    <3>6. Guarded'
      BY <1>2, <2>1, <3>2, <3>3 DEF Guarded
    <3> QED
      BY <3>5, <3>6
  <2> QED
    BY <2>3, <2>4
<1> QED
  BY <1>4, <1>5

LEMMA ProcessKeeps ==
  ASSUME IInv, TypeOK', NEW p \in Pids,
         Binds(p) \/ Closes(p) \/ Crash(p) \/ Wedge(p) \/ Recovers(p) \/ Escalate(p)
  PROVE  Known' /\ Guarded'
<1> USE DEF memory, osVars
<1>0. TypeOK /\ inst \in Maybe
  BY DEF IInv, TypeOK
<1>1. Keeps(procs') /\ sock' \in {sock, p, Nil}
  <2>1. CASE Binds(p)
    BY <1>0, <2>1, SetStateKeeps DEF Binds, Used
  <2>2. CASE Closes(p)
    BY <1>0, <2>2, SetStateKeeps DEF Closes, Closing, Used
  <2>3. CASE Crash(p)
    BY <1>0, <2>3, SetStateKeeps DEF Crash, Alive, Used
  <2>4. CASE Wedge(p)
    BY <1>0, <2>4, SetStateKeeps DEF Wedge, Serving, Used
  <2>5. CASE Escalate(p)
    BY <1>0, <2>5, SignalTreeKeeps DEF Escalate
  <2>6. CASE Recovers(p)
    BY <1>0, <2>6, SetStateKeeps DEF Recovers, Used
  <2> QED
    BY <2>1, <2>2, <2>3, <2>4, <2>5, <2>6
<1>2. UNCHANGED <<inst, start, upd, circuit, crashes, host>>
  BY DEF Binds, Closes, Crash, Wedge, Recovers, Escalate
<1>3. sock' = p => Used(p) \/ sock' = sock
  BY NilIsNoPid DEF Binds, Closes, Crash, Wedge, Recovers, Escalate, Used
<1>4. Known'
  BY <1>0, <1>1, <1>2, <1>3, KnownKept DEF IInv, Known
<1>5. Guarded'
  BY <1>0, <1>1, <1>2 DEF IInv, Guarded, Keeps, Maybe
<1> QED
  BY <1>4, <1>5

LEMMA InitIInv == Init => IInv
<1> SUFFICES ASSUME Init PROVE IInv
  OBVIOUS
<1>1. TypeOK
  BY InitType
<1>2. Guarded
  BY SupervisorAssumption DEF Init, Idle, Guarded
<1>3. 1 \in Pids
  BY SupervisorAssumption DEF Pids
<1>4. \A p \in Pids : procs[p].pred = Nil
  <2>1. \A v : Left(1, v).pred = Nil
    BY DEF Left, NoProc
  <2> QED
    BY <2>1 DEF Init, NoProc
<1>5. sock # Nil => Used(sock)
  BY <1>3 DEF Init, Left, NoProc, Used
<1> QED
  BY <1>1, <1>2, <1>4, <1>5 DEF Init, Idle, NoUpdate, IInv, Known

LEMMA NextIInv == ASSUME IInv, [Next]_vars PROVE IInv'
<1>1. TypeOK'
  BY NextType DEF IInv
<1>2. CASE UNCHANGED vars
  BY <1>1, <1>2 DEF vars, IInv, Known, Guarded, Used
<1>3. CASE Next
  BY <1>1, <1>3, StartStepKeeps, UpdateStepKeeps, CommandKeeps, HostKeeps, ExitKeeps,
     ProcessKeeps
     DEF Next, Supervise, IInv
<1> QED
  BY <1>2, <1>3

\* In every reachable state a start in flight finds the circuit closed and no
\* instance whose exit could open it (ensure, the exit handler, runUpdate).
THEOREM SupervisorInvariant == Spec => []IInv
<1>1. IInv /\ [Next]_vars => IInv'
  BY NextIInv
<1> QED
  BY InitIInv, <1>1, PTL DEF Spec

\* Only a start spawns a daemon that boots.
LEMMA SpawnsInStart ==
  ASSUME IInv, Next
  PROVE  Spawned => start.pc # "idle"
<1> USE DEF memory, osVars
<1>0. TypeOK
  BY DEF IInv
<1>1. ASSUME Keeps(procs') \/ (\A q \in Pids : procs'[q].st \in {procs[q].st, "heir"})
      PROVE  ~Spawned
  BY <1>1 DEF Keeps, Used, Spawned
<1>2. CASE StartStep
  BY <1>2 DEF StartStep, Running, ConnectManifest, ProbeManifest, TerminateStale, TermStaleDone,
     ConnectSocket, ProbeSocket, SpawnReady, SpawnTimeout, SpawnFailed
<1>3. CASE UpdateStep
  <2>1. CASE PrepareUpgrade
    BY <1>0, <1>1, <2>1 DEF PrepareUpgrade, TypeOK
  <2>2. CASE PrepareFails \/ Updated
    BY <1>0, <1>1, <2>2, UnchangedKeeps DEF PrepareFails, Updated
  <2>3. CASE HandoffAcked
    <3>1. /\ procs' = [procs EXCEPT ![procs[upd.succ].pred].st = "closing"]
          /\ Serving(procs[upd.succ].pred)
      BY <2>3 DEF HandoffAcked
    <3>2. \A q \in Pids : procs[q].st = "unused" => procs'[q] = procs[q]
      BY <1>0, <3>1 DEF TypeOK, Serving
    <3> QED
      BY <3>2 DEF Spawned
  <2>4. CASE HandoffFails \/ PredecessorGone
    <3>1. upd.pid \in Pids /\ upd.succ \in Pids
      BY <1>0, <2>4 DEF HandoffFails, PredecessorGone, TypeOK, Updates, NoUpdate
    <3>2. Keeps(procs')
      BY <1>0, <2>4, <3>1, SignalOneKeeps, UnchangedKeeps
         DEF HandoffFails, PredecessorGone, KillPredecessor
    <3> QED
      BY <1>1, <3>2
  <2> QED
    BY <1>3, <2>1, <2>2, <2>3, <2>4 DEF UpdateStep
<1>4. CASE RestartStep \/ Restart
  <2>1. ASSUME NEW k, Stop(k)
        PROVE  ~Spawned
    <3>1. procs' = procs \/ procs' = SignalTree(inst, "SIGTERM")
      BY <2>1, Zenon DEF Stop
    <3> QED
      BY <1>0, <1>1, <3>1, SignalTreeKeeps, UnchangedKeeps
  <2>2. CASE RestartStep
    BY <1>0, <1>1, <2>1, <2>2, UnchangedKeeps DEF RestartStep, RestartAwaited, Restarted
  <2>3. CASE Restart
    BY <1>0, <1>1, <2>1, <2>3, UnchangedKeeps DEF Restart
  <2> QED
    BY <1>4, <2>2, <2>3
<1>5. CASE Supervise \/ Update \/ WindowPasses
  BY <1>0, <1>1, <1>5, UnchangedKeeps
     DEF Supervise, LivenessPoll, AutoUpdate, Request, HostBoots, Update, WindowPasses
<1>6. CASE HostCrash
  BY <1>0, <1>1, <1>6 DEF HostCrash, TypeOK, Proc
<1>7. ASSUME NEW p \in Pids, ExitEvent(p) PROVE ~Spawned
  BY <1>0, <1>1, <1>7 DEF ExitEvent, TypeOK, Proc
<1>8. ASSUME NEW p \in Pids,
             Binds(p) \/ Closes(p) \/ Crash(p) \/ Wedge(p) \/ Recovers(p) \/ Escalate(p)
      PROVE  ~Spawned
  <2>1. CASE Escalate(p)
    BY <1>0, <1>1, <2>1, SignalTreeKeeps DEF Escalate
  <2>2. CASE Binds(p) \/ Closes(p) \/ Crash(p) \/ Wedge(p) \/ Recovers(p)
    <3>1. PICK st \in {"serving", "wedged", "closing", "dead"} :
                 procs' = [procs EXCEPT ![p].st = st]
      BY <2>2 DEF Binds, Closes, Crash, Wedge, Recovers, SetState
    <3>2. \A q \in Pids : procs'[q].st \in {procs[q].st, st}
      BY <1>0, <3>1 DEF TypeOK, Proc
    <3> QED
      BY <3>2 DEF Spawned
  <2> QED
    BY <1>8, <2>1, <2>2
<1> QED
  BY <1>2, <1>3, <1>4, <1>5, <1>6, <1>7, <1>8 DEF Next

\* However crashes, adoptions, restarts, updates and requests interleave, no
\* daemon is spawned once the crash budget is spent (CRASH_BUDGET, circuitOpen).
THEOREM RespawnsBounded == Spec => RespawnsAreBounded
<1>1. IInv /\ [Next]_vars => [Spawned => crashes <= CrashBudget /\ ~circuit]_vars
  <2> SUFFICES ASSUME IInv, Next, Spawned
               PROVE  crashes <= CrashBudget /\ ~circuit
    BY DEF vars
  <2>1. ~circuit
    BY SpawnsInStart DEF IInv, Guarded
  <2>2. crashes \in Nat /\ ~(crashes > CrashBudget)
    BY <2>1 DEF IInv, TypeOK, Guarded
  <2> QED
    BY <2>1, <2>2, SupervisorAssumption
<1> QED
  BY SupervisorInvariant, <1>1, PTL DEF Spec, RespawnsAreBounded
-----------------------------------------------------------------------------
\* One daemon.  Whatever the supervisor is at, it knows the one process that can
\* listen, or that may still unlink the path: the instance, the process it waits
\* for, the child it has spawned, the two of a handoff.  A wedged process is among
\* them until another is spawned in its place.
Live(p) == procs[p].st \in {"booting", "heir", "serving", "wedged", "stuck", "closing"}
Bound(p) == procs[p].st \in {"serving", "wedged", "stuck"}
Kept(p) == procs[p].st \in {"serving", "wedged"}
OnPath == \A p \in Pids : Bound(p) => sock = p

Sole(x) == \A p \in Pids : Live(p) => p = x
Pair(x, y) == \A p \in Pids : Live(p) => p \in {x, y}
Nobody == \A p \in Pids : ~Live(p)

\* A restart waits for the daemon it stops; restarts do not overlap.
Terminating == \E k \in Calls : restart[k].pc = "term"
OneCall == \A j, k \in Calls :
             restart[j].pc # "idle" /\ restart[k].pc # "idle" => j = k

\* Nothing is in flight, and the supervisor has no instance.
AtRest == host = "up" /\ start.pc = "idle" /\ upd.pc = "idle" /\ ~Terminating
          /\ inst = Nil

\* Without a host-service, the manifest names the process that is left.
OneAlone ==
  host = "down" =>
    /\ inst = Nil /\ start.pc = "idle" /\ NoRestart /\ upd.pc = "idle"
    /\ \A p \in Pids : Live(p) => p = manifest \/ (manifest = Nil /\ Kept(p))

StartPhase ==
  /\ start.pc \in {"connect", "probe", "reject", "term"} => Sole(start.pid) /\ manifest = start.pid
  /\ start.pc \in {"ready", "termChild"} => Sole(start.pid)
  /\ start.pc \in {"sockConnect", "sockProbe"} => \A p \in Pids : Live(p) => Kept(p)

OneStart ==
  /\ start.pc # "idle" => inst = Nil /\ upd.pc = "idle" /\ ~Terminating /\ boot # "none"
  /\ StartPhase

OneInstance ==
  /\ inst # Nil => /\ boot = "ok" /\ ~Terminating
                   /\ upd.pc = "idle" => Sole(inst) /\ manifest = inst
  /\ ~NoRestart => boot = "ok" /\ upd.pc = "idle"
  /\ \A k \in Calls : restart[k].pc = "term" => /\ Sole(restart[k].pid)
                                                /\ manifest = restart[k].pid
  /\ AtRest => Nobody

OneUpdate ==
  /\ upd.pc # "idle" => /\ boot = "ok" /\ upd.man = upd.pid /\ inst \in {Nil, upd.pid}
                        /\ stopping \/ inst = Nil
  /\ upd.pc = "prepare" => Sole(upd.pid) /\ (inst = Nil => Nobody)
  /\ upd.pc \in {"ack", "waitExit", "probe"} =>
       Pair(upd.pid, upd.succ) /\ procs[upd.succ].pred = upd.pid
  /\ upd.pc = "ack" => /\ Serving(upd.pid) /\ procs[upd.succ].st = "heir"
                       /\ inst = upd.pid
  /\ upd.pc = "waitExit" => \/ Closing(upd.pid) /\ procs[upd.succ].st = "heir"
                            \/ Dead(upd.pid) /\ procs[upd.succ].st \in {"heir", "serving"}
  /\ upd.pc = "probe" => Dead(upd.pid) /\ procs[upd.succ].st \in {"heir", "serving"}

One == OnPath /\ OneAlone /\ OneCall /\ OneStart /\ OneInstance /\ OneUpdate

\* Not the faults under which there may be two daemons for a while.
NoOverlap == Faults \cap {"overlap", "slowHandoff", "lateRecovery"} = {}

\* What signals and failures do to the processes: nobody comes to life, or nobody
\* changes but to end, to wedge or to recover.
Weakens == \A q \in Pids : /\ Live(q)' => Live(q)
                           /\ Bound(q)' => Bound(q)
Fades == \A q \in Pids : /\ Live(q)' => Live(q)
                         /\ Bound(q)' => Bound(q)
                         /\ Live(q)' /\ Kept(q) => Kept(q)'

LEMMA TermWeakens ==
  ASSUME TypeOK, NEW p, NEW signal, procs' = SignalTree(p, signal)
  PROVE  Weakens
<1> SUFFICES ASSUME NEW q \in Pids
             PROVE  (Live(q)' => Live(q)) /\ (Bound(q)' => Bound(q))
  BY DEF Weakens
<1>1. procs[q] \in Proc
  BY DEF TypeOK
<1>2. procs'[q] = procs[q] \/ procs'[q] = Signalled(procs[q], signal)
  BY DEF SignalTree
<1> QED
  BY <1>1, <1>2 DEF Signalled, Live, Bound, Proc

LEMMA KillFades ==
  ASSUME TypeOK, NEW p, procs' = SignalTree(p, "SIGKILL")
  PROVE  Fades
<1> SUFFICES ASSUME NEW q \in Pids
             PROVE  /\ Live(q)' => Live(q)
                    /\ Bound(q)' => Bound(q)
                    /\ Live(q)' /\ Kept(q) => Kept(q)'
  BY DEF Fades
<1>1. procs[q] \in Proc
  BY DEF TypeOK
<1>2. procs'[q] = procs[q] \/ procs'[q] = Signalled(procs[q], "SIGKILL")
  BY DEF SignalTree
<1> QED
  BY <1>1, <1>2 DEF Signalled, Live, Bound, Kept, Proc

LEMMA FadesOne ==
  ASSUME One, Fades, upd.pc \in {"idle", "prepare"},
         UNCHANGED <<sock, manifest, host, boot, inst, start, restart, upd, stopping>>
  PROVE  One'
<1>3. OnPath'
  BY DEF One, OnPath, Fades
<1>4. OneAlone'
  BY DEF One, OneAlone, Fades, NoRestart
<1>5. OneStart'
  BY DEF One, OneStart, StartPhase, Sole, Fades, Terminating
<1>6. OneInstance'
  BY DEF One, OneInstance, AtRest, Sole, Nobody, Fades, Terminating, NoRestart
<1>7. OneUpdate' /\ OneCall'
  BY DEF One, OneUpdate, OneCall, Sole, Nobody, Fades
<1> QED
  BY <1>3, <1>4, <1>5, <1>6, <1>7 DEF One

\* What One says of the restarts, where they do not change.
LEMMA RestartsSame ==
  ASSUME restart' = restart
  PROVE  /\ Terminating' <=> Terminating
         /\ NoRestart' <=> NoRestart
         /\ OneCall' <=> OneCall
BY DEF Terminating, NoRestart, OneCall

\* A start that goes on, and one that ends with a daemon or without.
LEMMA StartGoesOn ==
  ASSUME One, start.pc # "idle", start'.pc # "idle",
         UNCHANGED <<host, boot, inst, restart, upd>>, OnPath', StartPhase'
  PROVE  One'
<1>1. host # "down" /\ upd.pc = "idle" /\ ~Terminating /\ inst = Nil
  BY DEF One, OneAlone, OneStart
<1>2. ~Terminating' /\ OneCall' /\ (NoRestart' <=> NoRestart)
  BY <1>1, RestartsSame DEF One
<1>3. \A k \in Calls : restart'[k].pc # "term"
  BY <1>2 DEF Terminating
<1> QED
  BY <1>1, <1>2, <1>3 DEF One, OneAlone, OneStart, OneInstance, OneUpdate, AtRest

LEMMA StartEnds ==
  ASSUME One, start.pc # "idle", start'.pc = "idle",
         UNCHANGED <<host, restart, upd>>, OnPath',
         \/ inst' = Nil /\ Nobody' /\ boot' \in {"none", boot} /\ NoRestart
         \/ inst' = Nil /\ Nobody' /\ boot' = boot
         \/ inst' # Nil /\ Sole(inst)' /\ manifest' = inst' /\ boot' = "ok"
  PROVE  One'
<1>1. host # "down" /\ upd.pc = "idle" /\ ~Terminating
  BY DEF One, OneAlone, OneStart
<1>2. ~Terminating' /\ OneCall' /\ (NoRestart' <=> NoRestart)
  BY <1>1, RestartsSame DEF One
<1>3. OneAlone' /\ OneStart' /\ OneUpdate'
  BY <1>1 DEF OneAlone, OneStart, StartPhase, OneUpdate
<1>4. \A k \in Calls : restart'[k].pc # "term"
  BY <1>2 DEF Terminating
<1>5. OneInstance'
  BY <1>1, <1>2, <1>4 DEF One, OneInstance, AtRest, Sole
<1> QED
  BY <1>2, <1>3, <1>5 DEF One

\* ensure() is called where nobody is left, and a start begun there finds nobody.
LEMMA EnsureOne ==
  ASSUME NEW open, NEW man, Ensure(open, Nil, man), start.pc = "idle", Nobody',
         inst' = Nil, upd'.pc = "idle", host' = "up", boot' # "none",
         OneCall', ~Terminating', ~NoRestart' => boot' = "ok"
  PROVE  One'
<1>1. OnPath'
  BY DEF OnPath, Nobody, Live, Bound
<1>2. \/ start'.pc = "idle"
      \/ start'.pc = "connect" /\ manifest' = start'.pid
      \/ start'.pc = "sockConnect"
  BY DEF Ensure, BeginStart
<1>3. StartPhase'
  BY <1>2 DEF StartPhase, Sole, Nobody
<1>4. \A k \in Calls : restart'[k].pc # "term"
  BY DEF Terminating
<1> QED
  BY <1>1, <1>3, <1>4 DEF One, OneAlone, OneStart, OneInstance, OneUpdate

\* A process is spawned where nobody is left, or one given up on.
LEMMA SpawnOne ==
  ASSUME One, TypeOK, NoOverlap, BeginSpawn, start.pc # "idle",
         \A q \in Pids : Live(q) => procs[q].st \in {"wedged", "stuck"},
         UNCHANGED <<sock, host, boot, inst, restart, upd>>
  PROVE  One'
<1>1. PICK b \in Pids : b = NewPid
  BY NewPidUnused DEF BeginSpawn
<1>2. /\ procs' = SpawnChild /\ start' = [pc |-> "ready", pid |-> b]
  BY <1>1 DEF BeginSpawn
<1>3. \A q \in Pids : q # b => procs'[q].st = IF procs[q].st \in {"wedged", "stuck"}
                                             THEN "hung" ELSE procs[q].st
  BY <1>1, <1>2 DEF SpawnChild, TypeOK, NoOverlap, Proc
<1>4. procs'[b].st = "booting"
  BY <1>1, <1>2 DEF SpawnChild, TypeOK
<1>5. Sole(b)' /\ OnPath'
  BY <1>3, <1>4 DEF Sole, OnPath, Live, Bound
<1>6. StartPhase'
  BY <1>2, <1>5 DEF StartPhase, Sole
<1> QED
  BY <1>2, <1>5, <1>6, StartGoesOn

LEMMA WeakensOnPath ==
  ASSUME One, Weakens, sock' = sock
  PROVE  OnPath'
BY DEF One, OnPath, Weakens

LEMMA StartStepOne ==
  ASSUME One, TypeOK, TypeOK', NoOverlap, StartStep
  PROVE  One'
<1> USE DEF memory, osVars, Running
<1>1. ASSUME start.pc \in {"connect", "probe", "reject", "ready"},
             NEW pc \in {"probe", "reject", "term", "termChild"},
             start' = [start EXCEPT !.pc = pc],
             start.pc = "ready" <=> pc = "termChild", Weakens,
             UNCHANGED <<sock, manifest, host, boot, inst, restart, upd>>
      PROVE  One'
  <2>1. start'.pc = pc /\ start'.pid = start.pid
    BY <1>1 DEF TypeOK, Starts
  <2>2. Sole(start.pid) /\ (start.pc # "ready" => manifest = start.pid)
    BY <1>1 DEF One, OneStart, StartPhase
  <2>3. Sole(start.pid)'
    BY <1>1, <2>1, <2>2 DEF Sole, Weakens
  <2>4. StartPhase'
    BY <1>1, <2>1, <2>2, <2>3 DEF StartPhase
  <2> QED
    BY <1>1, <2>1, <2>4, StartGoesOn, WeakensOnPath
<1>2. UNCHANGED procs => Weakens
  BY DEF Weakens, Live, Bound
<1>3. CASE ConnectManifest
  BY <1>1, <1>2, <1>3 DEF ConnectManifest
<1>12. CASE TerminateStale
  BY <1>1, <1>12, TermWeakens DEF TerminateStale
<1>4. CASE ProbeManifest
  <2>1. CASE Answering /\ Adopted(start.pid) /\ UNCHANGED procs
    <3>1. start.pid \in Pids /\ start.pid # Nil
      BY <1>4, StartPid, NilIsNoPid DEF ProbeManifest
    <3>2. Sole(start.pid) /\ manifest = start.pid /\ boot \in {"pending", "ok"}
      BY <1>4 DEF ProbeManifest, One, OneStart, StartPhase, TypeOK
    <3>3. /\ inst' = start.pid /\ start'.pc = "idle" /\ start.pc # "idle" /\ boot' = "ok"
          /\ UNCHANGED <<host, sock, manifest, restart, upd>>
      BY <1>4, <2>1, <3>2 DEF ProbeManifest, Adopted, Idle
    <3>4. Sole(inst)'
      BY <2>1, <3>2, <3>3 DEF Sole, Live
    <3> QED
      BY <1>2, <2>1, <3>1, <3>2, <3>3, <3>4, StartEnds, WeakensOnPath
  <2>2. CASE /\ start' = [start EXCEPT !.pc = "reject"]
             /\ UNCHANGED <<inst, old, poll, auto, boot>>
    BY <1>1, <1>2, <1>4, <2>2 DEF ProbeManifest
  <2> QED
    BY <1>4, <2>1, <2>2 DEF ProbeManifest
<1>5. CASE TermStaleDone
  <2>1. Nobody
    BY <1>5 DEF TermStaleDone, One, OneStart, StartPhase, Sole, Nobody, IsProcessAlive, Alive, Live
  <2> QED
    BY <1>5, <2>1, SpawnOne DEF TermStaleDone, Nobody
<1>6. ASSUME ~Answering, start.pc \in {"sockConnect", "sockProbe"}
      PROVE  \A q \in Pids : Live(q) => procs[q].st \in {"wedged", "stuck"}
  BY <1>6, NilIsNoPid DEF Answering, One, OneStart, StartPhase, OnPath, Bound, Kept, Serving
<1>7. CASE ConnectSocket
  <2>1. CASE Connectable
    <3>1. start'.pc = "sockProbe"
      BY <1>7, <2>1 DEF ConnectSocket, TypeOK, Starts
    <3>2. StartPhase'
      BY <1>7, <2>1, <3>1 DEF ConnectSocket, One, OneStart, StartPhase, Live, Kept
    <3>3. OnPath'
      BY <1>2, <1>7, <2>1, WeakensOnPath DEF ConnectSocket
    <3> QED
      BY <1>7, <3>1, <3>2, <3>3, StartGoesOn DEF ConnectSocket
  <2>2. CASE ~Connectable
    <3>1. ~Answering
      BY <2>2 DEF Connectable, Answering, Serving
    <3>2. \A q \in Pids : Live(q) => procs[q].st \in {"wedged", "stuck"}
      BY <1>6, <1>7, <3>1 DEF ConnectSocket
    <3> QED
      BY <1>7, <2>2, <3>2, SpawnOne DEF ConnectSocket
  <2> QED
    BY <2>1, <2>2
<1>8. CASE ProbeSocket
  <2>1. CASE Answering /\ manifest' = sock /\ Adopted(sock) /\ UNCHANGED procs
    <3>1. sock # Nil /\ Sole(sock)
      BY <1>8, <2>1 DEF ProbeSocket, Answering, One, OneStart, StartPhase, OnPath, Sole, Bound, Kept
    <3>2. boot \in {"pending", "ok"}
      BY <1>8 DEF ProbeSocket, One, OneStart, TypeOK
    <3>3. /\ inst' = sock /\ start'.pc = "idle" /\ start.pc # "idle" /\ boot' = "ok"
          /\ UNCHANGED <<host, sock, restart, upd>> /\ manifest' = sock
      BY <1>8, <2>1, <3>2 DEF ProbeSocket, Adopted, Idle
    <3>4. Sole(inst)'
      BY <2>1, <3>1, <3>3 DEF Sole, Live
    <3> QED
      BY <1>2, <2>1, <3>1, <3>3, <3>4, StartEnds, WeakensOnPath
  <2>2. CASE /\ ~Answering /\ BeginSpawn
             /\ UNCHANGED <<manifest, inst, old, poll, auto, boot>>
    <3>1. \A q \in Pids : Live(q) => procs[q].st \in {"wedged", "stuck"}
      BY <1>6, <1>8, <2>2 DEF ProbeSocket
    <3> QED
      BY <1>8, <2>2, <3>1, SpawnOne DEF ProbeSocket
  <2> QED
    BY <1>8, <2>1, <2>2 DEF ProbeSocket
<1>9. CASE SpawnReady
  <2>1. start.pid \in Pids /\ start.pid # Nil
    BY <1>9, StartPid, NilIsNoPid DEF SpawnReady
  <2>2. \A q \in Pids : procs'[q].st = procs[q].st
    BY <1>9, <2>1 DEF SpawnReady, TypeOK, Proc
  <2>3. Sole(start.pid) /\ boot \in {"pending", "ok"}
    BY <1>9 DEF SpawnReady, One, OneStart, StartPhase, TypeOK
  <2>4. /\ inst' = start.pid /\ manifest' = start.pid /\ start'.pc = "idle"
        /\ start.pc # "idle" /\ boot' = "ok" /\ UNCHANGED <<host, sock, restart, upd>>
    BY <1>9, <2>3 DEF SpawnReady, Idle
  <2>5. Weakens /\ Sole(inst)'
    BY <2>2, <2>3, <2>4 DEF Sole, Live, Weakens, Bound
  <2> QED
    BY <2>1, <2>4, <2>5, StartEnds, WeakensOnPath
<1>10. CASE SpawnTimeout
  BY <1>1, <1>10, TermWeakens DEF SpawnTimeout
<1>11. CASE SpawnFailed
  <2>1. Nobody
    BY <1>11 DEF SpawnFailed, One, OneStart, StartPhase, Sole, Nobody, IsProcessAlive, Alive, Live
  <2>2. Nobody' /\ OnPath'
    BY <1>2, <1>11, <2>1, WeakensOnPath DEF SpawnFailed, Nobody, Live
  <2>3. /\ inst = Nil /\ (~NoRestart => boot = "ok")
    BY <1>11 DEF SpawnFailed, One, OneStart, OneInstance
  <2>4. /\ start.pc # "idle" /\ start'.pc = "idle" /\ UNCHANGED <<host, restart, upd, inst>>
        /\ boot' = IF boot = "pending" THEN "none" ELSE boot
    BY <1>11 DEF SpawnFailed, Idle
  <2> QED
    BY <2>2, <2>3, <2>4, StartEnds
<1> QED
  BY <1>3, <1>4, <1>5, <1>7, <1>8, <1>9, <1>10, <1>11, <1>12 DEF StartStep

\* While an update is on, nothing else is.
LEMMA UpdateAlone ==
  ASSUME One, TypeOK, upd.pc # "idle"
  PROVE  /\ host = "up" /\ start.pc = "idle" /\ NoRestart /\ boot = "ok"
         /\ upd.pid \in Pids /\ upd.pid # Nil /\ upd.man = upd.pid /\ inst \in {Nil, upd.pid}
         /\ upd.pc # "prepare" => upd.succ \in Pids
<1>1. upd.pid \in Pids /\ (upd.pc # "prepare" => upd.succ \in Pids)
  BY DEF TypeOK, Updates, NoUpdate
<1> QED
  BY <1>1, NilIsNoPid DEF One, OneAlone, OneStart, OneInstance, OneUpdate, TypeOK

LEMMA UpdateGoesOn ==
  ASSUME One, TypeOK, upd.pc # "idle", upd'.pc # "idle", upd'.pid = upd.pid,
         upd'.man = upd.man, OnPath', UNCHANGED <<host, boot, inst, start, restart, stopping>>,
         upd'.pc \in {"ack", "waitExit", "probe"},
         Pair(upd.pid, upd.succ)' /\ procs'[upd'.succ].pred = upd.pid,
         upd'.pc = "ack" => /\ Serving(upd.pid)' /\ procs'[upd'.succ].st = "heir"
                            /\ inst = upd.pid,
         upd'.pc = "waitExit" =>
           \/ Closing(upd.pid)' /\ procs'[upd'.succ].st = "heir"
           \/ Dead(upd.pid)' /\ procs'[upd'.succ].st \in {"heir", "serving"},
         upd'.pc = "probe" => Dead(upd.pid)' /\ procs'[upd'.succ].st \in {"heir", "serving"}
  PROVE  One'
<1>1. OneAlone' /\ OneStart' /\ OneInstance' /\ OneCall'
  BY UpdateAlone, RestartsSame
     DEF One, OneAlone, OneStart, StartPhase, OneInstance, AtRest, Terminating, NoRestart
<1>2. OneUpdate'
  BY DEF One, OneUpdate
<1> QED
  BY <1>1, <1>2 DEF One

LEMMA UpdateEnds ==
  ASSUME One, TypeOK, upd.pc # "idle", upd'.pc = "idle", OnPath',
         UNCHANGED <<host, boot, start, restart>>,
         inst' # Nil => Sole(inst)' /\ manifest' = inst', inst' = Nil => Nobody'
  PROVE  One'
BY UpdateAlone, RestartsSame
   DEF One, OneAlone, OneStart, StartPhase, OneInstance, OneUpdate, AtRest, Terminating, NoRestart

LEMMA UpdateStepOne ==
  ASSUME One, TypeOK, UpdateStep
  PROVE  One'
<1> USE DEF memory
<1>0. /\ procs \in [Pids -> Proc] /\ upd.pc # "idle"
      /\ upd.pid \in Pids /\ upd.pid # Nil /\ upd.man = upd.pid /\ inst \in {Nil, upd.pid}
      /\ upd.pc # "prepare" => upd.succ \in Pids
  <2>1. upd.pc # "idle"
    BY DEF UpdateStep, PrepareUpgrade, PrepareFails, HandoffAcked, HandoffFails,
           PredecessorGone, Updated
  <2> QED
    BY <2>1, UpdateAlone DEF TypeOK
<1>1. CASE PrepareUpgrade
  <2>1. PICK b \in Pids : b = NewPid /\ procs[b].st = "unused"
    BY <1>1, NewPidUnused DEF PrepareUpgrade, Used
  <2>2. /\ procs' = [procs EXCEPT ![b] = [st |-> "heir", old |-> FALSE,
                        pred |-> sock, group |-> procs[sock].group, watch |-> "none"]]
        /\ upd.pc = "prepare" /\ Answering
        /\ upd' = [upd EXCEPT !.pc = "ack", !.succ = b]
    BY <1>1, <2>1 DEF PrepareUpgrade
  <2>3. /\ procs'[b].st = "heir" /\ procs'[b].pred = sock
        /\ \A q \in Pids : q # b => procs'[q] = procs[q]
    BY <1>0, <2>2
  <2>4. sock = upd.pid /\ Serving(upd.pid) /\ Sole(upd.pid) /\ inst = upd.pid
    <3>1. Sole(upd.pid) /\ (inst = Nil => Nobody)
      BY <2>2 DEF One, OneUpdate
    <3>2. sock \in Pids /\ Serving(sock) /\ Live(sock)
      BY <2>2 DEF Answering, TypeOK, Maybe, Live, Serving
    <3> QED
      BY <1>0, <3>1, <3>2 DEF Sole, Nobody
  <2>5. upd'.pc = "ack" /\ upd'.succ = b /\ upd'.pid = upd.pid /\ upd'.man = upd.man
    <3>1. upd \in [pc : {"prepare"}, pid : Pids, succ : {Nil}, man : Maybe]
      BY <2>2 DEF TypeOK, Updates, NoUpdate
    <3> QED
      BY <2>2, <3>1
  <2>6. b # upd.pid
    BY <2>1, <2>4 DEF Serving
  <2>7. OnPath' /\ Serving(upd.pid)'
    BY <1>0, <1>1, <2>3, <2>4, <2>6 DEF PrepareUpgrade, One, OnPath, Serving, Bound
  <2>8. Pair(upd.pid, upd.succ)'
    BY <2>3, <2>4, <2>5 DEF Pair, Sole, Live
  <2> QED
    BY <1>0, <1>1, <2>3, <2>4, <2>5, <2>7, <2>8, UpdateGoesOn DEF PrepareUpgrade
<1>2. CASE PrepareFails
  <2>1. /\ upd'.pc = "idle" /\ manifest' = upd.pid
        /\ UNCHANGED <<procs, sock, host, boot, inst, start, restart>>
    BY <1>0, <1>2 DEF PrepareFails, RestoreOnFailure, NoUpdate
  <2>2. Sole(upd.pid) /\ (inst = Nil => Nobody)
    BY <1>2 DEF PrepareFails, One, OneUpdate
  <2>3. OnPath' /\ (inst # Nil => Sole(inst)') /\ (inst = Nil => Nobody')
    BY <1>0, <2>1, <2>2 DEF One, OnPath, Sole, Nobody, Live, Bound
  <2> QED
    BY <1>0, <2>1, <2>3, UpdateEnds
<1>3. CASE HandoffAcked
  <2>1. /\ upd.pc = "ack" /\ Pair(upd.pid, upd.succ) /\ procs[upd.succ].pred = upd.pid
        /\ procs[upd.succ].st = "heir" /\ Serving(upd.pid)
    BY <1>3 DEF HandoffAcked, One, OneUpdate
  <2>2. procs' = [procs EXCEPT ![upd.pid].st = "closing"]
    BY <1>3, <2>1 DEF HandoffAcked
  <2>3. /\ procs'[upd.pid].st = "closing"
        /\ \A q \in Pids : q # upd.pid => procs'[q] = procs[q]
        /\ \A q \in Pids : procs'[q].pred = procs[q].pred
    BY <1>0, <2>2 DEF Proc
  <2>4. /\ upd'.pc = "waitExit" /\ upd'.succ = upd.succ /\ upd'.pid = upd.pid
        /\ upd'.man = upd.man
    <3>1. upd \in [pc : {"ack", "waitExit", "probe"}, pid : Pids, succ : Pids, man : Maybe]
      BY <2>1 DEF TypeOK, Updates, NoUpdate
    <3> QED
      BY <1>3, <3>1 DEF HandoffAcked
  <2>5. upd.succ # upd.pid /\ upd.succ \in Pids
    BY <1>0, <2>1 DEF Serving
  <2>6. OnPath'
    BY <1>0, <1>3, <2>3 DEF HandoffAcked, One, OnPath, Bound
  <2>7. Pair(upd.pid, upd.succ)'
    BY <2>1, <2>3, <2>4 DEF Pair, Live
  <2>8. Closing(upd.pid)' /\ procs'[upd'.succ].st = "heir" /\ procs'[upd'.succ].pred = upd.pid
    BY <2>1, <2>3, <2>4, <2>5 DEF Closing
  <2> QED
    BY <1>0, <1>3, <2>4, <2>6, <2>7, <2>8, UpdateGoesOn DEF HandoffAcked
<1>4. CASE HandoffFails
  <2>1. /\ upd.pc = "ack" /\ Pair(upd.pid, upd.succ) /\ procs[upd.succ].pred = upd.pid
        /\ procs[upd.succ].st = "heir" /\ Serving(upd.pid) /\ inst = upd.pid
    BY <1>4 DEF HandoffFails, One, OneUpdate
  <2>2. /\ procs' = [procs EXCEPT ![upd.succ] = Signalled(procs[upd.succ], "SIGKILL")]
        /\ upd'.pc = "idle" /\ manifest' = upd.pid
        /\ UNCHANGED <<sock, host, boot, inst, start, restart>>
    BY <1>0, <1>4, <2>1 DEF HandoffFails, RestoreOnFailure, NoUpdate
  <2>3. upd.succ \in Pids /\ Signalled(procs[upd.succ], "SIGKILL").st = "dead"
    BY <1>0, <2>1 DEF Signalled, Proc
  <2>4. /\ procs'[upd.succ].st = "dead"
        /\ \A q \in Pids : q # upd.succ => procs'[q] = procs[q]
    BY <1>0, <2>2, <2>3
  <2>5. OnPath' /\ Sole(inst)'
    BY <2>1, <2>2, <2>4 DEF One, OnPath, Sole, Pair, Live, Bound
  <2> QED
    BY <1>0, <2>1, <2>2, <2>5, UpdateEnds
<1>5. CASE PredecessorGone
  <2>1. /\ upd.pc = "waitExit" /\ Pair(upd.pid, upd.succ) /\ procs[upd.succ].pred = upd.pid
        /\ \/ Closing(upd.pid) /\ procs[upd.succ].st = "heir"
           \/ Dead(upd.pid) /\ procs[upd.succ].st \in {"heir", "serving"}
    BY <1>5 DEF PredecessorGone, One, OneUpdate
  <2>2. procs' = [procs EXCEPT ![upd.pid] = Signalled(procs[upd.pid], "SIGKILL")]
    BY <1>5 DEF PredecessorGone, KillPredecessor
  <2>3. Signalled(procs[upd.pid], "SIGKILL").st = "dead" /\ upd.pid # upd.succ
    BY <1>0, <2>1 DEF Signalled, Proc, Closing, Dead
  <2>4. /\ procs'[upd.pid].st = "dead"
        /\ \A q \in Pids : q # upd.pid => procs'[q] = procs[q]
    BY <1>0, <2>2, <2>3
  <2>5. /\ upd'.pc = "probe" /\ upd'.succ = upd.succ /\ upd'.pid = upd.pid
        /\ upd'.man = upd.man
    <3>1. upd \in [pc : {"ack", "waitExit", "probe"}, pid : Pids, succ : Pids, man : Maybe]
      BY <2>1 DEF TypeOK, Updates, NoUpdate
    <3> QED
      BY <1>5, <3>1 DEF PredecessorGone
  <2>6. OnPath'
    BY <1>0, <1>5, <2>4 DEF PredecessorGone, One, OnPath, Bound
  <2>7. Pair(upd.pid, upd.succ)'
    BY <2>1, <2>4, <2>5 DEF Pair, Live
  <2>8. /\ Dead(upd.pid)' /\ procs'[upd'.succ].pred = upd.pid
        /\ procs'[upd'.succ].st \in {"heir", "serving"}
    BY <1>0, <2>1, <2>3, <2>4, <2>5 DEF Dead
  <2> QED
    BY <1>0, <1>5, <2>5, <2>6, <2>7, <2>8, UpdateGoesOn DEF PredecessorGone
<1>6. CASE Updated
  <2>1. Pair(upd.pid, upd.succ) /\ Dead(upd.pid) /\ upd.succ \in Pids
    BY <1>0, <1>6 DEF Updated, One, OneUpdate
  <2>2. /\ upd'.pc = "idle" /\ inst' = upd.succ /\ manifest' = upd.succ
        /\ UNCHANGED <<procs, sock, host, boot, start, restart>>
    BY <1>0, <1>6 DEF Updated, NoUpdate
  <2>3. OnPath' /\ Sole(inst)' /\ inst' # Nil
    BY <2>1, <2>2, NilIsNoPid DEF One, OnPath, Sole, Pair, Live, Bound, Dead
  <2> QED
    BY <1>0, <2>2, <2>3, UpdateEnds
<1> QED
  BY <1>1, <1>2, <1>3, <1>4, <1>5, <1>6 DEF UpdateStep

LEMMA StopOne ==
  ASSUME One, TypeOK, NEW k \in Calls, Stop(k), host = "up", boot = "ok", start.pc = "idle",
         upd.pc = "idle", restart[k].pc # "term",
         \A j \in Calls : j # k => restart[j].pc = "idle",
         UNCHANGED <<sock, host, boot, upd>>
  PROVE  One'
<1>1. inst' = Nil
  BY DEF Stop
<1>2. ~Terminating
  BY DEF Terminating
<1>3. CASE inst = Nil
  <2>1. Nobody
    BY <1>2, <1>3 DEF One, OneInstance, AtRest
  <2>2. /\ procs' = procs /\ Ensure(FALSE, Nil, manifest)
        /\ restart' = [restart EXCEPT ![k] = Idle]
    BY <1>3, Zenon DEF Stop
  <2>3. Nobody'
    BY <2>1, <2>2 DEF Nobody, Live
  <2>4. \A j \in Calls : restart'[j].pc = "idle"
    BY <2>2 DEF Idle, TypeOK
  <2>5. OneCall' /\ ~Terminating' /\ NoRestart'
    BY <2>4 DEF OneCall, Terminating, NoRestart
  <2> QED
    BY <1>1, <2>2, <2>3, <2>5, EnsureOne
<1>4. CASE inst # Nil
  <2>1. /\ procs' = SignalTree(inst, "SIGTERM") /\ UNCHANGED <<start, manifest>>
        /\ restart' = [restart EXCEPT ![k] = [pc |-> "term", pid |-> inst]]
    BY <1>4 DEF Stop
  <2>2. /\ restart'[k].pc = "term" /\ restart'[k].pid = inst
        /\ \A j \in Calls : j # k => restart'[j].pc = "idle"
    BY <2>1 DEF TypeOK
  <2>3. Weakens
    BY <2>1, TermWeakens
  <2>4. Sole(inst) /\ manifest = inst
    BY <1>4 DEF One, OneInstance
  <2>5. \A p \in Pids : Live(p)' => p = inst
    BY <2>3, <2>4 DEF Sole, Weakens
  <2>6. OnPath'
    BY <2>3, WeakensOnPath
  <2>7. OneCall' /\ Terminating'
    BY <2>2 DEF OneCall, Terminating
  <2>8. OneInstance'
    BY <1>1, <2>1, <2>2, <2>4, <2>5, <2>7 DEF OneInstance, AtRest, Sole
  <2>9. OneAlone' /\ OneStart' /\ OneUpdate'
    BY <2>1 DEF OneAlone, OneStart, StartPhase, OneUpdate
  <2> QED
    BY <2>6, <2>7, <2>8, <2>9 DEF One
<1> QED
  BY <1>3, <1>4

LEMMA BeginUpdateOne ==
  ASSUME One, TypeOK, NoOverlap, BeginUpdate, host = "up",
         UNCHANGED <<procs, sock, manifest, host, boot, inst, start, restart>>
  PROVE  One'
<1>1. /\ inst # Nil /\ NoRestart /\ upd.pc = "idle" /\ stopping' = TRUE
      /\ upd'.pc = "prepare" /\ upd'.pid = inst /\ upd'.man = manifest
  BY DEF BeginUpdate, NoOverlap
<1>2. start.pc = "idle" /\ boot = "ok" /\ Sole(inst) /\ manifest = inst
  BY <1>1 DEF One, OneStart, OneInstance
<1>3. Sole(upd.pid)' /\ OnPath'
  BY <1>1, <1>2 DEF One, OnPath, Sole, Live, Bound
<1>4. OneAlone' /\ OneStart' /\ OneInstance' /\ OneCall'
  BY <1>1, <1>2, RestartsSame
     DEF One, OneAlone, OneStart, StartPhase, OneInstance, AtRest, NoRestart, Terminating
<1>5. OneUpdate'
  BY <1>1, <1>2, <1>3 DEF OneUpdate
<1> QED
  BY <1>3, <1>4, <1>5 DEF One

\* What One speaks of in a process.
Alike == \A q \in Pids : /\ procs'[q].st = procs[q].st
                         /\ procs'[q].pred = procs[q].pred

LEMMA AlikeProcs ==
  ASSUME Alike
  PROVE  /\ \A q \in Pids : /\ Live(q)' <=> Live(q)
                            /\ Serving(q)' <=> Serving(q)
                            /\ Kept(q)' <=> Kept(q)
                            /\ Closing(q)' <=> Closing(q)
                            /\ Dead(q)' <=> Dead(q)
         /\ Nobody' <=> Nobody
         /\ sock' = sock /\ OnPath => OnPath'
<1>1. \A q \in Pids : /\ Live(q)' <=> Live(q)
                      /\ Serving(q)' <=> Serving(q)
                      /\ Kept(q)' <=> Kept(q)
                      /\ Bound(q)' <=> Bound(q)
                      /\ Closing(q)' <=> Closing(q)
                      /\ Dead(q)' <=> Dead(q)
  BY DEF Alike, Live, Serving, Kept, Bound, Closing, Dead
<1> QED
  BY <1>1 DEF Nobody, OnPath

\* A step that concerns none of what One speaks of.
LEMMA SameOne ==
  ASSUME One, TypeOK, Alike,
         UNCHANGED <<sock, manifest, host, boot, inst, start, restart, upd, stopping>>
  PROVE  One'
<1>1. OnPath' /\ OneAlone' /\ OneStart' /\ OneInstance' /\ OneCall'
  BY AlikeProcs, RestartsSame
     DEF One, OneAlone, OneStart, StartPhase, OneInstance, AtRest, Sole
<1>2. OneUpdate'
  BY AlikeProcs, UpdateAlone DEF One, OneUpdate, Sole, Pair, Alike
<1> QED
  BY <1>1, <1>2 DEF One

\* The supervisor learns that its instance is gone.
LEMMA InstanceLost ==
  ASSUME One, TypeOK, Alike, host = "up", inst # Nil, ~Live(inst), inst' = Nil,
         UNCHANGED <<sock, host, boot, start, restart, upd>>
  PROVE  One'
<1>1. start.pc = "idle" /\ ~Terminating
  BY DEF One, OneStart, OneInstance
<1>2. upd.pc \in {"idle", "prepare"} => Nobody
  BY DEF One, OneInstance, OneUpdate, Sole, Nobody
<1>3. upd.pc # "ack"
  BY DEF One, OneUpdate, Live, Serving
<1>4. OnPath' /\ OneAlone' /\ OneStart' /\ OneInstance' /\ OneCall'
  <2>1. OnPath' /\ OneCall'
    BY AlikeProcs, RestartsSame DEF One
  <2>2. OneAlone' /\ OneStart'
    BY <1>1 DEF OneAlone, OneStart, StartPhase
  <2>3. \A k \in Calls : restart'[k].pc # "term"
    BY <1>1 DEF Terminating
  <2>4. OneInstance'
    BY <1>1, <1>2, <2>3, AlikeProcs, RestartsSame DEF One, OneInstance, AtRest
  <2> QED
    BY <2>1, <2>2, <2>4
<1>5. OneUpdate'
  BY <1>2, <1>3, AlikeProcs, UpdateAlone DEF One, OneUpdate, Sole, Pair, Alike
<1> QED
  BY <1>4, <1>5 DEF One

LEMMA NextCall ==
  ASSUME TypeOK, Happens("restart")
  PROVE  used'["restart"] \in Calls
BY SupervisorAssumption DEF TypeOK, Happens, Events, Limit, Calls

LEMMA CommandOne ==
  ASSUME One, TypeOK, NoOverlap, RestartStep \/ Restart \/ Update \/ AutoUpdate
  PROVE  One'
<1> USE DEF memory, osVars
<1>1. ASSUME NEW k \in Calls, RestartAwaited(k)
      PROVE  One'
  <2>1. restart[k].pc = "await" /\ \A j \in Calls : j # k => restart[j].pc = "idle"
    BY <1>1 DEF RestartAwaited, One, OneCall
  <2>2. boot = "ok" /\ upd.pc = "idle"
    BY <2>1 DEF One, OneInstance, NoRestart
  <2> QED
    BY <1>1, <2>1, <2>2, StopOne DEF RestartAwaited
<1>2. ASSUME NEW k \in Calls, Restarted(k)
      PROVE  One'
  <2>1. /\ restart[k].pc = "term" /\ host' = "up" /\ Ensure(FALSE, inst, Nil)
        /\ ~IsProcessAlive(restart[k].pid) /\ restart' = [restart EXCEPT ![k] = Idle]
        /\ UNCHANGED <<procs, boot, inst, upd>>
    BY <1>2 DEF Restarted
  <2>2. Terminating /\ ~NoRestart /\ \A j \in Calls : j # k => restart[j].pc = "idle"
    BY <2>1 DEF Terminating, NoRestart, One, OneCall
  <2>3. /\ inst = Nil /\ boot = "ok" /\ upd.pc = "idle" /\ Sole(restart[k].pid)
        /\ start.pc = "idle"
    BY <2>1, <2>2 DEF One, OneInstance, OneStart
  <2>4. Nobody'
    BY <2>1, <2>3 DEF Sole, Nobody, IsProcessAlive, Alive, Live
  <2>5. \A j \in Calls : restart'[j].pc = "idle"
    BY <2>1, <2>2 DEF Idle, TypeOK
  <2>6. OneCall' /\ ~Terminating' /\ NoRestart'
    BY <2>5 DEF OneCall, Terminating, NoRestart
  <2> QED
    BY <2>1, <2>3, <2>4, <2>6, EnsureOne
<1>3. CASE Restart
  <2>1. upd.pc = "idle" /\ NoRestart /\ boot = "ok" /\ host = "up"
    BY <1>3 DEF Restart, NoOverlap
  <2>2. PICK k \in Calls : k = used'["restart"]
    BY <1>3, NextCall DEF Restart
  <2>3. \A j \in Calls : restart[j].pc = "idle"
    BY <2>1 DEF NoRestart
  <2>4. CASE start.pc # "idle"
    <3>1. restart' = [restart EXCEPT ![k] = [pc |-> "await", pid |-> Nil]]
          /\ UNCHANGED <<procs, sock, manifest, host, boot, inst, start, upd, stopping>>
      BY <1>3, <2>2, <2>4 DEF Restart
    <3>2. inst = Nil /\ OnPath
      BY <2>4 DEF One, OneStart
    <3>3. StartPhase' /\ OnPath'
      BY <3>1 DEF One, OnPath, OneStart, StartPhase, Sole, Live, Bound, Kept
    <3>4. restart'[k].pc = "await" /\ \A j \in Calls : j # k => restart'[j].pc = "idle"
      BY <2>3, <3>1 DEF TypeOK
    <3>5. OneCall' /\ ~Terminating' /\ \A j \in Calls : restart'[j].pc # "term"
      BY <3>4 DEF OneCall, Terminating
    <3>6. OneAlone' /\ OneStart' /\ OneInstance' /\ OneUpdate'
      BY <2>1, <2>4, <3>1, <3>2, <3>3, <3>5
         DEF One, OneAlone, OneStart, OneInstance, OneUpdate, AtRest
    <3> QED
      BY <3>3, <3>5, <3>6 DEF One
  <2>5. CASE start.pc = "idle"
    BY <1>3, <2>1, <2>2, <2>3, <2>5, StopOne DEF Restart
  <2> QED
    BY <2>4, <2>5
<1>4. CASE Update
  BY <1>4, BeginUpdateOne DEF Update
<1>5. CASE AutoUpdate
  BY <1>5, BeginUpdateOne, SameOne DEF AutoUpdate, Alike
<1> QED
  BY <1>1, <1>2, <1>3, <1>4, <1>5 DEF RestartStep

LEMMA HostOne ==
  ASSUME One, TypeOK, NoOverlap,
         LivenessPoll \/ Request \/ HostBoots \/ WindowPasses \/ HostCrash
  PROVE  One'
<1> USE DEF memory, osVars
<1>1. CASE LivenessPoll
  <2>1. /\ host = "up" /\ poll # Nil /\ ~IsProcessAlive(poll)
        /\ UNCHANGED <<procs, sock, host, boot, start, restart, upd, stopping>>
    BY <1>1 DEF LivenessPoll
  <2>2. CASE inst # poll
    BY <1>1, <2>1, <2>2, SameOne DEF LivenessPoll, Alike
  <2>3. CASE inst = poll
    <3>1. inst' = Nil /\ inst # Nil
      BY <1>1, <2>1, <2>3 DEF LivenessPoll
    <3>2. ~Live(inst)
      BY <2>1, <2>3 DEF IsProcessAlive, Alive, Live
    <3> QED
      BY <2>1, <3>1, <3>2, InstanceLost DEF Alike
  <2> QED
    BY <2>2, <2>3
<1>2. CASE Request
  <2>1. boot = "none" /\ host = "up"
        /\ UNCHANGED <<procs, sock, host, inst, restart, upd, stopping>>
    BY <1>2 DEF Request
  <2>2. inst = Nil /\ upd.pc = "idle" /\ NoRestart /\ start.pc = "idle"
    BY <2>1 DEF One, OneStart, OneInstance, OneUpdate
  <2>3. CASE circuit
    BY <1>2, <2>1, <2>3, SameOne DEF Request, Alike
  <2>4. CASE ~circuit
    <3>1. boot' = "pending" /\ Ensure(circuit, Nil, manifest)
      BY <1>2, <2>2, <2>4 DEF Request
    <3>2. ~Terminating /\ NoRestart' /\ OneCall' /\ ~Terminating'
      BY <2>1, <2>2, RestartsSame DEF One, NoRestart, Terminating
    <3>3. Nobody'
      BY <2>1, <2>2, <3>2 DEF One, OneInstance, AtRest, Nobody, Live
    <3> QED
      BY <2>1, <2>2, <3>1, <3>2, <3>3, EnsureOne
  <2> QED
    BY <2>3, <2>4
<1>3. CASE HostBoots
  <2>1. /\ host = "down" /\ host' = "up" /\ boot' = "pending" /\ BeginStart(manifest)
        /\ UNCHANGED <<procs, sock, inst, restart, upd>>
    BY <1>3 DEF HostBoots
  <2>2. /\ inst = Nil /\ NoRestart /\ upd.pc = "idle"
        /\ \A p \in Pids : Live(p) => p = manifest \/ (manifest = Nil /\ Kept(p))
    BY <2>1 DEF One, OneAlone
  <2>3. OnPath' /\ \A q \in Pids : (Live(q)' <=> Live(q)) /\ (Kept(q)' <=> Kept(q))
    BY <2>1 DEF One, OnPath, Live, Bound, Kept
  <2>4. StartPhase' /\ start'.pc # "idle"
    <3>1. CASE manifest # Nil /\ IsProcessAlive(manifest)
      <4>1. start'.pc = "connect" /\ start'.pid = manifest /\ manifest' = manifest
        BY <2>1, <3>1 DEF BeginStart
      <4> QED
        BY <2>2, <2>3, <3>1, <4>1 DEF StartPhase, Sole
    <3>2. CASE ~(manifest # Nil /\ IsProcessAlive(manifest))
      <4>1. start'.pc = "sockConnect"
        BY <2>1, <3>2 DEF BeginStart
      <4>2. \A p \in Pids : Live(p) => Kept(p)
        BY <2>2, <3>2, NilIsNoPid DEF IsProcessAlive, Alive, Live
      <4> QED
        BY <2>3, <4>1, <4>2 DEF StartPhase
    <3> QED
      BY <3>1, <3>2
  <2>5. NoRestart' /\ OneCall' /\ \A k \in Calls : restart'[k].pc # "term"
    BY <2>1, <2>2, RestartsSame DEF One, NoRestart
  <2>6. ~Terminating'
    BY <2>5 DEF Terminating
  <2> QED
    BY <2>1, <2>2, <2>3, <2>4, <2>5, <2>6
       DEF One, OneAlone, OneStart, OneInstance, OneUpdate, AtRest
<1>4. CASE WindowPasses
  BY <1>4, SameOne DEF WindowPasses, Alike
<1>5. CASE HostCrash
  <2>1. /\ host = "up" /\ start.pc = "idle" /\ upd.pc = "idle" /\ host' = "down"
        /\ inst' = Nil /\ boot' = "none" /\ UNCHANGED <<sock, manifest>>
        /\ start'.pc = "idle" /\ upd'.pc = "idle"
        /\ \A k \in Calls : restart'[k].pc = "idle"
    BY <1>5 DEF HostCrash, NoOverlap, Idle, NoUpdate
  <2>2. \A q \in Pids : procs'[q].st = procs[q].st
    BY <1>5 DEF HostCrash, TypeOK, Proc
  <2>3. OnPath' /\ \A q \in Pids : (Live(q)' <=> Live(q))
    BY <2>1, <2>2 DEF One, OnPath, Live, Bound
  <2>4. \A p \in Pids : Live(p) => p = manifest
    BY <2>1 DEF One, OneInstance, AtRest, Sole, Nobody, Terminating
  <2>5. NoRestart' /\ OneCall' /\ ~Terminating'
    BY <2>1 DEF NoRestart, OneCall, Terminating
  <2> QED
    BY <2>1, <2>3, <2>4, <2>5
       DEF One, OneAlone, OneStart, StartPhase, OneInstance, OneUpdate, AtRest
<1> QED
  BY <1>1, <1>2, <1>3, <1>4, <1>5

LEMMA ExitOne ==
  ASSUME One, TypeOK, NEW p \in Pids, ExitEvent(p)
  PROVE  One'
<1>1. /\ host = "up" /\ Dead(p) /\ procs' = [procs EXCEPT ![p].watch = "none"]
      /\ UNCHANGED <<sock, host, boot, restart, upd>>
  BY DEF ExitEvent
<1>2. Alike
  BY <1>1 DEF Alike, TypeOK, Proc
<1>3. CASE procs[p].watch = "early" \/ inst # p
  BY <1>1, <1>2, <1>3, SameOne DEF ExitEvent
<1>4. CASE ~(procs[p].watch = "early" \/ inst # p)
  <2>1. inst = p /\ inst # Nil /\ inst' = Nil /\ ~Live(inst)
    BY <1>1, <1>4, NilIsNoPid DEF ExitEvent, Dead, Live
  <2>2. CASE stopping
    BY <1>1, <1>2, <1>4, <2>1, <2>2, InstanceLost DEF ExitEvent
  <2>3. CASE ~stopping
    <3>1. AfterCrash(crashes + 1)
      BY <1>4, <2>3 DEF ExitEvent
    <3>2. Ensure(circuit', Nil, Nil)
      BY <3>1 DEF AfterCrash
    <3>3. /\ upd.pc = "idle" /\ boot = "ok" /\ ~Terminating /\ start.pc = "idle"
          /\ Sole(inst) /\ OneCall
      BY <2>1, <2>3 DEF One, OneStart, OneInstance, OneUpdate
    <3>4. Nobody'
      BY <1>2, <2>1, <3>3, AlikeProcs DEF Sole, Nobody
    <3> QED
      BY <1>1, <2>1, <3>2, <3>3, <3>4, RestartsSame, EnsureOne
  <2> QED
    BY <2>2, <2>3
<1> QED
  BY <1>3, <1>4

\* Beside a process that is bound there is only the heir it has handed to.
LEMMA NobodyElseBound ==
  ASSUME One, TypeOK, NEW p \in Pids, Live(p), ~Bound(p), NEW q \in Pids, Bound(q)
  PROVE  upd.pc = "ack" /\ p = upd.succ
<1>1. Live(q) /\ q # p /\ ~Kept(p)
  BY DEF Live, Bound, Kept
<1>2. host = "up"
  BY <1>1, NilIsNoPid DEF One, OneAlone, TypeOK
<1>3. start.pc = "idle"
  <2>1. start.pc \in {"idle", "connect", "probe", "reject", "term", "ready", "termChild", "sockConnect",
                      "sockProbe"}
    BY DEF TypeOK, Starts
  <2> QED
    BY <1>1, <2>1 DEF One, OneStart, StartPhase, Sole
<1>4. CASE upd.pc = "idle"
  BY <1>1, <1>2, <1>3, <1>4 DEF One, OneInstance, AtRest, Sole, Nobody, Terminating
<1>5. CASE upd.pc # "idle"
  <2>1. upd.pc \in {"prepare", "ack", "waitExit", "probe"} /\ upd.pid \in Pids
    BY <1>5 DEF TypeOK, Updates, NoUpdate
  <2>2. upd.pc # "prepare"
    BY <1>1 DEF One, OneUpdate, Sole
  <2>3. p \in {upd.pid, upd.succ} /\ q \in {upd.pid, upd.succ}
    BY <1>1, <2>1, <2>2 DEF One, OneUpdate, Pair
  <2>4. upd.pc \in {"waitExit", "probe"} => FALSE
    BY <1>1, <2>3 DEF One, OneUpdate, Live, Bound, Closing, Dead
  <2>5. upd.pc = "ack" => p = upd.succ
    BY <2>3 DEF One, OneUpdate, Serving, Bound
  <2> QED
    BY <2>1, <2>2, <2>4, <2>5
<1> QED
  BY <1>4, <1>5

LEMMA BindsOne ==
  ASSUME One, TypeOK, NoOverlap, NEW p \in Pids, Binds(p)
  PROVE  One'
<1>1. /\ procs[p].st \in {"booting", "heir"}
      /\ procs[p].st = "heir" => PredecessorOut(procs[p].pred)
      /\ sock' = p
      /\ UNCHANGED <<manifest, host, boot, inst, start, restart, upd, stopping>>
  BY DEF Binds, memory
<1>2. Live(p) /\ ~Serving(p) /\ ~Bound(p) /\ ~Kept(p) /\ ~Closing(p) /\ ~Dead(p)
  BY <1>1 DEF Live, Serving, Bound, Kept, Closing, Dead
<1>3. /\ procs'[p].st = "serving" /\ procs'[p].pred = procs[p].pred
      /\ \A q \in Pids : q # p => procs'[q] = procs[q]
  BY DEF Binds, SetState, TypeOK, Proc
<1>4. \A q \in Pids : /\ Live(q)' <=> Live(q)
                      /\ Serving(q)' <=> Serving(q) \/ q = p
                      /\ Bound(q)' <=> Bound(q) \/ q = p
                      /\ Kept(q)' <=> Kept(q) \/ q = p
                      /\ Closing(q)' <=> Closing(q)
                      /\ Dead(q)' <=> Dead(q)
                      /\ procs'[q].pred = procs[q].pred
  BY <1>1, <1>3 DEF Live, Serving, Bound, Kept, Closing, Dead
<1>5. Nobody' <=> Nobody
  BY <1>4 DEF Nobody
<1>6. upd.pc # "ack"
  <2> SUFFICES ASSUME upd.pc = "ack" PROVE FALSE
    OBVIOUS
  <2>1. /\ Serving(upd.pid) /\ procs[upd.succ].pred = upd.pid /\ p \in {upd.pid, upd.succ}
    BY <1>2 DEF One, OneUpdate, Pair
  <2>2. procs[p].st = "heir" /\ procs[p].pred = upd.pid
    BY <1>2, <2>1 DEF One, OneUpdate
  <2> QED
    BY <1>1, <2>1, <2>2 DEF PredecessorOut, Serving, Dead, Closing, NoOverlap
<1>7. upd.pc = "waitExit" => Dead(upd.pid) /\ p = upd.succ
  <2> SUFFICES ASSUME upd.pc = "waitExit" PROVE Dead(upd.pid) /\ p = upd.succ
    OBVIOUS
  <2>1. /\ procs[upd.succ].pred = upd.pid /\ p \in {upd.pid, upd.succ}
        /\ Closing(upd.pid) \/ Dead(upd.pid)
        /\ procs[upd.succ].st \in {"heir", "serving"}
    BY <1>2 DEF One, OneUpdate, Pair
  <2>2. p = upd.succ /\ procs[p].st = "heir" /\ procs[p].pred = upd.pid
    BY <1>1, <1>2, <2>1
  <2>3. PredecessorOut(upd.pid)
    BY <1>1, <2>2
  <2> QED
    BY <2>1, <2>2, <2>3 DEF PredecessorOut, Closing, NoOverlap
<1>8. OnPath'
  BY <1>1, <1>2, <1>4, <1>6, NobodyElseBound DEF OnPath
<1>13. /\ OneCall' /\ (Terminating' <=> Terminating) /\ (NoRestart' <=> NoRestart)
       /\ restart' = restart
  BY <1>1, RestartsSame DEF One
<1>9. OneAlone'
  BY <1>1, <1>2, <1>4, <1>13 DEF One, OneAlone
<1>10. OneStart'
  BY <1>1, <1>2, <1>4, <1>13 DEF One, OneStart, StartPhase, Sole
<1>11. OneInstance'
  BY <1>1, <1>4, <1>5, <1>13 DEF One, OneInstance, AtRest, Sole
<1>12. OneUpdate'
  <2>1. upd.pc # "idle" => upd.pid \in Pids /\ (upd.pc # "prepare" => upd.succ \in Pids)
    BY UpdateAlone
  <2>2. upd.pc \in {"waitExit", "probe"} => procs'[upd.succ].st \in {"heir", "serving"}
    BY <1>3, <2>1 DEF One, OneUpdate
  <2> QED
    BY <1>1, <1>4, <1>5, <1>6, <1>7, <2>1, <2>2 DEF One, OneUpdate, Sole, Pair
<1> QED
  BY <1>8, <1>9, <1>10, <1>11, <1>12, <1>13 DEF One

LEMMA ClosesOne ==
  ASSUME One, TypeOK, NEW p \in Pids, Closes(p)
  PROVE  One'
<1>1. /\ Closing(p) /\ sock' = Nil
      /\ UNCHANGED <<manifest, host, boot, inst, start, restart, upd, stopping>>
  BY DEF Closes, memory
<1>2. Live(p) /\ ~Serving(p) /\ ~Bound(p) /\ ~Dead(p)
  BY <1>1 DEF Live, Serving, Bound, Closing, Dead
<1>3. /\ procs'[p].st = "dead" /\ \A q \in Pids : q # p => procs'[q] = procs[q]
      /\ \A q \in Pids : procs'[q].pred = procs[q].pred
  BY DEF Closes, SetState, TypeOK, Proc
<1>4. \A q \in Pids : /\ Live(q)' <=> Live(q) /\ q # p
                      /\ Serving(q)' <=> Serving(q)
                      /\ Bound(q)' <=> Bound(q)
                      /\ Kept(q)' <=> Kept(q)
                      /\ Dead(q)' <=> Dead(q) \/ q = p
  BY <1>1, <1>2, <1>3 DEF Live, Serving, Bound, Kept, Closing, Dead
<1>5. Nobody => Nobody'
  BY <1>4 DEF Nobody
<1>6. /\ upd.pc \notin {"ack", "probe"}
      /\ upd.pc = "waitExit" => p = upd.pid /\ procs[upd.succ].st = "heir"
  BY <1>1, <1>2 DEF One, OneUpdate, Pair, Serving, Closing, Dead
<1>7. OnPath'
  BY <1>2, <1>4, <1>6, NobodyElseBound DEF OnPath
<1>12. /\ OneCall' /\ (Terminating' <=> Terminating) /\ (NoRestart' <=> NoRestart)
       /\ restart' = restart
  BY <1>1, RestartsSame DEF One
<1>8. OneAlone'
  BY <1>1, <1>4, <1>12 DEF One, OneAlone
<1>9. OneStart'
  BY <1>1, <1>4, <1>12 DEF One, OneStart, StartPhase, Sole
<1>10. OneInstance'
  BY <1>1, <1>4, <1>5, <1>12 DEF One, OneInstance, AtRest, Sole
<1>11. OneUpdate'
  <2>1. upd.pc # "idle" => upd.pid \in Pids /\ (upd.pc # "prepare" => upd.succ \in Pids)
    BY UpdateAlone
  <2>2. upd.pc = "waitExit" => procs'[upd.succ].st = "heir" /\ Dead(upd.pid)'
    BY <1>1, <1>3, <1>4, <1>6, <2>1 DEF Closing
  <2> QED
    BY <1>1, <1>3, <1>4, <1>5, <1>6, <2>1, <2>2 DEF One, OneUpdate, Sole, Pair
<1> QED
  BY <1>7, <1>8, <1>9, <1>10, <1>11, <1>12 DEF One

LEMMA FailureOne ==
  ASSUME One, TypeOK, NoOverlap, NEW p \in Pids,
         Crash(p) \/ Wedge(p) \/ Recovers(p) \/ Escalate(p)
  PROVE  One'
<1> USE DEF memory
<1>1. upd.pc \in {"idle", "prepare"}
  <2>1. CASE Crash(p) \/ Wedge(p)
    <3>1. upd.pc # "idle" => start.pc = "idle"
      BY UpdateAlone
    <3>2. start.pc = "idle" => start.pid # p
      BY NilIsNoPid DEF TypeOK, Starts
    <3> QED
      BY <2>1, <3>1, <3>2 DEF Crash, Wedge, NoOverlap
  <2>2. CASE Escalate(p)
    BY <2>2, UpdateAlone DEF Escalate, NoRestart
  <2>3. CASE Recovers(p)
    <3>1. upd.pc \in {"idle", "prepare", "ack", "waitExit", "probe"}
      BY DEF TypeOK, Updates, NoUpdate
    <3>2. procs[p].st \in {"wedged", "stuck"}
      BY <2>3 DEF Recovers
    <3> QED
      BY <3>1, <3>2 DEF One, OneUpdate, Pair, Live, Serving, Closing, Dead
  <2> QED
    BY <2>1, <2>2, <2>3
<1>2. CASE Crash(p) \/ Wedge(p) \/ Escalate(p)
  <2>1. Fades
    <3>1. CASE Crash(p)
      BY <3>1 DEF Crash, SetState, TypeOK, Proc, Fades, Live, Bound, Kept
    <3>2. CASE Wedge(p)
      BY <3>2 DEF Wedge, Serving, SetState, TypeOK, Proc, Fades, Live, Bound, Kept
    <3>3. CASE Escalate(p)
      BY <3>3, KillFades DEF Escalate
    <3> QED
      BY <1>2, <3>1, <3>2, <3>3
  <2> QED
    BY <1>1, <1>2, <2>1, FadesOne DEF Crash, Wedge, Escalate
<1>3. CASE Recovers(p)
  <2>1. Fades
    BY <1>3 DEF Recovers, SetState, TypeOK, Proc, Fades, Live, Bound, Kept
  <2> QED
    BY <1>1, <1>3, <2>1, FadesOne DEF Recovers
<1> QED
  BY <1>2, <1>3

LEMMA InitOne == Init => One
<1> SUFFICES ASSUME Init PROVE One
  OBVIOUS
<1>1. 1 \in Pids
  BY SupervisorAssumption DEF Pids
<1>2. /\ host = "down" /\ inst = Nil /\ boot = "none" /\ start.pc = "idle"
      /\ upd.pc = "idle" /\ \A k \in Calls : restart[k].pc = "idle"
  BY DEF Init, Idle, NoUpdate
<1>3. /\ \A p \in Pids : Live(p) => Kept(p) /\ p = 1 /\ sock = 1 /\ manifest \in {1, Nil}
      /\ \A p \in Pids : Bound(p) => Live(p)
  <2>1. NoProc.st = "unused" /\ \A v : Left(1, v).st = "serving"
    BY DEF NoProc, Left
  <2> QED
    BY <1>1, <2>1 DEF Init, Live, Bound, Kept
<1>4. OnPath
  BY <1>3 DEF OnPath
<1>6. OneCall /\ ~Terminating /\ NoRestart
  BY <1>2 DEF OneCall, Terminating, NoRestart
<1>5. OneAlone
  BY <1>2, <1>3, <1>6 DEF OneAlone
<1> QED
  BY <1>2, <1>4, <1>5, <1>6 DEF One, OneStart, StartPhase, OneInstance, OneUpdate, AtRest

LEMMA NextOne == ASSUME One, TypeOK, TypeOK', NoOverlap, [Next]_vars PROVE One'
<1>1. CASE UNCHANGED vars
  BY <1>1, SameOne DEF vars, Alike
<1>2. CASE Next
  BY <1>2, StartStepOne, UpdateStepOne, CommandOne, HostOne, ExitOne, BindsOne, ClosesOne,
     FailureOne DEF Next, Supervise
<1> QED
  BY <1>1, <1>2

\* Through wedged daemons, failed startups, crashes of either side, restarts and
\* updates, one daemon serves, the socket path leads to it, and it is the one the
\* supervisor believes in, as long as the steps of "overlap", "slowHandoff" and
\* "lateRecovery" do not occur (tryAdopt, spawn, stop, runUpdate, the exit handler).
THEOREM ThereIsOneDaemon ==
  ASSUME NoOverlap
  PROVE  Spec => []OneDaemon
<1>1. One /\ TypeOK /\ TypeOK' /\ [Next]_vars => One'
  BY NextOne
<1>2. One /\ TypeOK => OneDaemon
  <2> SUFFICES ASSUME One, TypeOK PROVE OneDaemon
    OBVIOUS
  <2>2. NoOrphan
    BY DEF One, OnPath, NoOrphan, Bound, Serving
  <2>1. inst # Nil /\ Answering /\ upd.pc = "idle" => inst = sock
    BY DEF Answering, TypeOK, Maybe, One, OneInstance, Sole, Live, Serving
  <2> QED
    BY <2>1, <2>2 DEF OneDaemon, InstanceIsTheDaemon
<1> QED
  BY InitOne, <1>1, <1>2, SupervisorTypes, PTL DEF Spec

-----------------------------------------------------------------------------
\* The shells.

\* Who has been signalled to end does not serve again.
Doomed(p) == procs[p].st \notin {"booting", "heir", "serving", "wedged"}

\* An heir belongs to an update, and what is terminated was signalled.
Fated ==
  /\ \A p \in Pids : procs[p].st = "heir" =>
       upd.pc \in {"ack", "waitExit", "probe"} /\ p = upd.succ
  /\ start.pc \in {"term", "termChild"} => Doomed(start.pid)
  /\ \A k \in Calls : restart[k].pc = "term" => Doomed(restart[k].pid)

Held == \E p \in Pids : Holds(p)

\* No process holds the shells now that did not before, but to serve.
Calm == \A q \in Pids : /\ procs'[q].st = "heir" => procs[q].st = "heir"
                        /\ Doomed(q) => Doomed(q)'

LEMMA AlikeCalm == ASSUME Alike PROVE Calm /\ (Held <=> Held')
BY DEF Alike, Calm, Doomed, Held, Holds

LEMMA TermDooms ==
  ASSUME TypeOK, NEW p \in Pids, procs' = SignalTree(p, "SIGTERM")
  PROVE  Calm /\ Doomed(p)'
<1>1. \A q \in Pids : procs[q] \in Proc
  BY DEF TypeOK
<1>2. \A q \in Pids : procs'[q] = procs[q] \/ procs'[q] = Signalled(procs[q], "SIGTERM")
  BY DEF SignalTree
<1>3. procs'[p] = Signalled(procs[p], "SIGTERM")
  BY DEF SignalTree, Tree
<1>4. Calm
  BY <1>1, <1>2 DEF Calm, Doomed, Signalled, Proc
<1>5. Doomed(p)'
  BY <1>1, <1>3 DEF Doomed, Signalled, Proc
<1> QED
  BY <1>4, <1>5

LEMMA KillCalm ==
  ASSUME TypeOK, NEW p \in Pids, procs' = SignalTree(p, "SIGKILL")
  PROVE  Calm
<1>1. \A q \in Pids : procs[q] \in Proc
  BY DEF TypeOK
<1>2. \A q \in Pids : procs'[q] = procs[q] \/ procs'[q] = Signalled(procs[q], "SIGKILL")
  BY DEF SignalTree
<1> QED
  BY <1>1, <1>2 DEF Calm, Doomed, Signalled, Proc

\* Outside an update, who holds the shells is reached by the path.
LEMMA HolderAnswers ==
  ASSUME One, TypeOK, Fated, upd.pc = "idle", Held
  PROVE  Answering /\ Connectable
<1> PICK p \in Pids : Holds(p)
  BY DEF Held
<1>1. Serving(p) /\ sock = p
  BY DEF Holds, Fated, Serving, Bound, One, OnPath
<1> QED
  BY <1>1, NilIsNoPid DEF Answering, Connectable, Serving

\* Steps that make no heir and end no handoff.
LEMMA CalmFated ==
  ASSUME Fated, UNCHANGED upd,
         \A q \in Pids : procs'[q].st = "heir" => procs[q].st = "heir",
         start'.pc \in {"term", "termChild"} => Doomed(start.pid)',
         \A k \in Calls : restart'[k].pc = "term" => Doomed(restart[k].pid)'
  PROVE  Fated'
BY DEF Fated

LEMMA SpawnFated ==
  ASSUME One, TypeOK, NoOverlap, Fated, BeginSpawn, start.pc # "idle",
         UNCHANGED <<restart, upd>>
  PROVE  Fated' /\ (Held => Held')
<1>1. PICK b \in Pids : b = NewPid /\ procs[b].st = "unused"
  BY NewPidUnused DEF BeginSpawn, Used
<1>2. /\ procs' = SpawnChild /\ start' = [pc |-> "ready", pid |-> b]
  BY <1>1 DEF BeginSpawn
<1>3. /\ procs'[b].st = "booting"
      /\ \A q \in Pids : q # b => procs'[q].st = IF procs[q].st \in {"wedged", "stuck"}
                                                THEN "hung" ELSE procs[q].st
  BY <1>1, <1>2 DEF SpawnChild, TypeOK, NoOverlap, Proc
<1>4. start'.pc = "ready" /\ \A k \in Calls : restart[k].pc # "term"
  BY <1>2 DEF One, OneStart, Terminating
<1>5. Fated'
  BY <1>3, <1>4 DEF Fated
<1>6. Held => Held'
  BY <1>1, <1>3 DEF Held, Holds
<1> QED
  BY <1>5, <1>6

LEMMA StartStepFated ==
  ASSUME One, TypeOK, NoOverlap, Fated, StartStep
  PROVE  Fated' /\ (Held => Held' \/ TerminateStale)
<1> USE DEF memory, osVars, Running
<1>0. start.pc # "idle" /\ upd.pc = "idle" /\ \A k \in Calls : restart[k].pc # "term"
  BY DEF StartStep, ConnectManifest, ProbeManifest, TerminateStale, TermStaleDone, ConnectSocket,
         ProbeSocket, SpawnReady, SpawnTimeout, SpawnFailed, One, OneStart, Terminating
<1>1. Held => Answering /\ Connectable
  BY <1>0, HolderAnswers
<1>2. ASSUME NEW pc, start.pc \in {"reject", "ready"}, start' = [start EXCEPT !.pc = pc],
             procs' = SignalTree(start.pid, "SIGTERM"), UNCHANGED <<restart, upd>>
      PROVE  Fated'
  <2>1. PICK p \in Pids : p = start.pid /\ start'.pid = p
    BY <1>2, StartPid DEF TypeOK, Starts
  <2>2. Calm /\ Doomed(p)'
    BY <1>2, <2>1, TermDooms
  <2> QED
    BY <1>0, <1>2, <2>1, <2>2, CalmFated DEF Calm, Doomed
<1>3. ASSUME Alike, start'.pc \notin {"term", "termChild"}, UNCHANGED <<restart, upd>>
      PROVE  Fated' /\ (Held => Held')
  BY <1>0, <1>3, AlikeCalm, CalmFated DEF Calm
<1>4. CASE ConnectManifest
  <2>1. start'.pc \in {"probe", "reject"}
    BY <1>4 DEF ConnectManifest, TypeOK, Starts
  <2> QED
    BY <1>3, <1>4, <2>1 DEF ConnectManifest, Alike
<1>5. CASE ProbeManifest
  <2>1. start'.pc \in {"idle", "reject"}
    BY <1>5 DEF ProbeManifest, Adopted, Idle, TypeOK, Starts
  <2> QED
    BY <1>3, <1>5, <2>1 DEF ProbeManifest, Alike
<1>12. CASE TerminateStale
  BY <1>2, <1>12 DEF TerminateStale
<1>6. CASE TermStaleDone
  BY <1>0, <1>6, SpawnFated DEF TermStaleDone
<1>7. CASE ConnectSocket
  <2>1. CASE Connectable
    <3>1. start'.pc = "sockProbe"
      BY <1>7, <2>1 DEF ConnectSocket, TypeOK, Starts
    <3> QED
      BY <1>3, <1>7, <2>1, <3>1 DEF ConnectSocket, Alike
  <2>2. CASE ~Connectable
    BY <1>0, <1>7, <2>2, SpawnFated DEF ConnectSocket
  <2> QED
    BY <2>1, <2>2
<1>8. CASE ProbeSocket
  <2>1. CASE Adopted(sock) /\ UNCHANGED procs
    <3>1. start'.pc = "idle"
      BY <2>1 DEF Adopted, Idle
    <3> QED
      BY <1>3, <1>8, <2>1, <3>1 DEF ProbeSocket, Alike
  <2>2. CASE BeginSpawn
    BY <1>0, <1>8, <2>2, SpawnFated DEF ProbeSocket
  <2> QED
    BY <1>8, <2>1, <2>2 DEF ProbeSocket
<1>9. CASE SpawnReady
  <2>1. Alike /\ start'.pc = "idle"
    BY <1>9, StartPid DEF SpawnReady, TypeOK, Proc, Alike, Idle
  <2> QED
    BY <1>3, <1>9, <2>1 DEF SpawnReady
<1>10. CASE SpawnTimeout
  BY <1>1, <1>2, <1>10 DEF SpawnTimeout
<1>11. CASE SpawnFailed
  BY <1>3, <1>11 DEF SpawnFailed, Alike, Idle
<1> QED
  BY <1>4, <1>5, <1>6, <1>7, <1>8, <1>9, <1>10, <1>11, <1>12 DEF StartStep

LEMMA UpdateStepFated ==
  ASSUME One, TypeOK, NoOverlap, Fated, UpdateStep
  PROVE  Fated' /\ (Held => Held')
<1> USE DEF memory
<1>0. upd.pc # "idle"
  BY DEF UpdateStep, PrepareUpgrade, PrepareFails, HandoffAcked, HandoffFails,
         PredecessorGone, Updated
<1>1. /\ procs \in [Pids -> Proc] /\ upd.pid \in Pids
      /\ upd.pc # "prepare" => upd.succ \in Pids
      /\ start.pc = "idle" /\ \A k \in Calls : restart[k].pc = "idle"
      /\ upd.pc \in {"prepare", "ack", "waitExit", "probe"}
  BY <1>0, UpdateAlone DEF TypeOK, Updates, NoUpdate, NoRestart
<1>2. ASSUME UNCHANGED <<start, restart>>,
             \A q \in Pids : procs'[q].st = "heir" =>
               upd'.pc \in {"ack", "waitExit", "probe"} /\ q = upd'.succ
      PROVE  Fated'
  BY <1>1, <1>2 DEF Fated
<1>3. ASSUME upd.pc \in {"ack", "waitExit"}, NEW pc \in {"waitExit", "probe"},
             upd' = [upd EXCEPT !.pc = pc]
      PROVE  upd'.pc = pc /\ upd'.succ = upd.succ
  <2>1. upd \in [pc : {"ack", "waitExit", "probe"}, pid : Pids, succ : Pids, man : Maybe]
    BY <1>3 DEF TypeOK, Updates, NoUpdate
  <2> QED
    BY <1>3, <2>1
<1>4. CASE PrepareUpgrade
  <2>1. PICK b \in Pids : b = NewPid /\ procs[b].st = "unused"
    BY <1>4, NewPidUnused DEF PrepareUpgrade, Used
  <2>2. /\ procs' = [procs EXCEPT ![b] = [st |-> "heir", old |-> FALSE,
                        pred |-> sock, group |-> procs[sock].group, watch |-> "none"]]
        /\ upd.pc = "prepare" /\ upd' = [upd EXCEPT !.pc = "ack", !.succ = b]
    BY <1>4, <2>1 DEF PrepareUpgrade
  <2>3. procs'[b].st = "heir" /\ \A q \in Pids : q # b => procs'[q] = procs[q]
    BY <1>1, <2>2
  <2>4. upd'.pc = "ack" /\ upd'.succ = b
    <3>1. upd \in [pc : {"prepare"}, pid : Pids, succ : {Nil}, man : Maybe]
      BY <2>2 DEF TypeOK, Updates, NoUpdate
    <3> QED
      BY <2>2, <3>1
  <2>5. Held'
    BY <2>3 DEF Held, Holds
  <2> QED
    BY <1>2, <1>4, <2>2, <2>3, <2>4, <2>5 DEF PrepareUpgrade, Fated
<1>5. CASE PrepareFails
  <2>1. UNCHANGED <<procs, start, restart>> /\ upd.pc = "prepare"
    BY <1>5 DEF PrepareFails
  <2> QED
    BY <1>2, <2>1 DEF Fated, Held, Holds
<1>6. CASE HandoffAcked
  <2>1. upd.pc = "ack" /\ procs[upd.succ].pred = upd.pid /\ procs[upd.succ].st = "heir"
        /\ Serving(upd.pid)
    BY <1>6 DEF HandoffAcked, One, OneUpdate
  <2>2. procs' = [procs EXCEPT ![upd.pid].st = "closing"]
        /\ upd' = [upd EXCEPT !.pc = "waitExit"] /\ UNCHANGED <<start, restart>>
    BY <1>6, <2>1 DEF HandoffAcked
  <2>3. /\ procs'[upd.pid].st = "closing"
        /\ \A q \in Pids : q # upd.pid => procs'[q] = procs[q]
    BY <1>1, <2>2 DEF Proc
  <2>4. upd'.pc = "waitExit" /\ upd'.succ = upd.succ
    BY <1>3, <2>1, <2>2
  <2>5. Held'
    BY <1>1, <2>1, <2>3 DEF Held, Holds, Serving
  <2> QED
    BY <1>2, <2>1, <2>2, <2>3, <2>4, <2>5 DEF Fated
<1>7. CASE HandoffFails
  <2>1. upd.pc = "ack" /\ procs[upd.succ].pred = upd.pid /\ procs[upd.succ].st = "heir"
        /\ Serving(upd.pid)
    BY <1>7 DEF HandoffFails, One, OneUpdate
  <2>2. procs' = [procs EXCEPT ![upd.succ] = Signalled(procs[upd.succ], "SIGKILL")]
        /\ UNCHANGED <<start, restart>>
    BY <1>7, <2>1 DEF HandoffFails
  <2>3. upd.succ \in Pids /\ Signalled(procs[upd.succ], "SIGKILL").st = "dead"
    BY <1>1, <2>1 DEF Signalled, Proc
  <2>4. /\ procs'[upd.succ].st = "dead"
        /\ \A q \in Pids : q # upd.succ => procs'[q] = procs[q]
    BY <1>1, <2>2, <2>3
  <2>5. Held'
    BY <1>1, <2>1, <2>4 DEF Held, Holds, Serving
  <2> QED
    BY <1>2, <2>1, <2>2, <2>4, <2>5 DEF Fated
<1>8. CASE PredecessorGone
  <2>1. upd.pc = "waitExit" /\ procs[upd.pid].st \in {"closing", "dead"}
    BY <1>8 DEF PredecessorGone, One, OneUpdate, Closing, Dead
  <2>2. procs' = [procs EXCEPT ![upd.pid] = Signalled(procs[upd.pid], "SIGKILL")]
        /\ upd' = [upd EXCEPT !.pc = "probe"] /\ UNCHANGED <<start, restart>>
    BY <1>8 DEF PredecessorGone, KillPredecessor
  <2>3. Signalled(procs[upd.pid], "SIGKILL").st = "dead"
    BY <1>1, <2>1 DEF Signalled, Proc
  <2>4. /\ procs'[upd.pid].st = "dead"
        /\ \A q \in Pids : q # upd.pid => procs'[q] = procs[q]
    BY <1>1, <2>2, <2>3
  <2>5. upd'.pc = "probe" /\ upd'.succ = upd.succ
    BY <1>3, <2>1, <2>2
  <2>6. Held => Held'
    BY <1>1, <2>1, <2>4 DEF Held, Holds
  <2> QED
    BY <1>2, <2>1, <2>2, <2>4, <2>5, <2>6 DEF Fated
<1>9. CASE Updated
  <2>1. UNCHANGED <<procs, start, restart>> /\ procs[upd.succ].st # "heir"
    BY <1>9 DEF Updated, NoOverlap
  <2> QED
    BY <1>2, <2>1 DEF Fated, Held, Holds
<1> QED
  BY <1>4, <1>5, <1>6, <1>7, <1>8, <1>9 DEF UpdateStep

LEMMA EnsureStarts ==
  ASSUME NEW open, NEW current, NEW man, Ensure(open, current, man)
  PROVE  start' = start \/ start'.pc \in {"connect", "sockConnect"}
BY DEF Ensure, BeginStart

LEMMA EndingPids ==
  ASSUME TypeOK
  PROVE  /\ start.pc \in {"term", "termChild"} => start.pid \in Pids
         /\ \A k \in Calls : restart[k].pc = "term" => restart[k].pid \in Pids
BY DEF TypeOK, Starts, Restarts

\* Steps that signal nobody.
LEMMA AlikeFated ==
  ASSUME TypeOK, Fated, Alike, upd' = upd \/ upd.pc = "idle",
         start' = start \/ start'.pc \notin {"term", "termChild"},
         \A k \in Calls : restart'[k] = restart[k] \/ restart'[k].pc # "term"
  PROVE  Fated' /\ (Held => Held')
<1>1. Fated'
  BY EndingPids DEF Fated, Alike, Doomed
<1> QED
  BY <1>1, AlikeCalm

LEMMA StopFated ==
  ASSUME One, TypeOK, Fated, NEW k \in Calls, Stop(k), start.pc = "idle", upd.pc = "idle",
         UNCHANGED upd
  PROVE  Fated'
<1>1. CASE inst = Nil
  <2>1. /\ procs' = procs /\ Ensure(FALSE, Nil, manifest)
        /\ restart' = [restart EXCEPT ![k] = Idle]
    BY <1>1, Zenon DEF Stop
  <2>2. \A j \in Calls : restart'[j] = restart[j] \/ restart'[j].pc # "term"
    BY <2>1 DEF TypeOK, Idle
  <2> QED
    BY <2>1, <2>2, EnsureStarts, AlikeFated DEF Alike
<1>2. CASE inst # Nil
  <2>1. PICK p \in Pids : p = inst
    BY <1>2 DEF TypeOK, Maybe
  <2>2. /\ procs' = SignalTree(p, "SIGTERM") /\ start' = start
        /\ restart' = [restart EXCEPT ![k] = [pc |-> "term", pid |-> p]]
    BY <1>2, <2>1 DEF Stop
  <2>3. Calm /\ Doomed(p)'
    BY <2>2, TermDooms
  <2>4. \A j \in Calls : restart'[j] = restart[j] \/ restart'[j].pid = p
    BY <2>2 DEF TypeOK
  <2>5. \A j \in Calls : restart'[j].pc = "term" => Doomed(restart[j].pid)'
    BY <2>3, <2>4, EndingPids DEF Calm, Fated, Doomed
  <2> QED
    BY <2>2, <2>3, <2>5, CalmFated DEF Calm
<1> QED
  BY <1>1, <1>2

LEMMA CommandFated ==
  ASSUME One, TypeOK, NoOverlap, Fated, RestartStep \/ Restart \/ Update \/ AutoUpdate
  PROVE  Fated' /\ (Held => Held' \/ Restart \/ \E k \in Calls : RestartAwaited(k))
<1> USE DEF memory, osVars
<1>1. ASSUME NEW k \in Calls, RestartAwaited(k)
      PROVE  Fated'
  <2>1. upd.pc = "idle"
    BY <1>1 DEF RestartAwaited, One, OneInstance, NoRestart
  <2> QED
    BY <1>1, <2>1, StopFated DEF RestartAwaited
<1>2. ASSUME NEW k \in Calls, Restarted(k)
      PROVE  Fated' /\ (Held => Held')
  <2>1. Alike /\ UNCHANGED upd /\ restart' = [restart EXCEPT ![k] = Idle]
    BY <1>2 DEF Restarted, Alike
  <2>2. \A j \in Calls : restart'[j] = restart[j] \/ restart'[j].pc # "term"
    BY <2>1 DEF TypeOK, Idle
  <2> QED
    BY <1>2, <2>1, <2>2, EnsureStarts, AlikeFated DEF Restarted
<1>3. CASE Restart
  <2>1. upd.pc = "idle" /\ UNCHANGED upd
    BY <1>3 DEF Restart, NoOverlap
  <2>2. PICK k \in Calls : k = used'["restart"]
    BY <1>3, NextCall DEF Restart
  <2>3. CASE start.pc # "idle"
    <3>1. /\ restart' = [restart EXCEPT ![k] = [pc |-> "await", pid |-> Nil]]
          /\ UNCHANGED <<procs, start>>
      BY <1>3, <2>2, <2>3 DEF Restart
    <3>2. \A j \in Calls : restart'[j] = restart[j] \/ restart'[j].pc # "term"
      BY <3>1 DEF TypeOK
    <3> QED
      BY <1>3, <2>1, <3>1, <3>2, AlikeFated DEF Alike
  <2>4. CASE start.pc = "idle"
    BY <1>3, <2>1, <2>2, <2>4, StopFated DEF Restart
  <2> QED
    BY <2>3, <2>4
<1>4. CASE Update \/ AutoUpdate
  <2>1. UNCHANGED <<procs, start, restart>> /\ (upd' = upd \/ upd.pc = "idle")
    BY <1>4 DEF Update, AutoUpdate, BeginUpdate
  <2> QED
    BY <2>1, AlikeFated DEF Alike
<1> QED
  BY <1>1, <1>2, <1>3, <1>4 DEF RestartStep

LEMMA HostFated ==
  ASSUME One, TypeOK, NoOverlap, Fated,
         \/ LivenessPoll \/ Request \/ HostBoots \/ WindowPasses \/ HostCrash
         \/ \E p \in Pids : ExitEvent(p)
  PROVE  Fated' /\ (Held => Held')
<1> USE DEF memory, osVars
<1>1. CASE LivenessPoll \/ WindowPasses
  BY <1>1, AlikeFated DEF LivenessPoll, WindowPasses, Alike
<1>2. CASE Request
  BY <1>2, EnsureStarts, AlikeFated DEF Request, Alike
<1>3. CASE HostBoots
  BY <1>3, AlikeFated DEF HostBoots, BeginStart, Alike
<1>4. CASE HostCrash
  <2>1. /\ upd.pc = "idle" /\ start'.pc = "idle"
        /\ \A k \in Calls : restart'[k].pc = "idle"
    BY <1>4 DEF HostCrash, NoOverlap, Idle
  <2>2. Alike
    BY <1>4 DEF HostCrash, TypeOK, Proc, Alike
  <2> QED
    BY <2>1, <2>2, AlikeFated
<1>5. CASE \E p \in Pids : ExitEvent(p)
  <2> PICK p \in Pids : ExitEvent(p)
    BY <1>5
  <2>1. Alike /\ UNCHANGED <<restart, upd>>
    BY DEF ExitEvent, Alike, TypeOK, Proc
  <2>2. start' = start \/ start'.pc \in {"connect", "sockConnect"}
    BY EnsureStarts DEF ExitEvent, AfterCrash
  <2> QED
    BY <2>1, <2>2, AlikeFated
<1> QED
  BY <1>1, <1>2, <1>3, <1>4, <1>5

LEMMA DaemonFated ==
  ASSUME One, TypeOK, NoOverlap, Fated, NEW p \in Pids,
         Binds(p) \/ Closes(p) \/ Crash(p) \/ Wedge(p) \/ Recovers(p) \/ Escalate(p)
  PROVE  Fated' /\ (Held => Held' \/ Crash(p) \/ Wedge(p))
<1> USE DEF memory
<1>1. UNCHANGED <<start, restart, upd>>
  BY DEF Binds, Closes, Crash, Wedge, Recovers, Escalate
<1>2. Calm => Fated'
  BY <1>1, EndingPids, CalmFated DEF Calm, Fated, Doomed
<1>3. CASE Binds(p)
  <2>1. /\ procs'[p].st = "serving" /\ procs[p].st \in {"booting", "heir"}
        /\ \A q \in Pids : q # p => procs'[q] = procs[q]
    BY <1>3 DEF Binds, SetState, TypeOK, Proc
  <2>2. Calm /\ Held'
    BY <2>1 DEF Calm, Doomed, Held, Holds
  <2> QED
    BY <1>2, <2>2
<1>4. CASE Closes(p)
  <2>1. /\ procs'[p].st = "dead" /\ procs[p].st = "closing"
        /\ \A q \in Pids : q # p => procs'[q] = procs[q]
    BY <1>4 DEF Closes, SetState, TypeOK, Proc, Closing
  <2>2. Calm /\ (Held => Held')
    BY <2>1 DEF Calm, Doomed, Held, Holds
  <2> QED
    BY <1>2, <2>2
<1>5. CASE Crash(p) \/ Wedge(p)
  <2>1. /\ procs'[p].st = "dead" \/ (procs'[p].st = "wedged" /\ procs[p].st = "serving")
        /\ \A q \in Pids : q # p => procs'[q] = procs[q]
    BY <1>5 DEF Crash, Wedge, Serving, SetState, TypeOK, Proc
  <2>2. Calm
    BY <2>1 DEF Calm, Doomed
  <2> QED
    BY <1>2, <1>5, <2>2
<1>7. CASE Recovers(p)
  <2>1. /\ \/ procs[p].st = "wedged" /\ procs'[p].st = "serving"
           \/ procs[p].st = "stuck" /\ procs'[p].st = "closing"
        /\ \A q \in Pids : q # p => procs'[q] = procs[q]
    BY <1>7 DEF Recovers, SetState, TypeOK, Proc
  <2>2. Calm /\ (Held => Held')
    BY <2>1 DEF Calm, Doomed, Held, Holds
  <2> QED
    BY <1>2, <2>2
<1>6. CASE Escalate(p)
  <2>1. Calm
    BY <1>6, KillCalm DEF Escalate
  <2>2. Sole(p) /\ Doomed(p)
    <3>1. CASE start.pc \in {"term", "termChild"} /\ start.pid = p
      BY <3>1 DEF One, OneStart, StartPhase, Fated
    <3>2. ASSUME NEW k \in Calls, restart[k] = [pc |-> "term", pid |-> p]
          PROVE  Sole(p) /\ Doomed(p)
      BY <3>2 DEF One, OneInstance, Fated
    <3> QED
      BY <1>6, <3>1, <3>2 DEF Escalate
  <2>3. ~Held
    BY <2>2 DEF Sole, Doomed, Held, Holds, Live
  <2> QED
    BY <1>2, <2>1, <2>3
<1> QED
  BY <1>3, <1>4, <1>5, <1>6, <1>7

LEMMA InitFated == Init => Fated
<1> SUFFICES ASSUME Init PROVE Fated
  OBVIOUS
<1>1. start.pc = "idle" /\ \A k \in Calls : restart[k].pc = "idle"
  BY DEF Init, Idle
<1>2. \A p \in Pids : procs[p].st # "heir"
  <2>1. NoProc.st = "unused" /\ \A v : Left(1, v).st = "serving"
    BY DEF NoProc, Left
  <2> QED
    BY <2>1 DEF Init
<1> QED
  BY <1>1, <1>2 DEF Fated

LEMMA NextFated ==
  ASSUME One, TypeOK, NoOverlap, Fated, Next
  PROVE  /\ Fated'
         /\ Held => \/ Held'
                    \/ \E p \in Pids : Crash(p) \/ Wedge(p)
                    \/ Restart \/ \E k \in Calls : RestartAwaited(k)
                    \/ TerminateStale
BY StartStepFated, UpdateStepFated, CommandFated, HostFated, DaemonFated
   DEF Next, Supervise, RestartStep

\* Someone always holds the shells, through adoptions by new host-services,
\* handoffs that fail at any step, terminations of wedged daemons and the exit of
\* predecessors: only a daemon's own failure, a restart the user asked for, or the
\* rejection of a daemon that failed a probe ends the last one (tryAdopt, terminateProcessTreeAndGroups, runUpdate).
THEOREM ShellsOutliveAll ==
  ASSUME NoOverlap
  PROVE  Spec => SessionsOutliveHostAndUpdate
<1>1. One /\ TypeOK /\ TypeOK' /\ [Next]_vars => One'
  BY NextOne
<1>2. One /\ TypeOK /\ Fated /\ [Next]_vars => Fated'
  <2>1. Fated /\ UNCHANGED vars => Fated'
    BY DEF Fated, Doomed, vars
  <2> QED
    BY <2>1, NextFated
<1>3. One /\ TypeOK /\ Fated /\ [Next]_vars =>
        [(\E p \in Pids : Holds(p))
           => \/ \E p \in Pids : Holds(p)'
              \/ \E p \in Pids : Crash(p) \/ Wedge(p)
              \/ Restart \/ \E k \in Calls : RestartAwaited(k)
              \/ TerminateStale]_vars
  BY NextFated DEF Held
<1> QED
  BY InitOne, InitFated, <1>1, <1>2, <1>3, SupervisorTypes, PTL
     DEF Spec, SessionsOutliveHostAndUpdate

=============================================================================
