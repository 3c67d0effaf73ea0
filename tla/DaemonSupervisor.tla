--------------------------- MODULE DaemonSupervisor ---------------------------
(***************************************************************************)
(* The host-service's supervision of its one pty-daemon                    *)
(* (packages/host-service/src/daemon): ensure / start with adoption        *)
(* through the manifest or the socket, spawn, the exit handler with its    *)
(* crash budget, the liveness poll of adopted daemons, restart, update and *)
(* auto-update, and the bootstrap promise terminal requests wait on; with  *)
(* the operating system's side of it: daemon processes, the socket path,   *)
(* the manifest file, host-service crashes and restarts.                   *)
(*                                                                         *)
(* An async method is a sequence of actions, one per stretch between two   *)
(* awaits; its program counter and the locals it keeps across the await    *)
(* are variables.  Timeouts are choices: a wait that fails does so when    *)
(* what it waits for is not there at that moment.                          *)
(*                                                                         *)
(* Production mode only (NODE_ENV # development).  The predecessor and     *)
(* the successor of a handoff are seen from outside; PtyHandoff has their  *)
(* inside.                                                                 *)
(*                                                                         *)
(* An operator F_Xyz before an operator F is a plausible fault of F; the   *)
(* specification never uses it.                                            *)
(***************************************************************************)
EXTENDS Integers

CONSTANTS
  Nil,
  MaxPids,        \* bound: daemon processes over the run, spawned or heirs
  CrashBudget,    \* CRASH_BUDGET (3 in the code)
  MaxHostCrashes, \* bound: host-service crashes
  MaxCrashes,     \* bound: daemon crashes
  MaxRestarts,    \* bound: user restarts
  MaxUpdates,     \* bound: user updates
  Finds,          \* what the first host-service may find
  Faults          \* which of the faults below may happen

ASSUME SupervisorAssumption ==
  /\ MaxPids \in Nat \ {0} /\ CrashBudget \in Nat
  /\ MaxHostCrashes \in Nat /\ MaxCrashes \in Nat
  /\ MaxRestarts \in Nat /\ MaxUpdates \in Nat
  /\ Finds \subseteq {"nothing", "current", "old"}
  /\ Faults \subseteq {"wedge", "lateRecovery", "startup", "overlap", "slowHandoff"}

\* wedge: a serving daemon stops answering, and may recover.  lateRecovery: it may
\* even do so once another has been spawned in its place.  startup: the child of
\* a start ends before it listens.  overlap: while a start or an update is in flight
\* the host-service may crash, a daemon may crash before it is the instance, crash
\* or wedge in an update, the wait for a healthy daemon's socket may be too short,
\* and restarts and updates may overlap.  slowHandoff: a predecessor may take longer
\* to act on the ack and to close than the second its successor waits.

Pids == 1 .. MaxPids
Calls == 1 .. MaxRestarts

ASSUME NilIsNoPid == Nil \notin Pids

VARIABLES
  \* the operating system
  procs,     \* the daemon processes
  sock,      \* the process whose listener the socket path leads to
  manifest,  \* pid in the manifest file
  \* one host-service process
  host,      \* whether it runs
  boot,      \* singleton.ts bootstrapPromise: none, pending, settled
  inst,      \* instances: pid of the daemon the supervisor believes in
  old,       \* that instance's updatePending
  start,     \* the start() in flight (pendingStarts)
  restart,   \* the forceRestart() calls, in flight or not
  upd,       \* the runUpdate() in flight (updateInFlight)
  auto,      \* runAutoUpdate awaits the session list
  poll,      \* adoptedLivenessTimers: the pid polled
  stopping, circuit, crashes,
  \* bounds
  used       \* how often each bounded event has happened

osVars   == <<procs, sock, manifest>>
memory   == <<boot, inst, old, poll, stopping, circuit, crashes>>
vars     == <<procs, sock, manifest, host, boot, inst, old, start, restart,
              upd, auto, poll, stopping, circuit, crashes, used>>

Events == {"hostCrash", "crash", "restart", "update"}
Limit  == [hostCrash |-> MaxHostCrashes, crash |-> MaxCrashes,
           restart |-> MaxRestarts, update |-> MaxUpdates]
Happens(e) == used[e] < Limit[e] /\ used' = [used EXCEPT ![e] = @ + 1]

-----------------------------------------------------------------------------
\* Processes ------------------------------------------------------------------
\* booting: spawned, not listening yet.  heir: a successor that has adopted the
\* sessions and waits for its predecessor to exit.  closing: signalled, or a
\* predecessor after its ack.  wedged: it does not answer for now; stuck: so, with a
\* SIGTERM it will find; hung: it never answers again.
Alive(p)   == procs[p].st \notin {"unused", "dead"}
Dead(p)    == procs[p].st = "dead"
Serving(p) == procs[p].st = "serving"

\* A child whose 'exit' event is still to come is a zombie: it answers signal 0.
IsProcessAlive(p) == Alive(p) \/ (Dead(p) /\ procs[p].watch # "none")

Connectable == sock # Nil /\ procs[sock].st \in {"serving", "wedged", "stuck", "hung"}
Answering   == sock # Nil /\ Serving(sock)

Closing(p) == procs[p].st = "closing"

Unused   == {p \in Pids : procs[p].st = "unused"}
CanSpawn == Unused # {}
NewPid   == CHOOSE p \in Unused : TRUE

\* A fault: SIGKILL treated like SIGTERM.
Signalled_Politely(proc, signal) ==
  CASE proc.st \in {"booting", "heir"} -> [proc EXCEPT !.st = "dead"]
    [] proc.st = "serving" -> [proc EXCEPT !.st = "closing"]
    [] proc.st = "wedged" -> [proc EXCEPT !.st = "stuck"]
    [] OTHER -> proc

\* What a signal does to one process; a process without a SIGTERM handler
\* (before wireShutdown) dies of it, a wedged one does not react yet.
Signalled(proc, signal) ==
  IF proc.st \in {"unused", "dead"} THEN proc
  ELSE IF signal = "SIGKILL" \/ proc.st \in {"booting", "heir"}
       THEN [proc EXCEPT !.st = "dead"]
  ELSE IF proc.st = "serving" THEN [proc EXCEPT !.st = "closing"]
  ELSE IF proc.st = "wedged" THEN [proc EXCEPT !.st = "stuck"]
  ELSE proc

\* signalProcessTreeAndGroups: p and, while p lives, its process group; a
\* successor is spawned into the group of its predecessor.
Tree(p) ==
  {p} \cup {q \in Pids : Alive(p) /\ Alive(q) /\ procs[q].group = procs[p].group}
SignalTree(p, signal) ==
  [q \in Pids |-> IF q \in Tree(p) THEN Signalled(procs[q], signal) ELSE procs[q]]

\* child_process.spawn of a daemon, of the current version.  Who has not recovered
\* by then does so only with lateRecovery.
SpawnChild ==
  [q \in Pids |->
     IF q = NewPid
     THEN [st |-> "booting", old |-> FALSE, pred |-> Nil, group |-> NewPid,
           watch |-> "early"]
     ELSE IF procs[q].st \in {"wedged", "stuck"} /\ "lateRecovery" \notin Faults
     THEN [procs[q] EXCEPT !.st = "hung"]
     ELSE procs[q]]

Idle == [pc |-> "idle", pid |-> Nil]
NoUpdate == [pc |-> "idle", pid |-> Nil, succ |-> Nil, man |-> Nil]

-----------------------------------------------------------------------------
\* start(): tryAdopt up to its first await.  Called within ensure().
BeginStart(man) ==
  IF man # Nil /\ IsProcessAlive(man)
  THEN /\ start' = [pc |-> "connect", pid |-> man]
       /\ manifest' = man
  ELSE /\ start' = [pc |-> "sockConnect", pid |-> Nil]
       /\ manifest' = Nil

\* ensure(): refused by an open circuit, satisfied by the instance or the start
\* in flight.  The arguments are the values at the time of the call.
Ensure(open, current, man) ==
  IF open \/ current # Nil \/ start.pc # "idle"
  THEN /\ manifest' = man
       /\ UNCHANGED start
  ELSE BeginStart(man)

Running(pc) == host = "up" /\ start.pc = pc

\* isSocketConnectable on the manifest's socket; an unreachable live daemon is
\* taken for wedged and is terminated.
ConnectManifest ==
  /\ Running("connect")
  /\ start' = [start EXCEPT !.pc = IF Connectable THEN "probe" ELSE "reject"]
  /\ UNCHANGED <<osVars, host, memory, restart, upd, auto, used>>

\* start() once tryAdopt returned an instance.
Adopted(p) ==
  /\ inst' = p
  /\ old' = procs[sock].old
  /\ poll' = p
  /\ auto' = procs[sock].old
  /\ start' = Idle
  /\ boot' = IF boot = "pending" THEN "ok" ELSE boot

\* probeDaemonHelloWithRetry: whoever listens answers; the instance gets the
\* manifest's pid.
ProbeManifest ==
  /\ Running("probe")
  /\ \/ /\ Answering
        /\ Adopted(start.pid)
     \/ /\ ~Answering
        /\ start' = [start EXCEPT !.pc = "reject"]
        /\ UNCHANGED <<inst, old, poll, auto, boot>>
  /\ UNCHANGED <<osVars, host, stopping, circuit, crashes, restart, upd, used>>

\* The rejected daemon is signalled, whether or not it answers by now.
TerminateStale ==
  /\ Running("reject")
  /\ start' = [start EXCEPT !.pc = "term"]
  /\ procs' = SignalTree(start.pid, "SIGTERM")
  /\ UNCHANGED <<sock, manifest, host, memory, restart, upd, auto, used>>

\* spawn() up to its first await.
BeginSpawn ==
  /\ CanSpawn
  /\ start' = [pc |-> "ready", pid |-> NewPid]
  /\ procs' = SpawnChild

\* terminateProcessTreeAndGroups returned: forget the manifest, spawn.
TermStaleDone ==
  /\ Running("term") /\ ~IsProcessAlive(start.pid)
  /\ manifest' = Nil
  /\ BeginSpawn
  /\ UNCHANGED <<sock, host, memory, restart, upd, auto, used>>

\* A fault: without a manifest there is no daemon.
ConnectSocket_SpawnsAtOnce ==
  /\ Running("sockConnect")
  /\ BeginSpawn
  /\ UNCHANGED <<sock, manifest, host, memory, restart, upd, auto, used>>

\* tryAdoptFromSocket: no manifest to go by, the socket may still lead to a
\* daemon; its hello-ack names its pid, and the manifest is written anew.
ConnectSocket ==
  /\ Running("sockConnect")
  /\ IF Connectable
     THEN /\ start' = [start EXCEPT !.pc = "sockProbe"]
          /\ UNCHANGED procs
     ELSE BeginSpawn
  /\ UNCHANGED <<sock, manifest, host, memory, restart, upd, auto, used>>

ProbeSocket ==
  /\ Running("sockProbe")
  /\ \/ /\ Answering
        /\ manifest' = sock
        /\ Adopted(sock)
        /\ UNCHANGED procs
     \/ /\ ~Answering
        /\ BeginSpawn
        /\ UNCHANGED <<manifest, inst, old, poll, auto, boot>>
  /\ UNCHANGED <<sock, host, stopping, circuit, crashes, restart, upd, used>>

\* waitForSocket returned true: exit handler, manifest, instance.  A listener
\* attached after the event has gone by hears nothing.
SpawnReady ==
  /\ Running("ready") /\ Connectable
  /\ procs' = [procs EXCEPT ![start.pid].watch =
                              IF @ = "early" THEN "handler" ELSE @]
  /\ manifest' = start.pid
  /\ inst' = start.pid
  /\ old' = FALSE
  /\ start' = Idle
  /\ boot' = IF boot = "pending" THEN "ok" ELSE boot
  /\ UNCHANGED <<sock, host, poll, stopping, circuit, crashes, restart, upd, auto, used>>

SpawnTimeout ==
  /\ Running("ready") /\ ~Connectable
  /\ Dead(start.pid) \/ "overlap" \in Faults
  /\ start' = [start EXCEPT !.pc = "termChild"]
  /\ procs' = SignalTree(start.pid, "SIGTERM")
  /\ UNCHANGED <<sock, manifest, host, memory, restart, upd, auto, used>>

\* spawn() throws; a bootstrap that failed is forgotten so a request retries.
SpawnFailed ==
  /\ Running("termChild") /\ ~IsProcessAlive(start.pid)
  /\ start' = Idle
  /\ boot' = IF boot = "pending" THEN "none" ELSE boot
  /\ UNCHANGED <<osVars, host, inst, old, poll, stopping, circuit, crashes,
                 restart, upd, auto, used>>

-----------------------------------------------------------------------------
\* The child's 'exit' event.
\* A fault: the circuit opens one crash late.
OverBudget_ByOneMore(n) == n > CrashBudget + 1

OverBudget(n) == n > CrashBudget

\* A fault: the crash is counted and nothing else is done about it.
AfterCrash_OnlyCounts(n) ==
  /\ crashes' = n
  /\ circuit' = (circuit \/ OverBudget(n))
  /\ manifest' = Nil
  /\ UNCHANGED start

AfterCrash(n) ==
  /\ crashes' = n
  /\ circuit' = (circuit \/ OverBudget(n))
  /\ Ensure(circuit', Nil, Nil)

ExitEvent(p) ==
  /\ host = "up" /\ Dead(p) /\ procs[p].watch # "none"
  /\ procs' = [procs EXCEPT ![p].watch = "none"]
  /\ IF procs[p].watch = "early" \/ inst # p
     THEN UNCHANGED <<manifest, inst, stopping, circuit, crashes, start>>
     ELSE /\ inst' = Nil
          /\ IF stopping
             THEN /\ stopping' = FALSE
                  /\ manifest' = Nil
                  /\ UNCHANGED <<circuit, crashes, start>>
             ELSE /\ AfterCrash(crashes + 1)
                  /\ UNCHANGED stopping
  /\ UNCHANGED <<sock, host, boot, old, poll, restart, upd, auto, used>>

\* CRASH_WINDOW_MS has passed since the oldest crash that counted.
WindowPasses ==
  /\ host = "up" /\ crashes > 0
  /\ crashes' = crashes - 1
  /\ UNCHANGED <<osVars, host, boot, inst, old, poll, stopping, circuit,
                 start, restart, upd, auto, used>>

\* startAdoptedLivenessCheck's timer finds the process gone.
LivenessPoll ==
  /\ host = "up" /\ poll # Nil /\ ~IsProcessAlive(poll)
  /\ poll' = Nil
  /\ IF inst = poll THEN inst' = Nil /\ manifest' = Nil
                    ELSE UNCHANGED <<inst, manifest>>
  /\ UNCHANGED <<procs, sock, host, boot, old, stopping, circuit, crashes,
                 start, restart, upd, auto, used>>

-----------------------------------------------------------------------------
\* forceRestart(), call k: stop() up to its await; nothing to stop when no instance.
Stop(k) ==
  /\ inst' = Nil
  /\ poll' = Nil
  /\ IF inst = Nil
     THEN /\ crashes' = 0 /\ circuit' = FALSE
          /\ Ensure(FALSE, Nil, manifest)
          /\ restart' = [restart EXCEPT ![k] = Idle]
          /\ UNCHANGED <<stopping, procs>>
     ELSE /\ stopping' = TRUE
          /\ procs' = SignalTree(inst, "SIGTERM")
          /\ restart' = [restart EXCEPT ![k] = [pc |-> "term", pid |-> inst]]
          /\ UNCHANGED <<crashes, circuit, start, manifest>>

NoRestart == \A k \in Calls : restart[k].pc = "idle"

\* The procedures behind restart and update first await waitForDaemonReady.
\* Nothing keeps a second call from passing the first.
Restart ==
  /\ host = "up" /\ boot = "ok"
  /\ "overlap" \in Faults \/ (NoRestart /\ upd.pc = "idle")
  /\ Happens("restart")
  /\ LET k == used'["restart"] IN
     IF start.pc # "idle"
     THEN /\ restart' = [restart EXCEPT ![k] = [pc |-> "await", pid |-> Nil]]
          /\ UNCHANGED <<osVars, memory, start>>
     ELSE /\ Stop(k)
          /\ UNCHANGED <<sock, boot, old>>
  /\ UNCHANGED <<host, upd, auto>>

RestartAwaited(k) ==
  /\ host = "up" /\ restart[k].pc = "await" /\ start.pc = "idle"
  /\ Stop(k)
  /\ UNCHANGED <<sock, host, boot, old, upd, auto, used>>

\* The stopped daemon is gone: manifest removed, circuit cleared, ensure().
Restarted(k) ==
  /\ host = "up" /\ restart[k].pc = "term" /\ ~IsProcessAlive(restart[k].pid)
  /\ restart' = [restart EXCEPT ![k] = Idle]
  /\ crashes' = 0 /\ circuit' = FALSE
  /\ Ensure(FALSE, inst, Nil)
  /\ UNCHANGED <<procs, sock, host, boot, inst, old, poll, stopping, upd, auto, used>>

-----------------------------------------------------------------------------
\* runUpdate() up to its first await.
BeginUpdate ==
  /\ upd.pc = "idle" /\ inst # Nil
  /\ "overlap" \in Faults \/ NoRestart
  /\ stopping' = TRUE
  /\ poll' = Nil
  /\ upd' = [pc |-> "prepare", pid |-> inst, succ |-> Nil, man |-> manifest]

Update ==
  /\ host = "up" /\ boot = "ok" /\ Happens("update")
  /\ BeginUpdate
  /\ UNCHANGED <<osVars, host, boot, inst, old, circuit, crashes, start, restart, auto>>

\* runAutoUpdate once the session list is in: deferred, or an update.
AutoUpdate ==
  /\ host = "up" /\ auto
  /\ auto' = FALSE
  /\ \/ UNCHANGED <<stopping, poll, upd>>
     \/ Answering /\ BeginUpdate
  /\ UNCHANGED <<osVars, host, boot, inst, old, circuit, crashes, start, restart, used>>

RestoreOnFailure ==
  /\ stopping' = FALSE
  /\ manifest' = IF upd.man # Nil THEN upd.man ELSE manifest
  /\ poll' = upd.pid
  /\ upd' = NoUpdate

\* prepare-upgrade reaches whoever listens, which spawns its successor.
PrepareUpgrade ==
  /\ host = "up" /\ upd.pc = "prepare" /\ Answering /\ CanSpawn
  /\ procs' = [procs EXCEPT ![NewPid] = [st |-> "heir", old |-> FALSE,
                       pred |-> sock, group |-> procs[sock].group, watch |-> "none"]]
  /\ upd' = [upd EXCEPT !.pc = "ack", !.succ = NewPid]
  /\ UNCHANGED <<sock, manifest, host, memory, start, restart, auto, used>>

PrepareFails ==
  /\ host = "up" /\ upd.pc = "prepare" /\ ~Answering
  /\ RestoreOnFailure
  /\ UNCHANGED <<procs, sock, host, boot, inst, old, circuit, crashes, start,
                 restart, auto, used>>

\* upgrade-prepared {ok: true}: the predecessor starts to close.
HandoffAcked ==
  /\ upd.pc = "ack" /\ host = "up"
  /\ LET pred == procs[upd.succ].pred IN
     /\ procs[upd.succ].st \in {"heir", "serving"} /\ Serving(pred)
     /\ procs' = [procs EXCEPT ![pred].st = "closing"]
  /\ upd' = [upd EXCEPT !.pc = "waitExit"]
  /\ UNCHANGED <<sock, manifest, host, memory, start, restart, auto, used>>

\* nak, ack timeout, or the predecessor is gone: in the first two cases the
\* predecessor kills its successor.
HandoffFails ==
  /\ upd.pc = "ack" /\ host = "up"
  /\ procs' = IF Serving(procs[upd.succ].pred)
              THEN [procs EXCEPT ![upd.succ] = Signalled(@, "SIGKILL")]
              ELSE procs
  /\ RestoreOnFailure
  /\ UNCHANGED <<sock, host, boot, inst, old, circuit, crashes, start, restart,
                 auto, used>>

\* A fault: the whole tree of the predecessor is killed, its successor with it.
KillPredecessor_AndItsTree == SignalTree(upd.pid, "SIGKILL")

KillPredecessor ==
  [procs EXCEPT ![upd.pid] = Signalled(@, "SIGKILL")]

\* waitForPidExit, or SIGKILL of the predecessor alone after its timeout.
PredecessorGone ==
  /\ host = "up" /\ upd.pc = "waitExit"
  /\ procs' = KillPredecessor
  /\ upd' = [upd EXCEPT !.pc = "probe"]
  /\ UNCHANGED <<sock, manifest, host, memory, start, restart, auto, used>>

\* The version probe answered or timed out; either way the successor is it.
Updated ==
  /\ host = "up" /\ upd.pc = "probe"
  /\ procs[upd.succ].st # "heir" \/ "overlap" \in Faults
  /\ inst' = upd.succ
  /\ old' = FALSE
  /\ stopping' = FALSE
  /\ manifest' = IF upd.man # Nil THEN upd.succ ELSE manifest
  /\ poll' = upd.succ
  /\ upd' = NoUpdate
  /\ UNCHANGED <<procs, sock, host, boot, circuit, crashes, start, restart, auto, used>>

-----------------------------------------------------------------------------
\* waitForDaemonReady of a terminal request: starts the bootstrap only when none
\* has been started, or the last one failed.
Request ==
  /\ host = "up" /\ boot = "none"
  /\ IF circuit
     THEN UNCHANGED <<boot, start, manifest>>
     ELSE /\ boot' = IF inst # Nil THEN "ok" ELSE "pending"
          /\ Ensure(circuit, inst, manifest)
  /\ UNCHANGED <<procs, sock, host, inst, old, poll, stopping, circuit, crashes,
                 restart, upd, auto, used>>

HostBoots ==
  /\ host = "down"
  /\ host' = "up"
  /\ boot' = "pending"
  /\ BeginStart(manifest)
  /\ UNCHANGED <<procs, sock, inst, old, poll, stopping, circuit, crashes,
                 restart, upd, auto, used>>

\* The host-service dies: memory is lost, the detached daemons live on.
HostCrash ==
  /\ host = "up" /\ Happens("hostCrash")
  /\ "overlap" \in Faults \/ (start.pc = "idle" /\ upd.pc = "idle")
  /\ host' = "down"
  /\ procs' = [p \in Pids |-> [procs[p] EXCEPT !.watch = "none"]]
  /\ boot' = "none" /\ inst' = Nil /\ old' = FALSE /\ poll' = Nil
  /\ stopping' = FALSE /\ circuit' = FALSE /\ crashes' = 0 /\ auto' = FALSE
  /\ start' = Idle /\ restart' = [k \in Calls |-> Idle] /\ upd' = NoUpdate
  /\ UNCHANGED <<sock, manifest>>

-----------------------------------------------------------------------------
\* The daemons' own steps.
SetState(p, st) == procs' = [procs EXCEPT ![p].st = st]

\* A successor listens once its predecessor's IPC channel is closed, or a second
\* after its ack.
PredecessorOut(pred) ==
  \/ Dead(pred)
  \/ procs[pred].st \in {"wedged", "stuck", "hung"}
  \/ "slowHandoff" \in Faults

\* listen(): the path is unlinked and bound anew, whoever had it.
Binds(p) ==
  /\ \/ procs[p].st = "booting"
     \/ procs[p].st = "heir" /\ PredecessorOut(procs[p].pred)
  /\ SetState(p, "serving")
  /\ sock' = p
  /\ UNCHANGED <<manifest, host, memory, start, restart, upd, auto, used>>

\* close(): the path is unlinked, whoever has it, and the process exits.
Closes(p) ==
  /\ Closing(p)
  /\ SetState(p, "dead")
  /\ sock' = Nil
  /\ UNCHANGED <<manifest, host, memory, start, restart, upd, auto, used>>

Crash(p) ==
  /\ Alive(p) /\ Happens("crash")
  /\ \/ "overlap" \in Faults
     \/ /\ procs[p].st \in {"serving", "wedged", "stuck", "hung"}
        /\ start.pc # "ready" /\ upd.pc = "idle"
     \/ "startup" \in Faults /\ procs[p].st = "booting" /\ start.pid = p
  /\ SetState(p, "dead")
  /\ UNCHANGED <<sock, manifest, host, memory, start, restart, upd, auto>>

Wedge(p) ==
  /\ "wedge" \in Faults /\ Serving(p)
  /\ "overlap" \in Faults \/ upd.pc = "idle"
  /\ SetState(p, "wedged")
  /\ UNCHANGED <<sock, manifest, host, memory, start, restart, upd, auto, used>>

\* It answers again, or finds the SIGTERM it was sent.
Recovers(p) ==
  /\ procs[p].st \in {"wedged", "stuck"}
  /\ SetState(p, IF procs[p].st = "wedged" THEN "serving" ELSE "closing")
  /\ UNCHANGED <<sock, manifest, host, memory, start, restart, upd, auto, used>>

\* SIGKILL after DAEMON_TERMINATE_TIMEOUT_MS of a terminate in flight.
Escalate(p) ==
  /\ host = "up" /\ Alive(p)
  /\ \/ start.pc \in {"term", "termChild"} /\ start.pid = p
     \/ \E k \in Calls : restart[k] = [pc |-> "term", pid |-> p]
  /\ procs' = SignalTree(p, "SIGKILL")
  /\ UNCHANGED <<sock, manifest, host, memory, start, restart, upd, auto, used>>

-----------------------------------------------------------------------------
\* A host-service boots on a machine where no daemon runs, or where one was left
\* serving, of an older version perhaps, with or without its manifest.
NoProc == [st |-> "unused", old |-> FALSE, pred |-> Nil, group |-> Nil,
           watch |-> "none"]

Left(p, isOld) == [NoProc EXCEPT !.st = "serving", !.old = isOld, !.group = p]

Init ==
  /\ \/ /\ "nothing" \in Finds
        /\ procs = [p \in Pids |-> NoProc]
        /\ sock = Nil /\ manifest = Nil
     \/ /\ \E v \in Finds \ {"nothing"} :
             procs = [p \in Pids |-> IF p = 1 THEN Left(p, v = "old") ELSE NoProc]
        /\ sock = 1 /\ manifest \in {1, Nil}
  /\ host = "down" /\ boot = "none" /\ inst = Nil /\ old = FALSE
  /\ start = Idle /\ restart = [k \in Calls |-> Idle] /\ upd = NoUpdate
  /\ auto = FALSE /\ poll = Nil
  /\ stopping = FALSE /\ circuit = FALSE /\ crashes = 0
  /\ used = [e \in Events |-> 0]

StartStep == \/ ConnectManifest \/ ProbeManifest \/ TerminateStale
             \/ TermStaleDone \/ ConnectSocket \/ ProbeSocket
             \/ SpawnReady \/ SpawnTimeout \/ SpawnFailed
UpdateStep == \/ PrepareUpgrade \/ PrepareFails \/ HandoffAcked \/ HandoffFails
              \/ PredecessorGone \/ Updated
RestartStep == \E k \in Calls : RestartAwaited(k) \/ Restarted(k)
Supervise == LivenessPoll \/ AutoUpdate \/ Request \/ HostBoots

Next ==
  \/ StartStep \/ UpdateStep \/ RestartStep \/ Supervise
  \/ Restart \/ Update \/ WindowPasses \/ HostCrash
  \/ \E p \in Pids : \/ ExitEvent(p) \/ Binds(p) \/ Closes(p) \/ Crash(p)
                     \/ Wedge(p) \/ Recovers(p) \/ Escalate(p)

Spec == Init /\ [][Next]_vars

\* Promises settle, timers fire and events are delivered while the host-service
\* runs, a dead one is started again, and processes finish what they began.
Fairness ==
  /\ WF_vars(StartStep) /\ WF_vars(UpdateStep) /\ WF_vars(RestartStep)
  /\ WF_vars(LivenessPoll) /\ WF_vars(AutoUpdate) /\ WF_vars(Request)
  /\ WF_vars(HostBoots)
  /\ \A p \in Pids : /\ WF_vars(ExitEvent(p)) /\ WF_vars(Binds(p))
                     /\ WF_vars(Closes(p)) /\ WF_vars(Escalate(p))

FairSpec == Spec /\ Fairness

-----------------------------------------------------------------------------
\* Properties -----------------------------------------------------------------

\* Types; every phase of a start or of an update carries the process it will
\* signal or adopt.
Maybe == Pids \cup {Nil}
Proc == [st : {"unused", "booting", "heir", "serving", "wedged", "stuck", "hung",
               "closing", "dead"},
         old : BOOLEAN, pred : Maybe, group : Maybe,
         watch : {"none", "early", "handler"}]
Starts == [pc : {"idle", "sockConnect", "sockProbe"}, pid : {Nil}]
     \cup [pc : {"connect", "probe", "reject", "term", "ready", "termChild"}, pid : Pids]
Restarts == [pc : {"idle", "await"}, pid : {Nil}] \cup [pc : {"term"}, pid : Pids]
Updates == {NoUpdate}
      \cup [pc : {"prepare"}, pid : Pids, succ : {Nil}, man : Maybe]
      \cup [pc : {"ack", "waitExit", "probe"}, pid : Pids, succ : Pids, man : Maybe]

TypeOK ==
  /\ procs \in [Pids -> Proc]
  /\ sock \in Maybe /\ manifest \in Maybe
  /\ host \in {"up", "down"} /\ boot \in {"none", "pending", "ok"}
  /\ inst \in Maybe /\ poll \in Maybe
  /\ start \in Starts /\ restart \in [Calls -> Restarts] /\ upd \in Updates
  /\ old \in BOOLEAN /\ auto \in BOOLEAN
  /\ stopping \in BOOLEAN /\ circuit \in BOOLEAN
  /\ crashes \in Nat
  /\ used \in [Events -> Nat]

\* No daemon is left behind: one that serves is the one the socket path leads
\* to.  A second listener on the path would hide the first with its sessions.
NoOrphan == \A p \in Pids : Serving(p) => sock = p

\* Outside an update, the daemon the supervisor believes in is the one that
\* answers; a wrong pid is the one restart and the liveness poll would act on.
InstanceIsTheDaemon ==
  inst # Nil /\ Answering /\ upd.pc = "idle" => inst = sock

\* One daemon, through crashes, wedges, restarts, an update and crashes of the
\* host-service: whatever serves is reachable, and is what the supervisor acts on.
OneDaemon == NoOrphan /\ InstanceIsTheDaemon

Spawned == \E p \in Pids : procs[p].st = "unused" /\ procs'[p].st = "booting"

\* The crash budget: after more than CrashBudget crashes in the window no daemon
\* is spawned, however the crashes, adoptions and requests interleave.
RespawnsAreBounded == [][Spawned => crashes <= CrashBudget /\ ~circuit]_vars

\* Someone always holds the shells: no step but a daemon's own failure, or the
\* user's restart, ends the last healthy process that has the sessions' descriptors
\* - not an adoption by a new host-service, not a failed handoff, not the
\* predecessor's exit.
Holds(p) == procs[p].st \in {"serving", "heir"}
SessionsOutliveHostAndUpdate ==
  [][(\E p \in Pids : Holds(p))
       => \/ \E p \in Pids : Holds(p)'
          \/ \E p \in Pids : Crash(p) \/ Wedge(p)
          \/ Restart \/ \E k \in Calls : RestartAwaited(k)
          \/ TerminateStale]_vars

\* An exit nobody asked for is a crash: it is counted (comments on stopping and
\* on CRASH_BUDGET).
UnaskedExitIsACrash ==
  [][\A p \in Pids :
       ExitEvent(p) /\ inst = p /\ NoRestart /\ upd.pc = "idle"
         => crashes' = crashes + 1]_vars

\* A spawned daemon that dies is replaced, unless the circuit has opened, an update
\* begins, which takes the exit for its predecessor's, a restart has left its mark,
\* which swallows it (UnaskedExitIsACrash), or its replacement ends before it
\* listens, which nobody retries (DaemonSupervisor.ts:1012-1033, 1076-1083).
CrashedChildIsReplaced ==
  \A p \in Pids :
    (inst = p /\ Dead(p) /\ procs[p].watch = "handler" /\ upd.pc = "idle" /\ ~stopping)
      ~> \/ circuit \/ host = "down" \/ upd.pc # "idle"
         \/ start.pc = "termChild"
         \/ inst \notin {Nil, p}

\* The bootstrap every terminal request awaits settles, whatever it finds: no
\* daemon, a wedged one, a manifest of a dead one, a child that ends at once.
BootstrapSettles ==
  (host = "up" /\ boot = "pending") ~> (boot # "pending" \/ host = "down")

\* An instance that was cleared comes back: the next ensure() respawns it.
ClearedInstanceComesBack ==
  (host = "up" /\ boot = "ok" /\ inst = Nil)
    ~> (inst # Nil \/ circuit \/ host = "down")
=============================================================================
