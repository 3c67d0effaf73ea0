# Formal model of loop's host runtime

loop runs coding agents in worktrees and shows their terminals and transcripts on
the desktop, on the web and on the phone. What makes that work is a handful of long
running processes that outlive each other: a `pty-daemon` that holds the shells, a
`host-service` that supervises it, runs the agents and serves the clients, a `relay`
that tunnels remote clients to it, and a cloud that mirrors the workspaces. This
directory models them in TLA+, checks the models with TLC on small instances and
proves what matters most with TLAPS for all of them.

Paths are relative to the repository root; `pty-daemon` and `host-service` stand for
`packages/pty-daemon/src` and `packages/host-service/src`.

    tlc -workers 2 -config MCPtyDaemon.cfg MCPtyDaemon      (and so on, see Runs)
    tlapm TerminalProofs.tla

An operator named `F_Xyz`, before an operator `F`, is `F` with a plausible bug. The
specifications never use it; putting it in the place of `F` makes the property
`PROJECT.json` pairs it with fail, which shows that the property says something
about the code.

## 1. The system

### pty-daemon: the shells
*State* (`Server`, `SessionStore`, `Pty`): the sessions by id, each with a pseudo
terminal, a ring of its newest output (64 KB) and a kill timer; the connections,
each negotiated or not, with its subscriptions and what is still in its socket's
buffer. *Operations*: hello, open, input, resize, close, list, subscribe with or
without replay, unsubscribe, prepare-upgrade; output and exit of a shell; shutdown.
*Interacts* by frames on a unix socket with the host-service, by signals and IPC with
its supervisor and its successor. *Hard*: replay against live output, an exit against
the subscriptions it ends, a reader too slow for its buffer, shells that ignore
polite signals, and handing the descriptors to a new version of itself while it goes
on serving. *Correct when* a subscriber is sent the terminal's output from where it
began, once and in order, and then the exit; memory is bounded; a closed session
ends; a handoff keeps the shells and leaves one daemon.

### DaemonSupervisor: the life of the daemon
*State*: the instance believed in, the start, restart and update in flight, the
`stopping` mark, crash times and circuit, the liveness timer of an adopted daemon,
the bootstrap promise; outside it the manifest file, the socket path and the
processes. *Operations*: ensure, start (adopt by manifest, adopt by socket, spawn),
restart, update (a handoff), auto-update, the exit handler, the liveness poll.
*Hard*: everything awaits, several methods run at once, restarts among them, the daemon and the
host-service crash independently, and what a restarted host-service finds is a file
and a path that may not agree. *Correct when* there is one daemon, the supervisor
knows which, shells survive host-service restarts and updates, and a crash loop stops.

### Terminal sessions of the host-service
*State*: sessions by terminal id with sockets, a replay buffer and a mode tracker; a
row per terminal; one client of the daemon with its pending requests and
subscriptions. *Operations*: create or adopt, attach, input, dispose, daemon
disconnect, the reaper's passes. *Hard*: the same id created twice at once, dispose
against creation, output between open and subscribe, the reaper acting on a list
read before its awaits. *Correct when* a row, a live session and a shell agree or
something will make them agree, and a viewer is served by the shell the daemon has.

### ACP agent sessions and their stream
*State*: a runtime per live session (adapter process, state, permissions waiting for
an answer), the creations in flight, offline records, a bounded journal of numbered
envelopes, and subscribers; on the client's side a cursor and a reconnect timer.
*Operations*: create, ensureLive, prompt, cancel, respond to a permission, delete,
subscribe, page; adapter exit. *Hard*: first answer to a permission wins, adapter
death at any await, replay and live attachment, cursors kept across a restart of
the host. *Correct when* the transcript a client folds is the one journaled, each
permission is settled once, and a session has at most one adapter.

### Relay and tunnel client
*State*: tunnels by host with pending requests and channels, a directory in Redis of
which machine has which host, versions of online writes; at the host one socket with
local channels. *Operations*: register, unregister, request, open and close a
channel, drain, heartbeat, sweep; connect, reconnect. *Hard*: awaits in registration,
deletes that are not awaited, deploys that drain. *Correct when* the directory leads
to the tunnel that is up, or soon will, and the host is shown as what it is.

### Workspaces
*State*: local rows with a dirty flag and an `updatedAt`, tombstones, cloud rows, the
worktree on disk. *Operations*: create, rename, delete, push, reconcile, backfill,
relink, destroy, and the removal of the whole project. *Hard*: a push in flight while
the row changes, a crash between the row and its tombstone, worktrees git will not
remove. *Correct when* local and cloud converge, nothing deleted comes
back, and a failed deletion can be repeated.

### The rest
`GitWatcher` and the git-status limiter (debounce, priorities, starvation), the pull
request cache, the older chat runtime, terminal agent bindings, the pane layout store
(pure tree operations), workspace-fs, the desktop's host-service coordinator (the
same adoption problem one level up), the cloud API. User interfaces, the command
line, the SDK, the MCP servers, database schemas, mail and sites have no concurrent
state of their own. `PROJECT.json` lists each with its status.

## 2. The modules

| module | models | theorems |
|---|---|---|
| `PtyDaemon` | the daemon in its steady state | `TerminalProofs` |
| `PtyHandoff` | an update of the daemon seen from inside both processes | `PtyHandoffProofs` |
| `DaemonSupervisor` | the supervisor, the processes, the manifest, the socket path | `DaemonSupervisorProofs` |
| `TerminalSessions` | one terminal at the host-service: row, session, client, reaper | `TerminalProofs` |
| `AcpRegistry` | which agent sessions there are and which adapter serves each | `AcpRegistryProofs` |
| `AcpTurn` | one live agent session: prompts, permissions, forms, tool calls | `AcpTurnProofs` |
| `SessionJournal` | the ring of a session's envelopes | `SessionStreamProofs` |
| `SessionStream` | journal, stream and client of a session, composed | `SessionStreamProofs` |
| `Transcript` | what the stream promises its reader; `SessionStream` implements it | |
| `RelayTunnel` | relay machines, directory, online flag, tunnel client | `RelayTunnelProofs` |
| `WorkspaceSync` | local rows, cloud rows, pushes, reconciler, deletion saga | `WorkspaceSyncProofs` |

`MCxxx` is `xxx` for TLC, with the constants in the configurations.

How they fit. `DaemonSupervisor` sees a daemon as a process that boots, serves, hands
over and closes; `PtyHandoff` opens that handoff up and takes from the supervisor only
that one goes on at a time; `PtyDaemon` is a daemon between handoffs.
`TerminalSessions` uses the daemon as `PtyDaemon` shows it to be: one shell per id,
replies in order, an exit sent to whoever is subscribed. `AcpRegistry` decides that a
session is live and `AcpTurn` is what a live one does; `SessionStream` carries what it
journals, and `EXTENDS` `SessionJournal`. The three are not composed with each other:
they share one step (a session becomes live, or is dead), which each has.

In every module a stretch of JavaScript between two awaits is one action, since
nothing else runs in the process meanwhile; a timeout is a choice; `Faults` or
`MaxFaults` says what may go wrong; variables marked *ghost* or *history* are not in
the code and are read by properties only.

### PtyDaemon
Node runs each callback to its end, so each callback is one action, with every reply
it sends. `store` is `SessionStore.sessions`, `conns` the Server's `conns` with the
socket's state; `feed` is not in the code: it records what each connection was sent of
each session since it subscribed, which is what the client can know.

Output is abstracted to offsets. A session's stream is 0, 1, 2, ..., a chunk is an
interval, and the ring is its first retained offset with the places where chunks
begin. Eviction (`SessionStore.ts:88-98`) then is a choice of the boundary the loop
stops at, and the ring's counter `bytes` stays a variable of its own because the code
keeps it apart from what it counts. A control frame counts one byte in the outbound
buffer, an output frame one more than its payload.

`Kill` is `NodePtyAdapter.kill`: SIGHUP may be ignored by the shell, and arms
`killTimer`; `KillEscalation` is its callback. `PtyExit` is the exit handler, a step of
its own after the shell dies: between the two the session is in the store with a dead
shell. A connection has three states because `socket.destroy()` in `writeMessage`
returns before the 'close' event that removes the connection.

### PtyHandoff
Processes are numbered; `head` is the daemon in charge and `heir` its successor.
`store`, `ring` and `timers` belong to each process, `fds` says which processes hold a
shell's terminal open, and `offer` is the snapshot file. `Read(p, sh)` lets either
process take the next chunk once both have the descriptor, which is what the kernel
does. The steps follow `prepareUpgrade` (snapshot and spawn), `runHandoffReceiver`
(adopt, acknowledge, wait for the predecessor, bind), and `finalizeHandoff`
(close the server, unlink, exit). Faults, one of each at most: the acknowledgement
comes late (*stall*), the successor refuses (*nak*), a process is lost (*crash*), the
predecessor takes more than the second the successor waits (*slow*). That second runs
from the successor's own acknowledgement: under *slow* it binds whatever the predecessor
is at, closing, or still about to read the acknowledgement, or about to give up on it.

### DaemonSupervisor
`start` and `upd` hold the program counter of the one start and update that can be in
flight, with the locals that survive the await (the pid to signal, the manifest read
before the handoff); `restart` does so for each call of `forceRestart`, which nothing
coalesces. `procs` has the processes: booting, heir (a successor that adopted and waits
for its predecessor), serving, closing, dead, and three that do not answer: wedged, which
may recover, stuck, which will then find the SIGTERM it was sent, and hung, which never
will. So a daemon may recover between a failed probe and the signal, or after it. `watch`
says whether the host-service hears of a process's exit, and whether
the handler that acts on it is attached yet. `sock` is the process the socket path
leads to: `Binds` takes the path from whoever has it, `Closes` unlinks it whoever has
it, as `listen()` and `close()` do. `manifest` is the pid in the file. `HostCrash`
forgets all memory and leaves the processes, which are detached. `Finds` says what the
first host-service finds: no daemon, a current one or an old one. `WindowPasses` takes
one crash out of the window, the oldest.

SIGKILL after a polite signal is `Escalate`. A dead child whose exit event has not been
delivered is a zombie, which still answers signal 0 (`IsProcessAlive`).

`Faults` names what else may happen. *wedge*: a serving daemon stops answering,
and may recover. *lateRecovery*: even once another has been spawned in its place.
*startup*: the child of a start ends before it listens. *slowHandoff*: a predecessor
takes longer to act on the acknowledgement and to close than the second its successor
waits. *overlap*: two restarts, or a restart and an update, at the same time; a
host-service crash, or a daemon's crash or wedge, while a start or an update is in
flight; a wait for a healthy child's socket that is too short. Under *overlap*,
*slowHandoff* and *lateRecovery* the code does lose track of daemons, so `OneDaemon` is
checked and proved without them, and what holds even so (`RespawnsAreBounded`, the types)
is proved for any `Faults`.

### TerminalSessions
One terminal id. `tasks` has the requests in flight, each a program counter with the
locals it keeps (which daemon client it uses, whether it may only adopt); `clients` are
the daemon clients this process made, each with the messages it sent and has not been
answered, because `daemon-client-singleton.ts` may make two; `objs` are the session
objects, of which `current` is the one in the map. An answer that has arrived runs its
continuation before the process's next event (`Quiet`): promises go before callbacks.
`ReaperPass` and `Reap` are the two halves of a pass, with the daemon's list between.
`Overlaps` lets creations of the id overlap; see Known behaviours. `TerminalInit`,
`TerminalNext` and `TerminalSpec` are what other modules call `Init`, `Next` and `Spec`:
`TerminalProofs` is about this module and `PtyDaemon`, the two ends of a terminal, and
extends both.

### AcpRegistry and AcpTurn
`runtimes`, `creations` and `offline` are the maps of `AcpSessionManager`; `graveyard` is
the order in which `evictDeadRuntimes` takes dead runtimes; `rows` is what is persisted.
A transcript is named by the adapter that started it, so "the session still has its
transcript" is an equality. A creation has two awaits (the workspace's directory, the
adapter's handshake), at each of which it may fail, the adapter may die, or the
manager may be disposed of. The host hears of an adapter's end by its exit or by its
connection's: `state` is the connection's, `alive` the process's, and the one may close
(`ConnectionCloses`) while the other goes on, on a runtime that is dead by then.

`AcpTurn` is one runtime. `pipe` is what the adapter wrote and the host has not read;
the process may be gone while its last reports are unread. `rt` has the runtime's
fields and, beside them, what the fold of its journal shows: the last state frame, the
state of each tool row, the resolution of each card. `about` says in which row the cards
of a request are shown: that of the tool call it names, or one of a form's own if it
names none. `Park` opens that row, again if it had ended and for the first time if the
tool call was never reported, without counting it as a tool call in flight. A form is
asked question by question. A prompt's rejection when the connection closes, and the
abort of its cards with it, are one step.

### SessionJournal, SessionStream, Transcript
The journal's ring has the code's representation (slots, start, size, next number).
`SessionStream` puts the host's `journalFrame`, `subscribe` and `page`, the socket, and
the client's hook together. `client` is the hook (phase, epoch, timeline, cursor), `conn`
and `wire` the socket and what is in it. An envelope carries its incarnation, which the
real one does not: the client never looks at it, the properties do. `Transcript` knows
only what was said and which stretch is shown; `ShownStretch`, `Said` and `Incarnation`
are the refinement mapping, and `ShowsATranscript` is checked as a property and proved.

### RelayTunnel
`sockets` are the tunnel sockets ever made, each with the machine it is at, where its
register is (arriving, writing the directory, served, over), and the state of each end;
a socket may be gone at one end only. `calls` are the directory's calls in flight,
applied in any order; `writes` are a machine's online writes, with the debounce
(`timer`), the version counter and the attempts of the code. Draining, exiting and
starting a machine are steps, and the heartbeat and the time to live of the directory
entry are there as `fresh`.

### WorkspaceSync
`rows` are local rows with the time of their last write and whether `cloudSyncedAt` is
set, `cloud` the cloud's rows, `tombs` the tombstones, `trees` the worktrees. `calls` are
the pushes and deletes on their way, several per workspace; a push is two requests
(create or confirm, then a rename if the cloud's name is the older), each of which is
asked, served by the cloud at a time of its own, and answered. `pass` is the reconciler,
which takes its lists at the beginning; `destroys` is the deletion saga, whose worktree
goes before its row; without the project's row (`project` is *lost*) it skips the
worktree and deletes the row all the same. `removal` is `project.remove`: the cloud's
project and with it the cloud's workspaces, then the worktrees, of which git may refuse
any, then the rows, without tombstones. Faults: a request or a removal fails (*fail*),
the host-service crashes (*crash*), or does so between the two statements of a deletion
(*torn*), the project's row is missing (*metadata*). `wish`, `late` and `torn` are ghosts:
the name the user wrote last, the workspaces of which an overtaken call was served, and
those whose deletion a crash tore.

## 3. The runs

| run | configuration | properties | distinct states |
|---|---|---|---|
| `daemon` | `MCPtyDaemon.cfg` | `RingKeepsTheNewest` `FeedIsComplete` `ExitReachesSubscribers` `NothingFollowsExit` `CloseEndsTheSession` | 71 thousand |
| `handoff` | `MCPtyHandoff.cfg` | `ReplayIsOrdered` `SessionsSurvive` `OneReader` `HandoffEnds` `DeadSessionsLeave` | 208 thousand |
| `supervisor` | `MCDaemonSupervisor.cfg` | `OneDaemon` `RespawnsAreBounded` `SessionsOutliveHostAndUpdate` `CrashedChildIsReplaced` `BootstrapSettles` | 95 thousand |
| `session_stream` | `MCSessionStream.cfg` | `JournalServesTheTail` `TimelineIsExact` `HasOlderIsHonest` `CatchesUp` `ShowsATranscript` | 331 thousand |
| `terminal` | `MCTerminalSessions.cfg` | `ViewersAreServed` `DisposeIsFinal` `ReaperReclaims` | 489 thousand |
| `acp_registry` | `MCAcpRegistry.cfg` | `OneAdapterPerSession` `SessionsAreKept` `DisposeLeavesNoAdapter` `TranscriptIsKept` | 1.4 million |
| `acp_turn` | `MCAcpTurn.cfg` | `StateFrameIsCurrent` `FirstAnswerWins` `NothingLeftRunning` `CancelEndsTheTurn` | 209 thousand |
| `relay` | `MCRelayTunnel.cfg` | `NoDanglingSocket` `HostIsServed` `OfflineIsShown` `LiveTunnelIsKept` `DirectoryIsNotStolen` | 346 thousand |
| `workspaces` | `MCWorkspaceSync.cfg` | `DeletedStaysDeleted` `LastWriteWins` `NoOrphanWorktree` `SyncSettles` | 882 thousand |
| `supervisor_restart`, `supervisor_adopted`, `workspace_rename` | `MCSupervisorRestart.cfg`, `MCSupervisorAdopted.cfg`, `MCWorkspaceRename.cfg` | one each, violated: see Findings | |

What each shows, with which bounds, and why those are enough:

**daemon.** Two clients, one id that may be opened twice, a ring of one byte, chunks of
one and of two bytes (at and over the ring), two bytes of output each time, an outbound
cap of three. It reaches: eviction that stops early and that empties the ring because
the last chunk is too large; a client that subscribes again, to the same session or to
its successor under the id; a client destroyed in the middle of a fan-out; exit with
and without subscribers. Two incarnations and two clients suffice because a handler
looks at one session and, on fan-out, at each connection by itself; the proofs remove
the bounds for everything but `CloseEndsTheSession`. Fairness: the escalation timer
fires and exits are delivered while the process runs (libuv does both). What clients
send and when a shell ends by itself is not fair.

**handoff.** One id, one shell that prints three chunks into a ring of two, two handoffs
in a row (so an adopted session is handed over again), one fault. Sessions do not
interact in a handoff, so one shows what any would; a session opened while a handoff is
on is one of the behaviours. Fairness: each process finishes what it began (connect,
read, adopt, acknowledge, close, unlink, exit), per process. Prepare-upgrade, output,
closing and faults are not fair. All five properties hold with two faults as well (617
thousand states, three times the time), and `MCHandoffFaults.cfg` has three.

**supervisor.** Nine processes, a crash budget of one, two daemon crashes, two restarts,
an update, a host-service crash, nothing found at first or a daemon of an older version
(which starts the auto-update), wedges, from which a daemon may recover as long as nobody
took its place, and children that die before they listen. Nine pids are
more than the bounded events can use up, so no spawn is refused for want of one. A
budget of one makes the circuit open, close by a restart, and open again. Fairness:
promises settle, timers fire, events are delivered, a dead host-service is started
again by the desktop's coordinator or its service manager, and a process finishes a
boot, a handoff or a close it began. Requests for a terminal are fair too (`Request`):
the properties are about hosts somebody uses. Restart, update, crashes and wedges are
not fair, nor is a recovery. `StartStep` and `UpdateStep` are each one thread with one
program counter, so weak fairness of their disjunction is fairness of the method; so is
`RestartStep` here, where restarts follow each other.

**session_stream.** A journal of two slots and pages of one message, four envelopes in
the first incarnation and three in the second, one host restart, one fault (a cut, a
lost, repeated or garbled frame, back-pressure, a failed load, request or page, or a
refresh). The journal goes round twice, a page is older than what the ring holds, and
four envelopes are what a gap between two messages on screen takes. `ScrollsInResync` is
`FALSE`: see Known behaviours. Fairness: who waits for an offline session makes it load,
and load, attach, answers, connect, delivery and close events happen; what the agent
says, what the user does and faults are not fair. `CatchesUp` excuses a client whose
resync failed (it shows the error) and a last frame that was lost, which nothing
announces until the next one. `ShowsATranscript` is the refinement of `Transcript`.

**terminal.** Two request slots, three requests, two shells, three clients of the daemon,
one failure (a cut connection, a failed connect or close, a timeout, a daemon replaced
with or without its shells, a crash of the host-service). Three requests are a creation,
a viewer and a disposal or a second of either; three clients are one more than a failure
can use up. `Overlaps` is `FALSE`: see Known behaviours. Fairness: the bootstrap settles,
the daemon answers and its messages are delivered, a cut connection is noticed, the
reaper passes, continuations run. Requests, failures and deaths of shells are not fair,
except that a shell told to end does. `TerminalProofs` removes the bounds for
`ViewersAreServed` and `DisposeIsFinal`; `ReaperReclaims` is checked here only.

**acp_registry.** Three sessions, a graveyard of one, three adapters, one crash: two dead
sessions make an eviction, while a third is live or being created. Any adapter may close
its connection and live on. Safety only.

**acp_turn.** Two users, two prompts, one tool call, one permission and one form of two
questions, two unread reports. Two users race for a card, two prompts make a turn that
ends while another goes on; the permission is about the tool call, and the form about it
or about nothing. `LateUpdates` is `FALSE`: an adapter reports on tools within a turn,
which is what the code expects of it. `Unreported` is `FALSE` too: it asks about tool
calls it has reported and does not end them while it asks (Known behaviours). Fairness:
the host reads what is in the pipe and hears of the exit; an adapter answers a prompt
that was cancelled (which the protocol asks of it; if it dies instead, its death is
noticed).

**relay.** Two machines, three sockets, one drop, crash or failed call, one drain, two
attempts of an online write. Two machines make a stale entry of another's; three
sockets are a connection, its loss, and a late close among two registers. `ApiInOrder` is
`TRUE`: see Known behaviours. Fairness: handlers, calls, timers and closing make progress,
and the host goes on connecting (its reconnect loop has no limit). Drops, drains,
crashes and the age of the directory entry are not fair. `HostIsServed` and
`OfflineIsShown` say what the end of the bounded sockets excuses.

**workspaces.** One workspace, three names, two calls under way, users that act until the
clock says four, two faults of any of the four kinds, renames at this host and in the cloud.
Nothing in the code relates two workspaces but the order of the reconciler's passes, which
the properties do not see, and the removal of their project, for which
`MCWorkspaceProject.cfg` has two. Fairness: the reconciler's passes, the saga's steps and
the calls of each workspace go on; users, failures, crashes and the removal of a project
are not fair. `DeletedStaysDeleted` and
`LastWriteWins` excuse workspaces of which a call that had been overtaken was served
(`late`); `RenameIsKept` does not, and is the finding. The project may be removed at any
time; `NoOrphanWorktree` is about a project the host and the cloud still have.

The configurations turn deadlock checking off where the system rightly stops: a daemon
that was shut down, an adapter that is gone, users who have nothing left to ask.

The type invariants (`TypeOK`, `TerminalTypes`) say what every variable is; those of `PtyDaemon`,
`DaemonSupervisor`, `AcpRegistry`, `RelayTunnel` and `AcpTurn` are proved, as parts of the inductive
invariants. Those of the other modules are there for the reader and are in no run
(`Typed` in `TerminalProofs` has the sets that `TerminalSessions` takes its values from).

More configurations are kept beside the runs. Four are of counterexamples that Known
behaviours describes: `MCTerminalLostExit.cfg` (`ExitIsNoticed`), `MCAcpEviction.cfg`
(`CreateResurrects`), `MCRelayVisible.cfg` (`TunnelIsVisible`) and `MCWorkspaceTorn.cfg`
(`DeletionIsReplayed`). Three are of safety on instances of another shape:
`MCHandoffFaults.cfg` (three faults, two sessions that print nothing),
`MCSupervisorOverlap.cfg` (all five faults, two restarts and an update that overlap;
`RespawnsAreBounded` holds, `OneDaemon` would not) and `MCWorkspaceProject.cfg` (two
workspaces whose project is removed).

### Findings
1. *A restart leaves its mark* (`supervisor_restart`). `stop()` deletes the instance and
   then marks the organization as stopping; the exit handler of the child returns at once
   because the instance is gone, and the mark stays. The next unasked exit of a daemon is
   taken for the restart's: not counted, not respawned (`DaemonSupervisor.ts:486, 1037,
   1041`). In the run the host-service finds no daemon and spawns one, which the user
   restarts; the second crashes. An adopted daemon, which has no exit handler, leaves the
   mark as well.
2. *An adopted daemon that dies is not replaced* (`supervisor_adopted`). The liveness poll
   clears the instance "so the next `ensure()` call respawns", but a request calls
   `ensure()` only when there is no bootstrap promise, and the one that succeeded is
   kept (`singleton.ts:64, 94`). `getDaemonClient` throws until a user restart.
3. *A rename loses against its own create* (`workspace_rename`). A rename that commits
   while the create is on its way is older than the cloud's row, which is made when the
   create arrives; the push of the rename then takes the cloud's name for the newer one
   and writes it over the user's (`workspace-cloud-sync.ts:115-124`).

## 4. Known behaviours

What follows the models show, or leave out by a named bound or constant, and the
properties are stated so as not to depend on. None is claimed to be right.

*Handoff.*
- A session opened while a handoff is on is in neither snapshot nor descriptors: the
  predecessor's exit hangs its shell up (`Server.ts:172`). `SessionsSurvive` excuses it.
- A successor that is killed because its acknowledgement came late had been reading the
  terminals; what it read is gone (`Server.ts:511`).
- What the predecessor reads after the snapshot is sent to its clients and is in no
  replay of the successor (`Server.ts:129`).
- A predecessor slower than a second unlinks the path its successor has bound
  (`main.ts:177-179`, `Server.ts:306`). `HandoffEnds` excuses the path then.
- A successor that has bound may still be killed by its predecessor's timeout: the
  predecessor goes on with its sessions and without a path, and a shell opened at the
  successor meanwhile is lost with it. `SessionsSurvive` excuses that shell, which was
  opened during the handoff.
- The timer that escalates a SIGHUP is not handed over (`Pty.ts:341`).
- An adopted history is one piece, evicted whole by the first chunk past the cap, and the
  successor is built without the predecessor's `bufferCap`.

*Supervisor.*
- Restart looks neither at `updateInFlight` nor at another restart in flight
  (`DaemonSupervisor.ts:413-443`), and the manifest is written once the child is ready:
  under `overlap` or `slowHandoff` `OneDaemon` fails.
- A wedged daemon to which only the socket leads is not signalled, since its pid is not
  known (`tryAdoptFromSocket`): if it recovers after its replacement was spawned it
  serves on beside it, and under `lateRecovery` `OneDaemon` fails. One that recovers between a failed probe and the
  signal is terminated with its shells, healthy as it is; `SessionsOutliveHostAndUpdate`
  excuses `TerminateStale`. The prepare-upgrade that a wedged daemon reads after its
  caller gave up is not modelled.
- A respawned child that dies before it listens is retried by nobody
  (`DaemonSupervisor.ts:1012-1033`).
- A wedged daemon on the path is accepted by the wait for the child's socket.

*Terminals.*
- A shell that ends between the answer to `open` and `subscribe` has its exit sent to
  nobody, and the session is never marked exited (`terminal.ts:1141`).
- Creations of an id that overlap each other or a disposal break `ViewersAreServed` and
  `DisposeIsFinal` (`Overlaps`). No property covers these overlaps, which are the hazards
  `PROJECT.json` lists without one; the theorems of `TerminalSessions` are about the rest.

*Agent sessions.*
- A session evicted from the graveyard is in neither map until a restart; creating it
  again starts another transcript and overwrites the row (`acp-sessions.ts:912`).
  `SessionsAreKept` and `TranscriptIsKept` excuse the evicted (`forgotten`).
- The adapter of an evicted session that had closed its connection and lived on is known
  to nobody, and killed by nobody. `DisposeLeavesNoAdapter` excuses it.
- A row made for a permission about a tool call that was never reported (`fold.ts:165`),
  or opened again by a form's next question after the adapter ended its tool call, is
  not among the tool calls in flight, and stays open after the turn: with `Unreported`
  `NothingLeftRunning` fails.
- A cursor of before a restart is not refused when the new journal's numbers have passed
  it (`StaleCursorIsRefused` fails); the seed and the gap check keep the timeline exact.
- Scrolling back while a resync is under way lets a page of the old timeline into the
  new one (`useAcpSession.ts:187-196`): `HasOlderIsHonest` and `TimelineIsExact` fail with
  `ScrollsInResync`.

*Relay.*
- A register that took long may be served after that of a newer socket of the host, and
  take its place (`tunnel.ts:102-109`): the newer is closed, and the host connects again.
  `LiveTunnelIsKept` lets any socket of the host that becomes the tunnel do that.
- A late unregister takes the entry of the same host's newer tunnel on the same machine;
  the heartbeat renews only what exists (`directory.ts:70, 99`).
- Online writes that reach the API out of order may leave a host that is gone shown as
  online: the version counter is deleted on success (`tunnel.ts:313`, `ApiInOrder`).
- A reconnection while an offline write is in flight is dropped as redundant
  (`tunnel.ts:271`), and a machine that drains or crashes writes no offline.
- The pongs of one machine keep another machine's stale entry alive.

*Workspaces.*
- A create that arrives after the deletion revives the workspace in the cloud, and two
  pushes of overlapping renames may leave the older name there while the row is synced.
- The row of a deletion and its tombstone are two statements outside a transaction
  (`local-workspace-store.ts:191-198`, against line 182; the relink at line 248 has one for
  this reason): a crash between them leaves neither, and nothing ever deletes the
  workspace in the cloud (`DeletionIsReplayed`). `DeletedStaysDeleted` excuses it (`torn`).
- A worktree whose removal was skipped because the project's row is missing
  (`workspace-cleanup.ts:301-308`), or refused by git while the project was removed
  (`project.ts:664-687`), stays on disk without a row. `NoOrphanWorktree` is about
  projects the host and the cloud have. The database's foreign keys forbid a missing
  project row; the saga and its test provide for it.
- A project's removal that fails or crashes after the cloud's deletion leaves rows that no
  push can sync until it is run again; `SyncSettles` excuses them. One removal of a
  project runs at a time in the model.
- Last write wins is decided by the row's time, so a local write of something other than
  the name lets an older name overwrite the cloud's newer one
  (`workspace-cloud-sync.ts:115-119`). Local writes of the model are renames.
- A name the agent suggests may overwrite a user's rename that lands meanwhile.

## 5. The proofs

Proved for every value of the constants under the `ASSUME`s of the modules, which say
that bounds are naturals, sizes positive and `Nil` none of the values it stands for.

**TerminalProofs**, on `PtyDaemon`. `IInv == StoreInv /\ FeedInv`. `StoreInv` is about the store alone:
types, and for each session that the ring is the suffix of its output from a chunk
boundary, that its counter is the suffix's length, that it fits the cap, and that the
next larger suffix would not. `FeedInv` relates the two sides: what a connection was
sent ends where the session's output ends as long as it is subscribed, is one stretch,
and has an exit exactly when the subscription went by an exit. `FeedIsComplete` is not
inductive alone: that live output joins the replay needs that the replay ended at the
last byte printed, which needs the ring to end there; that a new session under an id
has no subscribers left needs `SubscriptionsNameLiveSessions`. From `IInv` follow
`TypeCorrect`, `RingCorrect`, `FeedCorrect`, `SubscriptionsLive`, `ExitCorrect`;
`OutboundCorrect` is an induction of its own beside it, and `ExitIsLast` an action
property from the same invariant.

**TerminalProofs**, on `TerminalSessions`. The hypothesis is `~Overlaps`, as in the run:
requests for an id follow each other until it has a session, and an id is created once.
Everything else may happen in any order and number: failed connects, timeouts, clients
that are dropped, daemons replaced with or without their shells, crashes of the
host-service, passes of the reaper between any two steps of a request.

`TerminalInv` has three parts beside the types. `Served` relates the session to the
clients: its own client calls it back and no other does, that client is connected, and
if the shell is still the session's the client is fed (`Feeds`). That is more than
`ViewersAreServed` asks, "subscribed, or a subscribe is queued", which is not inductive:
a subscribe may be queued in front of an unsubscribe. `Feeds` looks at the last of the
two, and is preserved as the queue is served from the front and written at the back.
`Tasked` is about answers that arrived: a request whose answer says that a shell was
found or opened has a client that is connected still, and the shell has been opened
(`Credible`), so the session that is registered for it is served from the start.
`Control` is about those who share the row: a request in flight excludes a session
(`OneRequest`); an attach under way finds its row active and a creation finds none
(`Rowed`), which is why a row that says disposed is not made active; a reap under way
excludes both (`Reaping`), and so does a shell listed without a row (`Patient`: the
creation that will write that row is among the requests the next pass waits for); and
before the first request there is nothing to reap (`Virgin`). `RowOfSession` says that
the row follows the session's exit, which makes a late exit harmless to a disposed
terminal: without a session no client calls anybody back. `ViewersStayServed` is then a
consequence, and `DisposalIsFinal` an action property: every step that writes the row is
shown to leave a disposed one.

The lemmas come in two layers. `Carries` is what a step may do to the clients while the
session stays (a client is added, connects, is cut, is served, receives), with
`ServedCarries` to conclude; `Quits` and `SessionComes` are how a session leaves and
comes. `Told` and `Requested` are the same for the requests. Above them is one lemma per
action (`...Keeps`).

**DaemonSupervisorProofs.** `IInv == TypeOK /\ Known /\ Guarded`. The crash budget
(`RespawnsBounded`) is not a matter of consulting the circuit: `start()` consults it
once, before several awaits, and spawns later. What makes it right is that no crash can
be counted in between: while a start is in flight the instance, if there is one, was
put there by an update, and the exit of an heir is not heard by the host-service
(`Guarded`). `Known` says that pids in variables belong to processes that were
spawned, so that a new process is nobody's instance. `SupervisorTypes` is there first
because the phases of a start and of an update carry the pid they will signal.

`ThereIsOneDaemon` has an invariant of its own, `One`, and one hypothesis: `Faults` has
none of *overlap*, *slowHandoff* and *lateRecovery*, which is what the run leaves out
too: under each of them the property is false (Known behaviours). Wedged daemons and
their recovery, failed startups, crashes of the host-service and of daemons between
operations, restarts and updates are all there. That there is one daemon is a matter of what each phase knows about the others:
a start that connects, probes or terminates the manifest's process knows that nobody
else lives (`StartPhase`), one that goes by the socket that whoever lives serves
(`OneStart`); an instance is alone unless an update is on, and then there is a pair, of
whom one has closed before the other binds (`OneInstance`, `OneUpdate`); when no operation
is in flight and there is no instance, nobody lives (`AtRest`), so a spawn starts from
nobody; and a host-service that comes back finds at most the process its manifest names
(`OneAlone`). `ShellsOutliveAll` is an action property from it: what is being terminated
does not serve, and an heir belongs to an update (`Fated`), so a termination that is
escalated takes no shells with it.

**PtyHandoffProofs.** `IInv == Types /\ Charge /\ Readers /\ Surviving /\ Ordered`.
`OneDaemonReads` follows from who has a terminal open: the daemon in charge, its heir and
predecessors on their way out (`Readers`), and that without an heir there is no fourth
(`Charge`). `HandoffsKeepSessions` needs to know where a shell is at each step of the
handoff (`Carried`): in the store of the daemon in charge, in the snapshot, among the
descriptors of the heir as soon as it is spawned, in its store once it has adopted; so
that a predecessor leaves only when somebody else holds the terminal (`Succession`). A
successor that has bound while its predecessor still waits for an answer is an heir that
serves (`Charge`). `ReplaysAreInOrder` is about the concatenation of a ring's pieces,
which the invariant describes piece by piece (`InOrder`): every chunk in the ring is
older than the next one that will be read. What `FlattenSeq` computes is proved first, see below.

**AcpRegistryProofs.** `IInv == Types /\ Spawned /\ Buried /\ Served /\ Owned /\ RowsKept`.
That one adapter is connected per session (`OneAdapter`) needs to know whose each
adapter is that runs or has served: of the creation that spawned it, of the runtime it
was registered as, or, cut off, of a session that was evicted (`Served`), and that the
first two exclude each other (`Owned`: a session has a runtime, or a
creation, or neither). `Spawned` keeps transcripts and adapters among the spawned, so
that the next adapter is new to all; `Buried` says that only the dead are evicted. The
sweep of the graveyard is a lemma of its own (`SweepKeepsTheNewest`). `RowsKept` gives
`SessionsKept`, and the steps `TranscriptKept` and `DisposeLeavesNone`.

**AcpTurnProofs.** `IInv == Types /\ Live(rt, about) /\ Active /\ Fresh /\ Won /\ Answered
/\ InTurn /\ Tidy`. What a runtime owes whatever happens around it is `Live`: a request has
one card that waits, which is unsettled as are the later questions of its form, the rows
show as open what is, and the last state frame is current; the operators that park and
settle cards are each shown to keep that, whichever of user, cancel, withdrawal or death
uses them. That the first answer wins is then not local: a card settled once must not be
parked again, so a request is in the pipe once and nothing is known of it before it is
read (`Fresh`). `Active` counts the turns, and `Answered` keeps a response from ending two.

`NothingIsLeftRunning` assumes that adapters report on tools only within a turn, ask about
tool calls they have reported and keep them open while they ask (`~LateUpdates`,
`~Unreported`, as the run does). It needs that an update still unread is followed by the
end of its turn (`Covered`), or the row would never be closed. And since every card opens
its row again, it needs that the tool call of a card is in flight whenever one is put
(`Grounded`), which is `Tidy`: each request is followed through the pipe, from the report of
the tool call it is about (`Reported`) to its withdrawal, which is written after it
(`Withdrawals`) and before the end of the tool call and of the turn (`Backed`).

**RelayTunnelProofs.** `IInv == Net /\ DirectoryTypes /\ OnlineTypes`, where `Net` has
the sockets' types, that a tunnel is a served socket of its machine, that a register in
progress waits for the directory, and `NoDanglingSocket` itself. A socket may become the
tunnel while another's register is still writing; that this other one, when it goes on,
finds itself raced and closes needs all four together. `LiveTunnelKept` and
`DirectoryNotStolen` are action properties from it, and `TypeCorrect` says of `Net` that
a tunnel is a served socket and that registers under way and their writes go together.

**SessionStreamProofs.** The ring is compared with a log it does not have: `Holds(j, log)`
says that the slots from the start on are the log's last entries. `AppendHolds` and
`AfterServes` are about the ring alone, for any capacity; the invariant
`RingHoldsTheNewest` puts the log of the incarnation there, and `JournalServes` follows.

That the timeline is exact (`TimelineStaysExact`) needs the whole way of an envelope, so
its invariant `SInv` adds to the ring what is on the wire and what the client knows. Of
the frames on their way (`Flying`) and the client it says: everything is an envelope that
was journaled, and nothing the client refers to is of an incarnation still to come
(`Known`); what is on its way is of one incarnation, that of the cursor and the timeline
or a later one (`Arrives`); no message is missing within the timeline (`Exact`) nor
between its end and the cursor, unless the incarnation is over and nothing more of it
will come (`Follows`). The last is why a cursor served by another incarnation's numbering
does no harm: what it would append makes a timeline of two incarnations, of which nothing
is claimed until the next resync. `Asks` says that an older page in flight for this epoch
begins where the timeline does; it is what fails when the user scrolls back during a
resync, hence the hypothesis. `Whole` is for `OlderPagesAreAnnounced`: without an older
page to ask for, the journal has no message before the first one shown. What the provers
need of a page (`PageServes`) is that picking a set of places out of a sequence keeps
their order and leaves none out (`Picked`).

`StreamShowsATranscript` proves the refinement from `SInv`. `Tally(inc, log, n)` counts
the messages among the first n envelopes; it grows by one at a message and not at a state
frame (`OneMore`, `Stretches`), and does not change when the log grows (`SameTally`). With
it `ShownStretch` is `Extent`, a function of timeline, cursor and logs, which is shown
to stay put when logs grow, to gain one message when the stream is followed, to reach
further back by a page, and to end with the newest message when the page is the first.
There is then one lemma per action: `Frame` is `Say` or a stutter, `Loaded` is `Load`,
`Receive` is `Follow`, `PageAnswered` is `Replace`, `OlderAnswered` is `LookBack`, the last
and `Receive` are `Drift` while an earlier incarnation is shown, and the others stutter.

**WorkspaceSyncProofs.** `IInv` is `Types` and, of each workspace, `Timed`, `Pushing`,
`Deletion`, `Erased` and `Named`. `Deletion` says that what is left of a deletion, a
tombstone or a call, is left of one that is committed: the row is gone, and so is the
worktree as long as the project is known here and in the cloud. `Erased` says that its tombstone is there until a delete has been served, after which only an
overtaken push could put the workspace back. `Named` relates the two names to what was
wished: of a dirty row and the cloud's, the later one says it; of a synced row the
cloud's does, and a push still under way has nothing to say against it. Neither is
inductive without `Pushing`, what a call may still believe of the cloud (`CallOK`): its
answer, unless the cloud's row was written after the one that is pushed, or the project
is deleted there.

*Assumptions.* Beside sizes and bounds, the modules assume that `Nil` (or `None`) is none
of the values it is told apart from: users, prompts and the adapter's answers in
`AcpTurn`, rows and names in `WorkspaceSync`, numbers in `SessionJournal`
(`NilIsNoNumber`). In the code these are `null` and `undefined`
beside strings, numbers and objects. Nine theorems have hypotheses of their own, each a
constant by which the run leaves out the same: `~Overlaps` in `TerminalSafety`,
`ViewersStayServed` and `DisposalIsFinal`, `~LateUpdates` and `~Unreported` in
`NothingIsLeftRunning`, none of the faults *overlap*, *slowHandoff* and *lateRecovery* in
`ThereIsOneDaemon` and `ShellsOutliveAll`, and `~ScrollsInResync` in `TimelineStaysExact`,
`OlderPagesAreAnnounced` and `StreamShowsATranscript`. Without them the properties are
false, and Known behaviours says how. Nothing in the code gives `~Overlaps`: the three
theorems under it are partial results about the run's own hypothesis, and are not among
those `PROJECT.json` lists.

*Induction.* The library's induction theorems cannot be used, but a least counterexample
can: `LeastNatural` (that `<` is well-founded on the naturals) gives the first number of
which a fact fails, and a contradiction from its predecessor. `PtyHandoffProofs` proves so
that the recursive function behind `FlattenSeq` exists and what it computes, and
`SessionStreamProofs` the same of `Picked`.

*Only model-checked.* Liveness under fairness, which is out of the provers' reach with
`ENABLED`: `CloseEndsTheSession`, `HandoffEnds`, `DeadSessionsLeave`,
`CrashedChildIsReplaced`, `BootstrapSettles`, `CatchesUp`, `ReaperReclaims`,
`CancelEndsTheTurn`, `HostIsServed`, `OfflineIsShown`, `SyncSettles`. Every invariant and
every action property of the passing runs is the subject of a theorem.

## 6. Not modelled

Inside the modelled components:
- pty-daemon: the byte-level framing and version numbers of the protocol (a frame is
  atomic, a bad one is `ProtocolError`, `Hello` succeeds or not), contents of input and
  resize, the encoding of the snapshot. `PtyDaemon` lets a connection that has been
  destroyed go on dispatching until its 'close' event, a superset of what
  `Server.ts:325-331` does.
- supervisor: development mode, the check of who owns a socket's pid, telemetry, log
  files, the list of sessions other than whether it is available, reuse of a pid by the
  operating system, failure to write or unlink the manifest.
- terminals: output and its replay buffer, resizing, titles, shell readiness, port
  scanning, the other HTTP routes.
- agent sessions: modes, models and options, titles, usage, attachments, the translation
  of an adapter's updates into frames, how content blocks merge in the fold.
- relay: what is sent through a tunnel (requests, channels and the 256 frames a channel
  that is connecting may hold), tokens, the replay of a request to the owning machine.
- workspaces: main workspaces and their relinking, branches, tasks, adoption and backfill
  of older rows, the creation of a worktree before its row.

Left out as a whole, for the reasons `PROJECT.json` gives beside each: the git-status
watcher and limiter (one queue, whose starvation is listed as a hazard), the pull
request cache, the older chat runtime (a thin layer over a library whose source is not
here), agent bindings, the pane layout store, workspace-fs, the desktop's coordinator,
the cloud API. The user interfaces, the command line, the SDK, the MCP servers and the
sites, which are most of the repository's lines, have no concurrent state of their own:
what they show is what the modelled parts send them.

Next, in this order: the git-status limiter, whose queue may starve a workspace that
keeps changing; the frames of a tunnel's channels; the pane store's tree operations;
the desktop's coordinator, as a second instance of the supervisor's adoption.
