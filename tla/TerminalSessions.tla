--------------------------- MODULE TerminalSessions ---------------------------
(***************************************************************************)
(* One terminal at the host-service: its row, its session object, the      *)
(* sockets that view it, the clients of the pty-daemon the session is fed  *)
(* through, and the reaper of forgotten shells:                            *)
(*   host-service/terminal/terminal.ts                                     *)
(*   host-service/terminal/DaemonClient/DaemonClient.ts                    *)
(*   host-service/terminal/daemon-client-singleton.ts                      *)
(*   host-service/terminal/reaper/reaper.ts                                *)
(* The daemon is what PtyDaemon shows it to be: one shell per id, replies  *)
(* in order, an exit sent to whoever is subscribed when the shell dies.    *)
(*                                                                         *)
(* Requests run until they await; what an answer releases runs before the  *)
(* next event (Quiet).  Failures: the shell dies, a client's connection    *)
(* drops, a connect or a close fails, a request times out, the daemon is   *)
(* replaced with or without its shells, the host-service crashes.          *)
(* Left out: output and its replay buffer, input and resize, titles, port  *)
(* scanning, workspaces that do not exist or do not match.                 *)
(*                                                                         *)
(* TerminalProofs extends this module and PtyDaemon, hence the prefix of   *)
(* the names that both would have.                                         *)
(***************************************************************************)
EXTENDS Integers, Sequences, FiniteSets

CONSTANTS
  Slots,        \* requests in flight; an attach is named like its socket
  Reaper,       \* the reaper's slot
  NoAnswer,     \* no answer yet
  Overlaps,     \* may requests overlap before there is a session, and
                \* an id be created again?
  \* bounds of the instance
  MaxRequests, MaxShells, MaxClients, MaxFaults

ASSUME TerminalAssumption ==
  /\ Reaper \notin Slots
  /\ Overlaps \in BOOLEAN
  /\ {MaxRequests, MaxShells, MaxClients, MaxFaults} \subseteq Nat

VARIABLES
  shell,      \* the shell the daemon has for this id, 0: none
  dying,      \* it was told to end
  shells,     \* shells so far
  row,        \* status of the terminal's row: none, active, exited, disposed
  ready,      \* has the daemon's bootstrap settled?
  clients,    \* clients of the daemon this process made
  cached,     \* the client to use, 0: none
  connecting, \* the client whose connect is awaited, 0: none
  objs,       \* session objects this process made
  current,    \* the one in `sessions`, 0: none
  tasks,      \* what each slot is at
  open,       \* sockets that are open
  aged,       \* requests that were in flight at the reaper's last pass
  rowless,    \* did the last pass of the reaper list a shell without a row?
  requests,   \* requests so far
  faults      \* failures so far

daemonVars == <<shell, dying, shells>>
clientVars == <<clients, cached, connecting>>
sessionVars == <<row, objs, current, open>>
reaperVars == <<aged, rowless>>
terminalVars == <<daemonVars, clientVars, sessionVars, ready, tasks, reaperVars,
                  requests, faults>>

AllSlots == Slots \cup {Reaper}
Fault == faults < MaxFaults /\ faults' = faults + 1

Idle == [kind |-> "none", phase |-> "idle", client |-> 0, adoptOnly |-> FALSE,
         replay |-> FALSE, answer |-> NoAnswer]
Answer(is, gen) == [is |-> is, shell |-> gen]
Failure == Answer("failure", 0)

InFlight(k) == tasks[k].phase # "idle"
\* What an answer releases runs before the process's next event.
\* Restarts wait for it too: they lose it either way.
Quiet == \A k \in AllSlots : tasks[k].answer = NoAnswer

-----------------------------------------------------------------------------
\* The daemon's client, and getDaemonClient.

NewClient == [state |-> "connecting", callbacks |-> {}, subscribed |-> FALSE,
              toDaemon |-> <<>>, toHost |-> <<>>]

\* A connection that was cut takes what is written until its close is seen.
Sent(cs, c, message) ==
  IF cs[c].state \in {"up", "cut"}
  THEN [cs EXCEPT ![c].toDaemon = Append(@, message)] ELSE cs

\* What a request does once it has a client: adoption and the reaper list first.
Asks(task) == IF task.adoptOnly THEN "list" ELSE "open"

Ask(k, task, c) ==
  /\ clients' = Sent(clients, c, Asks(task))
  /\ tasks' = [tasks EXCEPT ![k] = [task EXCEPT !.phase = Asks(task),
                                      !.client = c, !.answer = NoAnswer]]
  /\ UNCHANGED <<cached, connecting>>

MakeClient(k, task) ==
  /\ Len(clients) < MaxClients
  /\ clients' = Append(clients, NewClient)
  /\ connecting' = Len(clients) + 1
  /\ tasks' = [tasks EXCEPT ![k] = [task EXCEPT !.phase = "connecting",
                                      !.client = Len(clients) + 1,
                                      !.answer = NoAnswer]]
  /\ UNCHANGED cached

WithClient(k, task) ==
  CASE cached # 0 -> Ask(k, task, cached)
    [] cached = 0 /\ connecting # 0 ->
         /\ tasks' = [tasks EXCEPT ![k] = [task EXCEPT !.phase = "connecting",
                                             !.client = connecting,
                                             !.answer = NoAnswer]]
         /\ UNCHANGED clientVars
    [] cached = 0 /\ connecting = 0 /\ ready -> MakeClient(k, task)
    [] cached = 0 /\ connecting = 0 /\ ~ready ->
         /\ tasks' = [tasks EXCEPT ![k] = [task EXCEPT !.phase = "path",
                                             !.answer = NoAnswer]]
         /\ UNCHANGED clientVars

\* The daemon's bootstrap settles; everybody who waited for the socket's path
\* makes a client, and is not told of the others'.
Boot ==
  /\ ~ready
  /\ Quiet
  /\ ready' = TRUE
  /\ UNCHANGED <<daemonVars, clientVars, sessionVars, tasks, reaperVars, requests,
                 faults>>

PathKnown(k) ==
  /\ tasks[k].phase = "path"
  /\ ready
  /\ MakeClient(k, tasks[k])
  /\ UNCHANGED <<daemonVars, sessionVars, ready, reaperVars, requests, faults>>

\* Those who wait for this client go on.
Connected(c) ==
  /\ Quiet
  /\ clients[c].state = "connecting"
  /\ clients' = [clients EXCEPT ![c].state = "up"]
  /\ cached' = c
  /\ connecting' = 0
  /\ tasks' = [k \in AllSlots |->
       IF tasks[k].phase = "connecting" /\ tasks[k].client = c
       THEN [tasks[k] EXCEPT !.answer = Answer("connected", 0)] ELSE tasks[k]]
  /\ UNCHANGED <<daemonVars, sessionVars, ready, reaperVars, requests, faults>>

ConnectFails(c) ==
  /\ Quiet
  /\ clients[c].state = "connecting"
  /\ Fault
  /\ clients' = [clients EXCEPT ![c].state = "down"]
  /\ connecting' = 0
  /\ tasks' = [k \in AllSlots |->
       IF tasks[k].phase = "connecting" /\ tasks[k].client = c
       THEN [tasks[k] EXCEPT !.answer = Failure] ELSE tasks[k]]
  /\ UNCHANGED <<daemonVars, cached, sessionVars, ready, reaperVars, requests>>

-----------------------------------------------------------------------------
\* The daemon.

Replies(c, reply) ==
  clients' = [clients EXCEPT ![c].toDaemon = Tail(@),
                             ![c].toHost = Append(@, reply)]

Serve(c) ==
  /\ clients[c].state = "up"
  /\ clients[c].toDaemon # <<>>
  /\ LET request == Head(clients[c].toDaemon) IN
     \/ /\ request = "list"
        /\ Replies(c, Answer("list", shell))
        /\ UNCHANGED daemonVars
     \/ /\ request = "open"
        /\ shell # 0
        /\ Replies(c, Answer("exists", 0))
        /\ UNCHANGED daemonVars
     \/ /\ request = "open"
        /\ shell = 0
        /\ shells < MaxShells
        /\ shells' = shells + 1
        /\ shell' = shells + 1
        /\ dying' = FALSE
        /\ Replies(c, Answer("opened", shells + 1))
     \/ /\ request = "close"
        /\ dying' = (shell # 0)
        /\ Replies(c, Answer(IF shell # 0 THEN "closed" ELSE "unknown", 0))
        /\ UNCHANGED <<shell, shells>>
     \/ /\ request = "subscribe"
        /\ shell # 0
        /\ clients' = [clients EXCEPT ![c].toDaemon = Tail(@),
                                      ![c].subscribed = TRUE]
        /\ UNCHANGED daemonVars
     \/ /\ request = "subscribe"
        /\ shell = 0
        /\ Replies(c, Answer("unknown", 0))
        /\ UNCHANGED daemonVars
     \/ /\ request = "unsubscribe"
        /\ clients' = [clients EXCEPT ![c].toDaemon = Tail(@),
                                      ![c].subscribed = FALSE]
        /\ UNCHANGED daemonVars
  /\ UNCHANGED <<cached, connecting, sessionVars, ready, tasks, reaperVars,
                 requests, faults>>

\* A dispose that found no session uses a client of its own, whose connect or
\* close may fail; when the manifest's daemon is dead it counts as closed.
ForeignClose(k) ==
  /\ tasks[k].phase = "foreign"
  /\ \/ /\ dying' = (shell # 0)
        /\ tasks' = [tasks EXCEPT ![k].phase = "close",
                                  ![k].answer = Answer("closed", 0)]
        /\ UNCHANGED faults
     \/ /\ Fault
        /\ \E answer \in {Failure, Answer("closed", 0)} :
             tasks' = [tasks EXCEPT ![k].phase = "close", ![k].answer = answer]
        /\ UNCHANGED dying
  /\ UNCHANGED <<shell, shells, clientVars, sessionVars, ready, reaperVars,
                 requests>>

\* The shell's user ends it, or it was told to end.
ShellEnds ==
  /\ shell # 0
  /\ shell' = 0
  /\ dying' = FALSE
  /\ clients' = [c \in DOMAIN clients |->
       IF clients[c].subscribed
       THEN [clients[c] EXCEPT !.toHost = Append(@, Answer("exit", 0)),
                               !.subscribed = FALSE]
       ELSE clients[c]]
  /\ UNCHANGED <<shells, cached, connecting, sessionVars, ready, tasks, reaperVars,
                 requests, faults>>

-----------------------------------------------------------------------------
\* Frames from the daemon.

\* The requests a reply settles: every one of this client that waits for its
\* kind, and an error of this terminal settles opens and closes alike.
Settles(reply, task) ==
  \/ reply.is = "list" /\ task.phase = "list"
  \/ reply.is = "opened" /\ task.phase = "open"
  \/ reply.is = "closed" /\ task.phase = "close"
  \/ reply.is \in {"exists", "unknown"} /\ task.phase \in {"open", "close"}

Exited(cbs) == IF cbs # {} THEN row' = "exited" ELSE UNCHANGED row

Deliver(c) ==
  /\ clients[c].toHost # <<>>
  /\ \A k \in AllSlots : tasks[k].answer # NoAnswer => tasks[k].client = c
  /\ clients' = [clients EXCEPT ![c].toHost = Tail(@)]
  /\ LET reply == Head(clients[c].toHost)
         cbs   == clients[c].callbacks IN
     IF reply.is = "exit"
     THEN /\ objs' = [o \in DOMAIN objs |->
                        IF o \in cbs THEN [objs[o] EXCEPT !.exited = TRUE]
                                     ELSE objs[o]]
          /\ Exited(cbs)
          /\ UNCHANGED tasks
     ELSE /\ tasks' = [k \in AllSlots |->
                 IF tasks[k].client = c /\ tasks[k].answer = NoAnswer
                      /\ Settles(reply, tasks[k])
                 THEN [tasks[k] EXCEPT !.answer = reply] ELSE tasks[k]]
          /\ UNCHANGED <<objs, row>>
  /\ UNCHANGED <<daemonVars, cached, connecting, current, open, ready, reaperVars,
                 requests, faults>>

-----------------------------------------------------------------------------
\* Creation and attachment.

Free(k) == k \in Slots /\ ~InFlight(k) /\ k \notin open

\* A request from outside; a slot is but a name, so it takes one that is free.
Begins(k) ==
  /\ Quiet
  /\ Free(k) /\ k = CHOOSE j \in Slots : Free(j)
  /\ requests < MaxRequests
  /\ requests' = requests + 1
  /\ aged' = aged \ {k}
  /\ Overlaps \/ \A j \in Slots : ~InFlight(j)

Attached(k, o) == objs' = [objs EXCEPT ![o].sockets = @ \cup {k}]

\* With a bug: the terminal's row need only exist.
Attachable_UnlessUnknown == row # "none"

\* A terminal that was disposed of or has exited is not attached to.
Attachable == row = "active"

\* onOpen: the session there is, or a session for the shell the daemon kept.
Attach(k) ==
  /\ Begins(k)
  /\ \/ /\ current # 0
        /\ Attached(k, current)
        /\ open' = open \cup {k}
        /\ UNCHANGED <<clientVars, tasks>>
     \/ /\ current = 0
        /\ Attachable
        /\ \E replay \in BOOLEAN :
             WithClient(k, [Idle EXCEPT !.kind = "attach", !.adoptOnly = TRUE,
                                        !.replay = replay])
        /\ open' = open \cup {k}
        /\ UNCHANGED objs
  /\ UNCHANGED <<daemonVars, row, current, ready, rowless, faults>>

Create(k) ==
  /\ Begins(k)
  /\ Overlaps \/ requests = 0
  /\ current = 0
  /\ WithClient(k, [Idle EXCEPT !.kind = "create", !.replay = TRUE])
  /\ UNCHANGED <<daemonVars, sessionVars, ready, rowless, faults>>

\* The row, the session and its subscription, and the socket that asked for it.
\* A second subscription that wants the replay throws when it is already in.
Register(k, gen) ==
  LET c       == tasks[k].client
      second  == clients[c].callbacks # {}
      throws  == second /\ tasks[k].replay
      viewed  == tasks[k].kind = "attach" /\ ~throws /\ k \in open
      session == [client |-> c, shell |-> gen, unsubscribe |-> ~throws,
                  exited |-> FALSE, sockets |-> IF viewed THEN {k} ELSE {}]
  IN /\ row' = "active"
     /\ objs' = Append(objs, session)
     /\ current' = Len(objs) + 1
     /\ LET cs == [clients EXCEPT ![c].callbacks = @ \cup {Len(objs) + 1}] IN
        clients' = IF second THEN cs ELSE Sent(cs, c, "subscribe")
     /\ open' = IF throws THEN open \ {k} ELSE open
     /\ tasks' = [tasks EXCEPT ![k] = Idle]
     /\ UNCHANGED <<cached, connecting>>

GivesUp(k) ==
  /\ open' = open \ {k}
  /\ tasks' = [tasks EXCEPT ![k] = Idle]
  /\ UNCHANGED <<clientVars, row, objs, current>>

\* An attach that found no shell, or failed to look, opens one.
Respawns(k) ==
  \/ /\ current # 0
     /\ tasks' = [tasks EXCEPT ![k] = Idle]
     /\ IF k \in open THEN Attached(k, current) ELSE UNCHANGED objs
     /\ UNCHANGED <<clientVars, row, current, open>>
  \/ /\ current = 0
     /\ WithClient(k, [tasks[k] EXCEPT !.adoptOnly = FALSE, !.replay = TRUE])
     /\ UNCHANGED <<row, objs, current, open>>

Fails(k) == IF tasks[k].adoptOnly THEN Respawns(k) ELSE GivesUp(k)

\* The next stretch of a create or an attach.
Goes(k) ==
  LET answer == tasks[k].answer IN
  \/ /\ answer.is = "connected"
     /\ Ask(k, tasks[k], tasks[k].client)
     /\ UNCHANGED <<row, objs, current, open>>
  \/ answer.is = "list" /\ answer.shell # 0 /\ Register(k, answer.shell)
  \/ answer.is = "list" /\ answer.shell = 0 /\ Fails(k)
  \/ answer.is = "opened" /\ Register(k, answer.shell)
  \/ /\ answer.is = "exists"
     /\ clients' = Sent(clients, tasks[k].client, "list")
     /\ tasks' = [tasks EXCEPT ![k].phase = "list", ![k].answer = NoAnswer]
     /\ UNCHANGED <<cached, connecting, row, objs, current, open>>
  \/ answer.is \in {"unknown", "failure"} /\ Fails(k)

-----------------------------------------------------------------------------
\* Disposal and the reaper.

\* With a bug: the session that is disposed goes on listening.
Unsubscribed_Never(cs, o) == cs

\* A session's unsubscribe; the last one on a client tells the daemon.
Unsubscribed(cs, o) ==
  LET c    == objs[o].client
      left == cs[c].callbacks \ {o}
      cs2  == [cs EXCEPT ![c].callbacks = left]
  IN IF ~objs[o].unsubscribe THEN cs
     ELSE IF left = {} THEN Sent(cs2, c, "unsubscribe") ELSE cs2

\* disposeSessionAndWait up to its await.
StartDispose(k, task) ==
  \/ /\ current # 0
     /\ LET session == objs[current] IN
        /\ open' = open \ session.sockets
        /\ objs' = [objs EXCEPT ![current].sockets = {},
                                ![current].unsubscribe = FALSE]
        /\ clients' = Unsubscribed(IF session.exited THEN clients
                                   ELSE Sent(clients, session.client, "close"),
                                   current)
        /\ tasks' = [tasks EXCEPT ![k] =
             [task EXCEPT !.phase = "close", !.client = session.client,
                !.answer = IF session.exited THEN Answer("closed", 0) ELSE NoAnswer]]
     /\ current' = 0
     /\ UNCHANGED <<cached, connecting>>
  \/ /\ current = 0
     /\ tasks' = [tasks EXCEPT ![k] = [task EXCEPT !.phase = "foreign",
                                         !.client = 0, !.answer = NoAnswer]]
     /\ UNCHANGED <<clientVars, objs, current, open>>

Dispose(k) ==
  /\ Begins(k)
  /\ row # "none"
  /\ StartDispose(k, [Idle EXCEPT !.kind = "dispose"])
  /\ UNCHANGED <<daemonVars, row, ready, rowless, faults>>

\* The row is disposed when the close succeeded or there was nothing to close.
Disposed(k) ==
  /\ row' = IF tasks[k].answer.is \in {"closed", "unknown"} /\ row # "none"
            THEN "disposed" ELSE row
  /\ tasks' = [tasks EXCEPT ![k] = Idle]
  /\ UNCHANGED <<clientVars, objs, current, open>>

\* A pass every five minutes: the requests that were in flight when the last one
\* read its list are over.
ReaperPass ==
  /\ Quiet
  /\ ~InFlight(Reaper)
  /\ \A k \in aged : ~InFlight(k)
  /\ WithClient(Reaper, [Idle EXCEPT !.kind = "reap", !.adoptOnly = TRUE])
  /\ UNCHANGED <<daemonVars, sessionVars, ready, reaperVars, requests, faults>>

\* With a bug: only a dead row makes an orphan.
IsOrphan_OnlyOfDeadRows(listed) == listed /\ row \in {"disposed", "exited"}

\* What the pass takes for an orphan: a dead row's shell, or one it has seen
\* without a row twice.
IsOrphan(listed) ==
  /\ listed
  /\ \/ row \in {"disposed", "exited"}
     \/ row = "none" /\ rowless

\* The next stretch of a pass: ask, decide, or account for what was disposed.
Reaps ==
  LET answer == tasks[Reaper].answer
      listed == answer.is = "list" /\ answer.shell # 0
      orphan == IsOrphan(listed)
  IN \/ /\ answer.is = "connected"
        /\ Ask(Reaper, tasks[Reaper], tasks[Reaper].client)
        /\ UNCHANGED <<row, objs, current, open, reaperVars>>
     \/ /\ answer.is = "list"
        /\ tasks' = [tasks EXCEPT ![Reaper] =
             IF orphan THEN [@ EXCEPT !.phase = "orphan", !.answer = NoAnswer]
                       ELSE Idle]
        /\ rowless' = (listed /\ row = "none")
        /\ aged' = {k \in Slots : InFlight(k)}
        /\ UNCHANGED <<clientVars, row, objs, current, open>>
     \/ /\ tasks[Reaper].phase # "close"
        /\ answer = Failure
        /\ tasks' = [tasks EXCEPT ![Reaper] = Idle]
        /\ UNCHANGED <<clientVars, row, objs, current, open, reaperVars>>
     \/ /\ tasks[Reaper].phase = "close"
        /\ Disposed(Reaper)
        /\ rowless' = (rowless /\ answer = Failure)
        /\ UNCHANGED aged

\* Orphans are disposed one after the other: this one's turn.
Reap ==
  /\ Quiet
  /\ tasks[Reaper].phase = "orphan"
  /\ StartDispose(Reaper, tasks[Reaper])
  /\ UNCHANGED <<daemonVars, row, ready, reaperVars, requests, faults>>

\* An answer is taken up.
Continue(k) ==
  /\ tasks[k].answer # NoAnswer
  /\ \/ /\ tasks[k].kind \in {"attach", "create"}
        /\ Goes(k)
        /\ UNCHANGED reaperVars
     \/ /\ tasks[k].kind = "dispose"
        /\ Disposed(k)
        /\ UNCHANGED reaperVars
     \/ /\ tasks[k].kind = "reap"
        /\ Reaps
  /\ UNCHANGED <<daemonVars, ready, requests, faults>>

-----------------------------------------------------------------------------
\* Sockets, and what goes wrong.

SocketCloses(k) ==
  /\ Quiet
  /\ k \in open
  /\ open' = open \ {k}
  /\ objs' = IF current # 0 THEN [objs EXCEPT ![current].sockets = @ \ {k}]
                            ELSE objs
  /\ UNCHANGED <<daemonVars, clientVars, row, current, ready, tasks, reaperVars,
                 requests, faults>>

TimesOut(k) ==
  /\ Quiet
  /\ tasks[k].phase \in {"list", "open", "close"}
  /\ Fault
  /\ tasks' = [tasks EXCEPT ![k].answer = Failure]
  /\ UNCHANGED <<daemonVars, clientVars, sessionVars, ready, reaperVars,
                 requests>>

\* The listener of terminal.ts: every socket is closed, every session forgotten.
SessionsCleared(cs) ==
  IF current = 0 THEN clients' = cs /\ UNCHANGED <<objs, open, current>>
  ELSE /\ open' = open \ objs[current].sockets
       /\ objs' = [objs EXCEPT ![current].sockets = {},
                               ![current].unsubscribe = FALSE]
       /\ clients' = Unsubscribed(cs, current)
       /\ current' = 0

\* A client's connection is closed: by its daemon's end, or by the daemon.
Drop(c) ==
  /\ Quiet
  /\ \/ clients[c].state = "up" /\ Fault
     \/ clients[c].state = "cut" /\ clients[c].toHost = <<>> /\ UNCHANGED faults
  /\ cached' = IF cached = c THEN 0 ELSE cached
  /\ SessionsCleared([clients EXCEPT ![c].state = "down",
                                     ![c].subscribed = FALSE,
                                     ![c].toDaemon = <<>>, ![c].toHost = <<>>])
  /\ tasks' = [k \in AllSlots |->
       IF tasks[k].client = c /\ tasks[k].phase \in {"list", "open", "close"}
       THEN [tasks[k] EXCEPT !.answer = Failure] ELSE tasks[k]]
  /\ UNCHANGED <<daemonVars, connecting, row, ready, reaperVars, requests>>

\* The daemon is replaced: by an update, with its shells, or after a crash.
DaemonRestarts ==
  /\ Quiet
  /\ Fault
  /\ shell' \in {shell, 0}
  /\ dying' = (dying /\ shell' # 0)
  /\ clients' = [c \in DOMAIN clients |->
       IF clients[c].state = "up"
       THEN [clients[c] EXCEPT !.state = "cut", !.subscribed = FALSE,
                               !.toDaemon = <<>>]
       ELSE clients[c]]
  /\ UNCHANGED <<shells, cached, connecting, sessionVars, ready, tasks,
                 reaperVars, requests>>

HostRestarts ==
  /\ Quiet
  /\ Fault
  /\ ready' = FALSE
  /\ clients' = <<>>
  /\ cached' = 0
  /\ connecting' = 0
  /\ objs' = <<>>
  /\ current' = 0
  /\ open' = {}
  /\ tasks' = [k \in AllSlots |-> Idle]
  /\ aged' = {}
  /\ rowless' = FALSE
  /\ UNCHANGED <<daemonVars, row, requests>>

-----------------------------------------------------------------------------
TerminalInit ==
  /\ shell = 0 /\ dying = FALSE /\ shells = 0
  /\ row = "none"
  /\ ready = FALSE
  /\ clients = <<>> /\ cached = 0 /\ connecting = 0
  /\ objs = <<>> /\ current = 0 /\ open = {}
  /\ tasks = [k \in AllSlots |-> Idle]
  /\ aged = {} /\ rowless = FALSE
  /\ requests = 0
  /\ faults = 0

TerminalNext ==
  \/ Boot \/ ShellEnds \/ ReaperPass \/ Reap \/ DaemonRestarts \/ HostRestarts
  \/ \E k \in Slots : Attach(k) \/ Create(k) \/ Dispose(k) \/ SocketCloses(k)
  \/ \E k \in AllSlots : PathKnown(k) \/ ForeignClose(k) \/ Continue(k)
                           \/ TimesOut(k)
  \/ \E c \in DOMAIN clients : \/ Connected(c) \/ ConnectFails(c) \/ Serve(c)
                               \/ Deliver(c) \/ Drop(c)

TerminalSpec == TerminalInit /\ [][TerminalNext]_terminalVars

\* The processes go on, a shell that was told to end ends, and the reaper's
\* timer fires; requests, failures and a shell's own end are not owed.
TerminalFairSpec ==
  /\ TerminalSpec
  /\ WF_terminalVars(Boot) /\ WF_terminalVars(dying /\ ShellEnds)
  /\ WF_terminalVars(ReaperPass) /\ WF_terminalVars(Reap)
  /\ \A k \in AllSlots : /\ WF_terminalVars(PathKnown(k))
                         /\ WF_terminalVars(ForeignClose(k))
                         /\ WF_terminalVars(Continue(k))
  /\ \A c \in 1..MaxClients :
       /\ WF_terminalVars(c \in DOMAIN clients /\ Connected(c))
       /\ WF_terminalVars(c \in DOMAIN clients /\ Serve(c))
       /\ WF_terminalVars(c \in DOMAIN clients /\ Deliver(c))
       /\ WF_terminalVars(/\ c \in DOMAIN clients
                          /\ clients[c].state = "cut"
                          /\ Drop(c))

-----------------------------------------------------------------------------
Messages == {"list", "open", "close", "subscribe", "unsubscribe"}

TerminalTypes ==
  /\ shell \in 0..shells /\ (dying => shell # 0)
  /\ row \in {"none", "active", "exited", "disposed"}
  /\ \A c \in DOMAIN clients :
       /\ clients[c].state \in {"connecting", "up", "cut", "down"}
       /\ clients[c].callbacks \subseteq DOMAIN objs
       /\ \A i \in DOMAIN clients[c].toDaemon :
            clients[c].toDaemon[i] \in Messages
       /\ clients[c].subscribed => clients[c].state = "up" /\ shell # 0
  /\ cached # 0 => clients[cached].state \in {"up", "cut"}
  /\ connecting \in 0..Len(clients)
  /\ current \in 0..Len(objs)
  /\ current # 0 => clients[objs[current].client].state \in {"up", "cut"}
  /\ open \subseteq Slots
  /\ \A k \in AllSlots : tasks[k].phase \in {"list", "open"} =>
                           clients[tasks[k].client].state \in {"up", "cut", "down"}
  /\ aged \subseteq Slots

\* A session whose shell has not exited has an active row: else the reaper would
\* take its shell away from whoever views it.
LiveSessionIsActive ==
  current # 0 /\ ~objs[current].exited => row = "active"

\* Who views the terminal is attached to the session that `sessions` holds, that
\* session is fed as long as its shell lives and its connection is not cut, and the
\* reaper leaves it alone (terminal.ts:1059-1222, 1339-1429).
ViewersAreServed ==
  /\ LiveSessionIsActive
  /\ Quiet => \A k \in open : ~InFlight(k) =>
       /\ current # 0
       /\ k \in objs[current].sockets
       /\ LET c == objs[current].client IN
          /\ current \in clients[c].callbacks
          /\ clients[c].state \in {"up", "cut"}
          /\ clients[c].state = "up" /\ shell = objs[current].shell
             => \/ clients[c].subscribed
                \/ \E i \in DOMAIN clients[c].toDaemon :
                     clients[c].toDaemon[i] = "subscribe"

\* A terminal that was disposed of stays so, unless somebody creates it anew.
DisposeIsFinal ==
  [][row = "disposed" => \/ row' = "disposed"
                         \/ \E k \in Slots : tasks[k].kind = "create"]_terminalVars

\* A shell that no active row stands for ends, or gets one.
ReaperReclaims ==
  (shell # 0 /\ row # "active") ~> (shell = 0 \/ row = "active")

\* A shell's end reaches its session.
ExitIsNoticed ==
  (current # 0 /\ shell # objs[current].shell)
    ~> (current = 0 \/ objs[current].exited)
=============================================================================
