----------------------------- MODULE RelayTunnel -----------------------------
(***************************************************************************)
(* How the relay keeps one host reachable: the tunnel each relay machine   *)
(* holds for it, the directory that says which machine other machines send *)
(* its traffic to, and the flag that shows it online in the cloud.         *)
(*   apps/relay/src/tunnel.ts, directory.ts, index.ts                      *)
(*   packages/host-service/src/tunnel/tunnel-client.ts                     *)
(*                                                                         *)
(* A machine's calls of the directory and of the API take their time; the  *)
(* directory's may overtake each other, the API's when ApiInOrder does not *)
(* forbid it.  Handlers run until they await.  A socket may be gone at one *)
(* end and not yet at the other.  Failures: a socket drops, a directory or *)
(* API call fails, a machine crashes or is drained for a deploy.           *)
(* Left out: what is sent through a tunnel, tokens, and the metadata of    *)
(* the directory; its time to live is a flag, fresh.                       *)
(***************************************************************************)
EXTENDS Integers, Sequences, SequencesExt

CONSTANTS
  Machines,
  None,         \* no machine, no write
  ApiInOrder,   \* do a machine's online writes take effect in order?
  MaxAttempts,  \* SET_ONLINE_MAX_ATTEMPTS
  \* bounds of the instance
  MaxSockets, MaxFaults, MaxExits

ASSUME RelayAssumption ==
  /\ None \notin Machines
  /\ ApiInOrder \in BOOLEAN
  /\ MaxAttempts \in Nat \ {0}
  /\ {MaxSockets, MaxFaults, MaxExits} \subseteq Nat

VARIABLES
  mine,      \* the socket the host uses, 0: none
  sockets,   \* every tunnel socket, with both ends and where its register is
  tunnel,    \* the socket of each machine's tunnel, 0: none
  machine,   \* up, draining, down
  dir,       \* the machine the directory names, None: no entry
  fresh,     \* the entry has not outlived its time to live
  calls,     \* directory calls in flight
  shown,     \* onlineState: is this the machine that has shown the host online?
  timer,     \* onlineDebounce: the write that waits, None: none
  version,   \* onlineWriteVersions, 0: none
  writes,    \* each machine's online writes in flight, oldest first
  online,    \* what the cloud shows
  faults, exits

hostVars == <<mine>>
onlineVars == <<shown, timer, version, writes, online>>
directoryVars == <<dir, fresh, calls>>
vars == <<hostVars, sockets, tunnel, machine, directoryVars, onlineVars, faults, exits>>

Sockets == DOMAIN sockets
Fault == faults < MaxFaults /\ faults' = faults + 1

-----------------------------------------------------------------------------
\* The host: tunnel-client.ts.

\* It connects when it has no socket; any machine may take it.
HostConnects(m) ==
  /\ mine = 0 /\ machine[m] = "up" /\ Len(sockets) < MaxSockets
  /\ sockets' = Append(sockets, [at |-> m, stage |-> "arriving",
                                 host |-> "open", relay |-> "open"])
  /\ mine' = Len(sockets')
  /\ UNCHANGED <<tunnel, machine, directoryVars, onlineVars, faults, exits>>

\* The connection drops, or its watchdog or connect deadline gives it up.
HostDrops ==
  /\ mine # 0 /\ Fault
  /\ sockets' = [sockets EXCEPT ![mine].host = "gone"]
  /\ mine' = 0
  /\ UNCHANGED <<tunnel, machine, directoryVars, onlineVars, exits>>

\* A tunnel of a machine that drains is told so, and the host closes it.
HostObeysDrain ==
  /\ mine # 0 /\ machine[sockets[mine].at] = "draining" /\ sockets[mine].stage = "served"
  /\ sockets' = [sockets EXCEPT ![mine].host = "gone"]
  /\ mine' = 0
  /\ UNCHANGED <<tunnel, machine, directoryVars, onlineVars, faults, exits>>

HostSeesClose ==
  /\ mine # 0 /\ sockets[mine].relay # "open"
  /\ sockets' = [sockets EXCEPT ![mine].host = "gone"]
  /\ mine' = 0
  /\ UNCHANGED <<tunnel, machine, directoryVars, onlineVars, faults, exits>>

-----------------------------------------------------------------------------
\* The online flag.

\* With a bug: an offline write is redundant too while no online write has succeeded.
ScheduleOnlineWrite_TakesAbsentForOffline(m, isOnline) ==
  /\ timer' = [timer EXCEPT ![m] = IF isOnline = shown[m] THEN None
                                   ELSE [is |-> isOnline, version |-> version[m] + 1]]
  /\ version' = [version EXCEPT ![m] = @ + 1]

\* A write that the machine takes for redundant is dropped, with the one it
\* replaces; whatever is in flight is superseded.
ScheduleOnlineWrite(m, isOnline) ==
  /\ timer' = [timer EXCEPT ![m] = IF isOnline /\ shown[m] THEN None
                                   ELSE [is |-> isOnline, version |-> version[m] + 1]]
  /\ version' = [version EXCEPT ![m] = @ + 1]

\* The debounce is over; the version may have been deleted meanwhile.
OnlineTimer(m) ==
  /\ timer[m] # None /\ machine[m] # "down"
  /\ timer' = [timer EXCEPT ![m] = None]
  /\ writes' = IF version[m] # timer[m].version THEN writes
               ELSE [writes EXCEPT ![m] = Append(@, [is |-> timer[m].is, attempt |-> 1,
                                                     version |-> version[m]])]
  /\ UNCHANGED <<hostVars, sockets, tunnel, machine, directoryVars, shown, version,
                 online, faults, exits>>

Done(m, i) == writes' = [writes EXCEPT ![m] = RemoveAt(@, i)]

\* The write's outcome is the machine's news only if no later one superseded it.
IsCurrent(m, i) == version[m] = writes[m][i].version

\* The API has done it, and the machine hears of it: it takes note unless the write
\* was superseded.
OnlineWritten(m, i) ==
  /\ ApiInOrder => i = 1
  /\ online' = writes[m][i].is
  /\ shown' = IF IsCurrent(m, i) THEN [shown EXCEPT ![m] = writes[m][i].is] ELSE shown
  /\ version' = IF IsCurrent(m, i) THEN [version EXCEPT ![m] = 0] ELSE version
  /\ Done(m, i)
  /\ UNCHANGED <<hostVars, sockets, tunnel, machine, directoryVars, timer, faults, exits>>

\* It is tried again unless it was superseded or was the last attempt.
OnlineWriteFails(m, i) ==
  /\ Fault
  /\ IF IsCurrent(m, i) /\ writes[m][i].attempt < MaxAttempts
     THEN /\ writes' = [writes EXCEPT ![m][i].attempt = @ + 1]
          /\ UNCHANGED <<shown, version>>
     ELSE /\ shown' = IF IsCurrent(m, i) THEN [shown EXCEPT ![m] = FALSE] ELSE shown
          /\ version' = IF IsCurrent(m, i) THEN [version EXCEPT ![m] = 0] ELSE version
          /\ Done(m, i)
  /\ UNCHANGED <<hostVars, sockets, tunnel, machine, directoryVars, timer, online, exits>>

\* The delay before a further attempt is over, and the write was superseded.
RetryIsDropped(m, i) ==
  /\ writes[m][i].attempt > 1 /\ ~IsCurrent(m, i)
  /\ Done(m, i)
  /\ UNCHANGED <<hostVars, sockets, tunnel, machine, directoryVars, shown, timer, version,
                 online, faults, exits>>

-----------------------------------------------------------------------------
\* register and unregister.

Closing(ss, k) ==
  IF k # 0 /\ ss[k].relay = "open" THEN [ss EXCEPT ![k].relay = "closing"] ELSE ss

\* The socket is authorized; an older tunnel gives way before the directory is told.
Register(k) ==
  LET m == sockets[k].at
      ss == [sockets EXCEPT ![k].stage = "writing"]
  IN  /\ sockets[k].stage = "arriving" /\ machine[m] = "up"
      /\ sockets' = Closing(ss, tunnel[m])
      /\ tunnel' = [tunnel EXCEPT ![m] = 0]
      /\ calls' = calls \cup {[op |-> "register", at |-> m, of |-> k]}
      /\ UNCHANGED <<hostVars, machine, dir, fresh, onlineVars, faults, exits>>

\* With a bug: the socket of a failed register is left open.
Refused_LeavesItOpen(k) == [sockets EXCEPT ![k].stage = "over"]

\* Register ends without a tunnel: the socket is closed with 1011 or 1012.
Refused(k) == Closing([sockets EXCEPT ![k].stage = "over"], k)

RefuseWhileDraining(k) ==
  /\ sockets[k].stage = "arriving" /\ machine[sockets[k].at] = "draining"
  /\ sockets' = Refused(k)
  /\ UNCHANGED <<hostVars, tunnel, machine, directoryVars, onlineVars, faults, exits>>

\* Must the entry that was just written be taken back?
MustRollBack(k) == sockets[k].relay # "open" \/ machine[sockets[k].at] # "up"

\* With a bug: a tunnel that registered meanwhile is left as it is.
Raced_Never(m) == 0

\* A tunnel that registered meanwhile gives way too.
Raced(m) == tunnel[m]

\* The entry is written, and register goes on.
Registered(c) ==
  LET m == c.at
      k == c.of
  IN  /\ c \in calls /\ c.op = "register"
      /\ dir' = m
      /\ fresh' = TRUE
      /\ IF k # 0 /\ ~MustRollBack(k)
         THEN /\ sockets' = Closing([sockets EXCEPT ![k].stage = "served"], Raced(m))
              /\ tunnel' = [tunnel EXCEPT ![m] = k]
              /\ calls' = calls \ {c}
              /\ ScheduleOnlineWrite(m, TRUE)
         ELSE /\ sockets' = IF k = 0 THEN sockets ELSE Refused(k)
              /\ calls' = (calls \ {c}) \cup
                   IF k = 0 THEN {} ELSE {[op |-> "unregister", at |-> m, of |-> k]}
              /\ UNCHANGED <<tunnel, timer, version>>
      /\ UNCHANGED <<hostVars, machine, shown, writes, online, faults, exits>>

\* Every attempt failed, though the last may have had its effect.
RegisterFails(c) ==
  /\ c \in calls /\ c.op = "register" /\ Fault
  /\ dir' \in {dir, c.at}
  /\ fresh' = (fresh \/ dir' # dir)
  /\ calls' = calls \ {c}
  /\ sockets' = IF c.of = 0 THEN sockets ELSE Refused(c.of)
  /\ UNCHANGED <<hostVars, tunnel, machine, onlineVars, exits>>

\* With a bug: whoever owns the entry now loses it.
Unowned_Always(m) == None

\* The directory's compare-and-delete.
Unowned(m) == IF dir = m THEN None ELSE dir

Unregistered(c) ==
  /\ c \in calls /\ c.op = "unregister"
  /\ dir' = Unowned(c.at)
  /\ calls' = calls \ {c}
  /\ UNCHANGED <<hostVars, sockets, tunnel, machine, fresh, onlineVars, faults, exits>>

UnregisterFails(c) ==
  /\ c \in calls /\ c.op = "unregister" /\ Fault
  /\ calls' = calls \ {c}
  /\ UNCHANGED <<hostVars, sockets, tunnel, machine, dir, fresh, onlineVars, exits>>

\* The relay learns that the host is gone: its close, or pings without an answer.
RelaySeesGone(k) ==
  /\ sockets[k].host = "gone" /\ sockets[k].relay = "open"
  /\ sockets' = [sockets EXCEPT ![k].relay = "closing"]
  /\ UNCHANGED <<hostVars, tunnel, machine, directoryVars, onlineVars, faults, exits>>

\* With a bug: the close of any socket tears the tunnel down.
IsTunnelOf_Any(m, k) == tunnel[m] # 0

\* Is this socket still the one in use?
IsTunnelOf(m, k) == tunnel[m] = k

\* onClose: unregister, when register had come to its end.
OnClose(k) ==
  LET m == sockets[k].at
      tears == sockets[k].stage = "served" /\ IsTunnelOf(m, k)
  IN  /\ sockets[k].relay = "closing" /\ machine[m] # "down"
      /\ sockets' = [Closing(sockets, IF tears THEN tunnel[m] ELSE 0) EXCEPT ![k].relay = "closed"]
      /\ IF tears
         THEN /\ tunnel' = [tunnel EXCEPT ![m] = 0]
              /\ calls' = calls \cup {[op |-> "unregister", at |-> m, of |-> k]}
              /\ ScheduleOnlineWrite(m, FALSE)
         ELSE UNCHANGED <<tunnel, calls, timer, version>>
      /\ UNCHANGED <<hostVars, machine, dir, fresh, shown, writes, online, faults, exits>>

-----------------------------------------------------------------------------
\* The directory's time to live.

\* A pong of the host, on any machine, renews the entry, whoever it names.
Pongs == \E m \in Machines : tunnel[m] # 0 /\ sockets[tunnel[m]].host = "open"

Expires ==
  /\ dir # None /\ fresh /\ ~Pongs
  /\ fresh' = FALSE
  /\ UNCHANGED <<hostVars, sockets, tunnel, machine, dir, calls, onlineVars, faults, exits>>

Sweep ==
  /\ dir # None /\ ~fresh
  /\ \E m \in Machines : machine[m] # "down"
  /\ dir' = None
  /\ UNCHANGED <<hostVars, sockets, tunnel, machine, fresh, calls, onlineVars, faults, exits>>

-----------------------------------------------------------------------------
\* The end of a machine's process, and the next one.

\* With its memory go its sockets and what it waits for; calls in flight go on.
Gone(m) ==
  /\ machine' = [machine EXCEPT ![m] = "down"]
  /\ tunnel' = [tunnel EXCEPT ![m] = 0]
  /\ sockets' = [k \in Sockets |-> IF sockets[k].at = m
                                   THEN [sockets[k] EXCEPT !.relay = "closed", !.stage = "over"]
                                   ELSE sockets[k]]
  /\ calls' = {IF c.at = m THEN [c EXCEPT !.of = 0] ELSE c : c \in calls}
  /\ shown' = [shown EXCEPT ![m] = FALSE]
  /\ timer' = [timer EXCEPT ![m] = None]
  /\ version' = [version EXCEPT ![m] = 0]
  /\ writes' = [writes EXCEPT ![m] = <<>>]

Crash(m) ==
  /\ machine[m] # "down" /\ exits < MaxExits
  /\ exits' = exits + 1
  /\ Gone(m)
  /\ UNCHANGED <<hostVars, dir, fresh, online, faults>>

\* SIGTERM: the host is told to reconnect; half a second later the directory is
\* cleared and the process ends.
Drain(m) ==
  /\ machine[m] = "up" /\ exits < MaxExits
  /\ exits' = exits + 1
  /\ machine' = [machine EXCEPT ![m] = "draining"]
  /\ UNCHANGED <<hostVars, sockets, tunnel, directoryVars, onlineVars, faults>>

\* clearStaleEntriesForMachine
Cleared(m) == IF dir = m THEN None ELSE dir

DrainEnds(m) ==
  /\ machine[m] = "draining"
  /\ dir' = Cleared(m)
  /\ Gone(m)
  /\ UNCHANGED <<hostVars, fresh, online, faults, exits>>

Restart(m) ==
  /\ machine[m] = "down"
  /\ machine' = [machine EXCEPT ![m] = "up"]
  /\ dir' = Cleared(m)
  /\ UNCHANGED <<hostVars, sockets, tunnel, fresh, calls, onlineVars, faults, exits>>

-----------------------------------------------------------------------------
Init ==
  /\ mine = 0
  /\ sockets = <<>>
  /\ tunnel = [m \in Machines |-> 0]
  /\ machine = [m \in Machines |-> "up"]
  /\ dir = None
  /\ fresh = FALSE
  /\ calls = {}
  /\ shown = [m \in Machines |-> FALSE]
  /\ timer = [m \in Machines |-> None]
  /\ version = [m \in Machines |-> 0]
  /\ writes = [m \in Machines |-> <<>>]
  /\ online = FALSE
  /\ faults = 0
  /\ exits = 0

RegisterStep(k) == Register(k) \/ RefuseWhileDraining(k)
CloseStep(k) == RelaySeesGone(k) \/ OnClose(k)
Answered(c) == Registered(c) \/ Unregistered(c)

Next ==
  \/ \E m \in Machines : HostConnects(m)
  \/ HostDrops
  \/ HostObeysDrain
  \/ HostSeesClose
  \/ \E m \in Machines : OnlineTimer(m)
  \/ \E m \in Machines : \E i \in DOMAIN writes[m] :
       OnlineWritten(m, i) \/ OnlineWriteFails(m, i) \/ RetryIsDropped(m, i)
  \/ \E k \in Sockets : RegisterStep(k) \/ CloseStep(k)
  \/ \E c \in calls : Answered(c) \/ RegisterFails(c) \/ UnregisterFails(c)
  \/ Expires
  \/ Sweep
  \/ \E m \in Machines : Crash(m) \/ Drain(m) \/ DrainEnds(m) \/ Restart(m)

Spec == Init /\ [][Next]_vars

\* What goes on without a failure: calls are answered, timers fire, a closed end is
\* noticed at the other, a process is restarted.
Progress ==
  \/ HostSeesClose
  \/ \E k \in Sockets : RegisterStep(k) \/ CloseStep(k)
  \/ \E c \in calls : Answered(c)
  \/ \E m \in Machines : \E i \in DOMAIN writes[m] : OnlineWritten(m, i)
  \/ \E m \in Machines : OnlineTimer(m) \/ DrainEnds(m) \/ Restart(m)
  \/ Expires
  \/ Sweep

\* The system goes on, and the host tries again for ever.
Fairness == WF_vars(Progress) /\ WF_vars(\E m \in Machines : HostConnects(m))

FairSpec == Spec /\ Fairness

-----------------------------------------------------------------------------
\* Every variable has its type; a tunnel is a socket of its machine, and a register
\* in progress waits for the directory.
TypeOK ==
  /\ mine \in 0..Len(sockets)
  /\ sockets \in Seq([at : Machines, host : {"open", "gone"},
                      stage : {"arriving", "writing", "served", "over"},
                      relay : {"open", "closing", "closed"}])
  /\ \A m \in Machines :
       tunnel[m] # 0 => sockets[tunnel[m]].at = m /\ sockets[tunnel[m]].stage = "served"
  /\ machine \in [Machines -> {"up", "draining", "down"}]
  /\ dir \in Machines \cup {None}
  /\ fresh \in BOOLEAN
  /\ calls \subseteq [op : {"register", "unregister"}, at : Machines, of : 0..Len(sockets)]
  /\ \A k \in Sockets :
       sockets[k].stage = "writing" <=> \E c \in calls : c.op = "register" /\ c.of = k
  /\ shown \in [Machines -> BOOLEAN]
  /\ \A m \in Machines : timer[m] # None => timer[m] \in [is : BOOLEAN, version : Nat]
  /\ version \in [Machines -> Nat]
  /\ writes \in [Machines -> Seq([is : BOOLEAN, version : Nat, attempt : 1..MaxAttempts])]
  /\ online \in BOOLEAN

\* A socket whose register came to its end is its machine's tunnel or is being
\* closed, in whatever order registers, closes and directory writes interleave: a
\* host never waits on a socket that serves nothing (tunnel.ts:56-134).
NoDanglingSocket ==
  \A k \in Sockets :
    sockets[k].relay = "open" /\ sockets[k].stage \in {"served", "over"} =>
      tunnel[sockets[k].at] = k

\* A tunnel that is open at both ends goes only with its machine, or when another
\* socket begins to register or takes its place: neither the late close of an older
\* socket nor a register that fails tears it down.  The other may be the older one,
\* whose register was long under way (tunnel.ts:56-134, 156-174).
LiveTunnelIsKept ==
  [][\A m \in Machines :
       LET k == tunnel[m]
       IN  k # 0 /\ tunnel'[m] # k /\ sockets[k].host = "open" /\ sockets[k].relay = "open" =>
             \/ machine'[m] = "down"
             \/ \E j \in Sockets \ {k} :
                  /\ sockets[j].at = m
                  /\ (sockets[j].stage = "arriving" /\ sockets'[j].stage = "writing") \/ tunnel'[m] = j]_vars

\* No machine takes another's entry out of the directory, however late its
\* unregister arrives: an entry is written over by a register, or goes by its
\* owner, by its owner's exit, or by its age (directory.ts:66-91, 145-173).
DirectoryIsNotStolen ==
  [][dir # None /\ dir' # dir =>
       \/ \E c \in calls \ calls' : c.op = "register" \/ c.at = dir
       \/ machine'[dir] # machine[dir]
       \/ ~fresh]_vars

\* After every failure the host is connected and served again, until the instance
\* runs out of sockets.
HostIsServed ==
  \/ []<>(\E m \in Machines : tunnel[m] # 0 /\ tunnel[m] = mine)
  \/ <>[](Len(sockets) = MaxSockets /\ mine = 0)

\* A host that is gone for good is shown offline in the end, when no machine that
\* had its tunnel ended without a write (tunnel.ts:265-337).
OfflineIsShown ==
  \/ []<>(\E m \in Machines : tunnel[m] # 0)
  \/ <>[](exits > 0)
  \/ <>[]~online

\* tunnel.ts:73-75: "Write directory FIRST (with bounded retries) so we never have
\* a local tunnel that's invisible to other machines."
TunnelIsVisible ==
  \A m \in Machines :
    tunnel[m] # 0 /\ tunnel[m] = mine /\ calls = {} /\ fresh => dir = m
=============================================================================
