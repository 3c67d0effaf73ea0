------------------------------ MODULE PtyHandoff ------------------------------
(***************************************************************************)
(* An update of the pty-daemon seen from inside: Server.ts prepareUpgrade, *)
(* waitForHandoffAck, finalizeHandoff and adoptSnapshot, main.ts           *)
(* runHandoffReceiver, and the adopted sessions of Pty.ts.                 *)
(*                                                                         *)
(* The daemon writes a snapshot of its sessions, spawns its successor with *)
(* their descriptors, goes on serving until the successor acknowledges,    *)
(* and leaves; the successor then binds the socket.  From the moment the   *)
(* successor has adopted, both processes read the same terminals: what a   *)
(* shell prints goes to whichever reads first.                             *)
(*                                                                         *)
(* Output is numbered by chunk.  The one client is connected to a daemon   *)
(* or to none, and follows every session of the daemon it is connected to. *)
(* One handoff goes on at a time: the supervisor sends the next            *)
(* prepare-upgrade when the last one is answered (DaemonSupervisor).       *)
(* A snapshot or a spawn that fails changes nothing and is left out.       *)
(***************************************************************************)
EXTENDS Integers, Sequences, FiniteSets, SequencesExt

CONSTANTS
  Ids,          \* session ids
  Cap,          \* chunks a replay ring keeps
  Faults,       \* what else may happen: "stall", "nak", "crash", "slow"
  \* bounds of the instance
  MaxShells,    \* shells ever spawned
  MaxOutput,    \* chunks a shell prints
  MaxHandoffs,  \* successors ever spawned
  MaxFaults

ASSUME HandoffAssumption ==
  /\ Cap \in Nat \ {0} /\ Faults \subseteq {"stall", "nak", "crash", "slow"}
  /\ MaxShells \in Nat /\ MaxOutput \in Nat /\ MaxHandoffs \in Nat /\ MaxFaults \in Nat

Procs == 1..(MaxHandoffs + 1)
Shells == 1..MaxShells
None == 0

VARIABLES
  procs,    \* what each daemon process is at
  head,     \* the daemon in charge
  heir,     \* the successor of the handoff in progress
  store,    \* sessions of each process: the shell of each id
  ring,     \* replay ring of each process and shell: a sequence of pieces
  timers,   \* shells each process will kill if they outlive a SIGHUP
  shells,   \* each shell: state, chunks printed and read, opened when
  fds,      \* processes that hold each shell's terminal open
  offer,    \* the snapshot file: none, or what it says
  ack,      \* the message on its way from the successor
  path,     \* whose socket the path leads to
  client,   \* the daemon it is connected to
  faults    \* the faults so far, one of each kind at most

vars == <<procs, head, heir, store, ring, timers, shells, fds, offer, ack, path,
          client, faults>>

kernel == <<shells, fds>>
memory == <<store, ring, timers>>
handoff == <<heir, offer, ack>>

Fault(kind) ==
  /\ kind \in Faults \ faults /\ Cardinality(faults) < MaxFaults
  /\ faults' = faults \cup {kind}

Held(p) == {store[p][id] : id \in Ids} \ {None}
NoSessions == [id \in Ids |-> None]
NoRings == [sh \in Shells |-> <<>>]

\* The processes that serve their connections, and those that read terminals.
Serves(p) == procs[p] \in {"serving", "handing", "leaving"}
Runs(p) == procs[p] \notin {"unborn", "booting", "dead"}

\* The pieces that stay when the ring may not exceed its cap: the oldest goes whole.
Trimmed(pieces) ==
  LET Fits(k) == Len(FlattenSeq(SubSeq(pieces, k, Len(pieces)))) <= Cap
      first   == CHOOSE k \in 1..(Len(pieces) + 1) :
                   Fits(k) /\ \A j \in 1..(k - 1) : ~Fits(j)
  IN  SubSeq(pieces, first, Len(pieces))

\* With a bug: what is new goes to the front.
Buffered_AtTheFront(pieces, chunk) == Trimmed(<< <<chunk>> >> \o pieces)

Buffered(pieces, chunk) == Trimmed(Append(pieces, <<chunk>>))

-----------------------------------------------------------------------------
\* Terminals.  A shell none of whose terminal's ends is open is hung up.

Closing(p) ==
  /\ fds' = [sh \in Shells |-> fds[sh] \ {p}]
  /\ shells' = [sh \in Shells |->
                  IF shells[sh].state = "running" /\ fds[sh] = {p}
                  THEN [shells[sh] EXCEPT !.state = "lost"] ELSE shells[sh]]

ShellPrints(sh) ==
  /\ shells[sh].state = "running" /\ shells[sh].printed < MaxOutput
  /\ shells' = [shells EXCEPT ![sh].printed = @ + 1]
  /\ UNCHANGED <<procs, head, memory, fds, handoff, path, client, faults>>

ShellEnds(sh) ==
  /\ shells[sh].state = "running"
  /\ shells' = [shells EXCEPT ![sh].state = "dead"]
  /\ UNCHANGED <<procs, head, memory, fds, handoff, path, client, faults>>

\* wireSession's onData, in whichever process gets the chunk.
Read(p, sh) ==
  /\ Runs(p) /\ sh \in Held(p)
  /\ shells[sh].read < shells[sh].printed
  /\ shells' = [shells EXCEPT ![sh].read = @ + 1]
  /\ ring' = [ring EXCEPT ![p][sh] = Buffered(@, shells[sh].read + 1)]
  /\ UNCHANGED <<procs, head, store, timers, fds, handoff, path, client, faults>>

\* With a bug: only the process that spawned it is told of a shell's end.
Hears_TheSpawnerOnly(p, sh) == shells[sh].state # "running" /\ p = 1

\* An adopted shell's end is seen on its terminal, or by the poll of its pid.
Hears(p, sh) == shells[sh].state # "running"

\* wireSession's onExit: the session leaves the store.
Exit(p, sh) ==
  /\ Runs(p) /\ sh \in Held(p)
  /\ Hears(p, sh)
  /\ store' = [store EXCEPT ![p] = [id \in Ids |-> IF @[id] = sh THEN None ELSE @[id]]]
  /\ ring' = [ring EXCEPT ![p][sh] = <<>>]
  /\ timers' = [timers EXCEPT ![p] = @ \ {sh}]
  /\ fds' = [fds EXCEPT ![sh] = @ \ {p}]
  /\ UNCHANGED <<procs, head, shells, handoff, path, client, faults>>

\* scheduleKillEscalation's timer.
Escalate(p, sh) ==
  /\ Runs(p) /\ sh \in timers[p]
  /\ timers' = [timers EXCEPT ![p] = @ \ {sh}]
  /\ shells' = [shells EXCEPT ![sh].state = IF @ = "running" THEN "dead" ELSE @]
  /\ UNCHANGED <<procs, head, store, ring, fds, handoff, path, client, faults>>

-----------------------------------------------------------------------------
\* The client.

\* It connects and subscribes to every session, with replay.
Connect ==
  /\ client = None /\ path # None /\ Serves(path)
  /\ client' = path
  /\ UNCHANGED <<procs, head, memory, kernel, handoff, path, faults>>

\* handleOpen; late says that a handoff is on.
Open(id, sh) ==
  LET p == client IN
  /\ p # None /\ Serves(p) /\ store[p][id] = None
  /\ shells[sh].state = "none" /\ \A x \in 1..(sh - 1) : shells[x].state # "none"
  /\ shells' = [shells EXCEPT ![sh].state = "running", ![sh].late = heir # None \/ procs[p] # "serving"]
  /\ fds' = [fds EXCEPT ![sh] = {p}]
  /\ store' = [store EXCEPT ![p][id] = sh]
  /\ UNCHANGED <<procs, head, ring, timers, handoff, path, client, faults>>

\* handleClose: SIGHUP, which the shell may ignore.
Close(id, heeds) ==
  LET p  == client
      sh == store[p][id]
  IN  /\ p # None /\ Serves(p) /\ sh # None
      /\ shells' = [shells EXCEPT ![sh].state = IF heeds /\ @ = "running" THEN "dead" ELSE @]
      /\ timers' = [timers EXCEPT ![p] = @ \cup {sh}]
      /\ UNCHANGED <<procs, head, store, ring, fds, handoff, path, client, faults>>

-----------------------------------------------------------------------------
\* The predecessor.

\* With a bug: a session that was adopted is not handed on.
Passed_UnlessAdopted(p) == IF p = 1 THEN Held(p) ELSE {}

\* The terminals in the successor's stdio.
Passed(p) == Held(p)

\* serializeSessions: each session with the bytes of its ring, in one piece.
Snapshot(p) == [sessions |-> store[p],
                buffer   |-> [sh \in Shells |-> FlattenSeq(ring[p][sh])]]

\* prepareUpgrade up to its await.
PrepareUpgrade ==
  /\ client = head /\ procs[head] = "serving" /\ heir = None
  /\ \E s \in Procs :
       /\ procs[s] = "unborn" /\ \A x \in 1..(s - 1) : procs[x] # "unborn"
       /\ heir' = s
       /\ procs' = [procs EXCEPT ![head] = "handing", ![s] = "booting"]
       /\ fds' = [sh \in Shells |-> IF sh \in Passed(head) THEN fds[sh] \cup {s} ELSE fds[sh]]
  /\ offer' = {Snapshot(head)}
  /\ UNCHANGED <<head, memory, shells, ack, path, client, faults>>

\* A successor that has bound while its predecessor still waits for an answer; it
\* is in charge when the predecessor leaves.
Bound == heir # None /\ procs[heir] = "serving"
Relieved == head' = heir /\ heir' = None /\ ack' = "none"

\* upgrade-ack: the reply is sent, and the end of the process scheduled.
AckArrives ==
  /\ procs[head] = "handing" /\ ack = "ack"
  /\ procs' = [procs EXCEPT ![head] = "leaving"]
  /\ \/ Bound /\ Relieved
     \/ ~Bound /\ ack' = "none" /\ UNCHANGED <<head, heir>>
  /\ UNCHANGED <<memory, kernel, offer, path, client, faults>>

\* With a bug: a successor that failed is left running.
GiveUp_LeavesTheHeir ==
  /\ procs' = [procs EXCEPT ![head] = "serving"]
  /\ UNCHANGED kernel

\* What a failed handoff leaves: the predecessor, and no successor.
GiveUp ==
  /\ procs' = [procs EXCEPT ![head] = "serving", ![heir] = "dead"]
  /\ Closing(heir)

Refused == ack = "nak" \/ procs[heir] = "dead"

\* upgrade-nak, the successor's exit, or five seconds without an answer.
HandoffFails ==
  /\ procs[head] = "handing"
  /\ \/ Refused /\ UNCHANGED faults
     \/ Fault("stall")
  /\ GiveUp
  /\ heir' = None /\ offer' = {} /\ ack' = "none"
  /\ client' = IF client = heir THEN None ELSE client
  /\ UNCHANGED <<head, memory, path>>

\* finalizeHandoff: close without killing ...
CloseServer(p) ==
  /\ procs[p] = "leaving"
  /\ procs' = [procs EXCEPT ![p] = "closing"]
  /\ client' = IF client = p THEN None ELSE client
  /\ UNCHANGED <<head, memory, kernel, handoff, path, faults>>

\* ... whose last step unlinks the path ...
Unlink(p) ==
  /\ procs[p] = "closing"
  /\ procs' = [procs EXCEPT ![p] = "closed"]
  /\ path' = None
  /\ UNCHANGED <<head, memory, kernel, handoff, client, faults>>

\* ... and exit.
ExitProcess(p) ==
  /\ procs[p] = "closed"
  /\ procs' = [procs EXCEPT ![p] = "dead"]
  /\ Closing(p)
  /\ UNCHANGED <<head, memory, handoff, path, client, faults>>

-----------------------------------------------------------------------------
\* The successor.

Adopts(s, ids) ==
  \E o \in offer :
    LET theirs == {o.sessions[id] : id \in ids} \ {None} IN
    /\ store' = [store EXCEPT ![s] = [id \in Ids |-> IF id \in ids THEN o.sessions[id]
                                                                   ELSE None]]
    /\ ring' = [ring EXCEPT ![s] = [sh \in Shells |->
         IF sh \in theirs /\ o.buffer[sh] # <<>> THEN <<o.buffer[sh]>> ELSE <<>>]]

\* runHandoffReceiver up to its ack.
Adopt ==
  /\ heir # None /\ procs[heir] = "booting" /\ procs[head] # "dead"
  /\ Adopts(heir, Ids)
  /\ procs' = [procs EXCEPT ![heir] = "adopted"]
  /\ ack' = "ack"
  /\ UNCHANGED <<head, heir, timers, kernel, offer, path, client, faults>>

\* A session of the snapshot is refused after others were adopted, which are read
\* for as long as the process takes to exit.
AdoptFails ==
  /\ heir # None /\ procs[heir] = "booting" /\ procs[head] # "dead"
  /\ Fault("nak")
  /\ \E ids \in SUBSET Ids : Adopts(heir, ids)
  /\ procs' = [procs EXCEPT ![heir] = "failed"]
  /\ ack' = "nak"
  /\ UNCHANGED <<head, heir, timers, kernel, offer, path, client>>

\* Fifty milliseconds after a nak, or with no predecessor to write to.
HeirExits ==
  /\ heir # None
  /\ procs[heir] = "failed" \/ (procs[heir] = "booting" /\ procs[head] = "dead")
  /\ procs' = [procs EXCEPT ![heir] = "dead"]
  /\ Closing(heir)
  /\ UNCHANGED <<head, memory, handoff, path, client, faults>>

\* With a bug: it does not wait for its predecessor.
MayBind_AtOnce == procs[head] # "handing"

\* The predecessor's exit closes the channel.
MayBind == procs[head] = "dead"

\* It binds when its predecessor is gone, or a second after its ack, whatever its
\* predecessor is at by then, and removes the snapshot.
Bind ==
  /\ heir # None /\ procs[heir] = "adopted"
  /\ \/ MayBind /\ UNCHANGED faults
     \/ ~MayBind /\ Fault("slow")
  /\ procs' = [procs EXCEPT ![heir] = "serving"]
  /\ path' = heir /\ offer' = {}
  /\ \/ procs[head] = "handing" /\ UNCHANGED <<head, heir, ack>>
     \/ procs[head] # "handing" /\ Relieved
  /\ UNCHANGED <<memory, kernel, client>>

\* The daemon in charge or its successor dies of something else.
Crash(p) ==
  /\ p \in {head, heir} \ {None} /\ procs[p] \notin {"unborn", "dead"}
  /\ Fault("crash")
  /\ procs' = [procs EXCEPT ![p] = "dead"]
  /\ Closing(p)
  /\ client' = IF client = p THEN None ELSE client
  /\ \/ p = head /\ Bound /\ Relieved
     \/ ~(p = head /\ Bound) /\ UNCHANGED <<head, heir, ack>>
  /\ UNCHANGED <<memory, offer, path>>

-----------------------------------------------------------------------------
Init ==
  /\ procs = [p \in Procs |-> IF p = 1 THEN "serving" ELSE "unborn"]
  /\ head = 1 /\ heir = None /\ path = 1
  /\ store = [p \in Procs |-> NoSessions]
  /\ ring = [p \in Procs |-> NoRings]
  /\ timers = [p \in Procs |-> {}]
  /\ shells = [sh \in Shells |->
                 [state |-> "none", printed |-> 0, read |-> 0, late |-> FALSE]]
  /\ fds = [sh \in Shells |-> {}]
  /\ offer = {} /\ ack = "none"
  /\ client = None
  /\ faults = {}

Next ==
  \/ \E sh \in Shells :
       \/ ShellPrints(sh) \/ ShellEnds(sh)
       \/ \E p \in Procs : Read(p, sh) \/ Exit(p, sh) \/ Escalate(p, sh)
       \/ \E id \in Ids : Open(id, sh)
  \/ Connect
  \/ \E id \in Ids, heeds \in BOOLEAN : Close(id, heeds)
  \/ PrepareUpgrade \/ AckArrives \/ HandoffFails
  \/ \E p \in Procs : CloseServer(p) \/ Unlink(p) \/ ExitProcess(p) \/ Crash(p)
  \/ Adopt \/ AdoptFails \/ HeirExits \/ Bind

Spec == Init /\ [][Next]_vars

\* Processes go on with what they began and read what is there; the client
\* reconnects; shells, users and faults owe nothing.
FairSpec ==
  /\ Spec
  /\ WF_vars(Connect) /\ WF_vars(AckArrives) /\ WF_vars(Adopt) /\ WF_vars(HeirExits)
  /\ WF_vars(MayBind /\ Bind)
  /\ WF_vars(procs[head] = "handing" /\ Refused /\ HandoffFails)
  /\ \A p \in Procs : /\ WF_vars(CloseServer(p)) /\ WF_vars(Unlink(p))
                      /\ WF_vars(ExitProcess(p))
                      /\ \A sh \in Shells : WF_vars(Read(p, sh)) /\ WF_vars(Exit(p, sh))
-----------------------------------------------------------------------------
Chunks == 1..MaxOutput
Crashed == "crash" \in faults

\* Types; a session being killed was opened, and a handoff has a successor.
TypeOK ==
  /\ procs \in [Procs -> {"unborn", "serving", "handing", "leaving", "closing", "closed",
                          "booting", "adopted", "failed", "dead"}]
  /\ head \in Procs /\ heir \in Procs \cup {None} /\ path \in Procs \cup {None}
  /\ store \in [Procs -> [Ids -> Shells \cup {None}]]
  /\ \A p \in Procs, sh \in Shells :
       /\ FlattenSeq(ring[p][sh]) \in Seq(Chunks)
       /\ sh \in timers[p] => shells[sh].state # "none"
  /\ \A sh \in Shells : /\ shells[sh].state \in {"none", "running", "dead", "lost"}
                        /\ shells[sh].read <= shells[sh].printed
                        /\ fds[sh] \subseteq Procs
  /\ ack \in {"none", "ack", "nak"}
  /\ procs[head] = "handing" => heir # None

\* A shell is hung up by a handoff only if it was opened while the handoff was on,
\* or a daemon died of something else: whatever fails, what was there is kept
\* (prepareUpgrade, finalizeHandoff).
SessionsSurvive ==
  \A sh \in Shells : shells[sh].state = "lost" => shells[sh].late \/ Crashed

\* Once a handoff is over, whichever way, nobody but the daemon in charge has a
\* terminal open, except a predecessor that is on its way out: no failed successor
\* goes on reading it (Server.ts:272-282).
OneReader ==
  heir = None => \A sh \in Shells :
    fds[sh] \subseteq {head} \cup {p \in Procs : procs[p] \in {"leaving", "closing", "closed"}}

\* A replay shows no chunk twice and none before an older one, with two processes
\* reading the terminal and a history that is adopted as one piece (adoptSnapshot).
ReplayIsOrdered ==
  \A p \in Procs, sh \in Shells :
    LET replay == FlattenSeq(ring[p][sh])
    IN  \A i, j \in DOMAIN replay : i < j => replay[i] < replay[j]

\* A handoff ends, whichever way, with a daemon that serves and that the path leads
\* to: no predecessor's unlink takes its successor's socket away, as long as it
\* closes within the second the successor waits (main.ts:177-179).
HandoffEnds ==
  <>Crashed \/ []<>(procs[head] = "serving" /\ (path = head \/ "slow" \in faults))

\* A session whose shell has ended leaves the daemon, even if it ended while both
\* had it (Pty.ts AdoptedPty).
DeadSessionsLeave ==
  \A sh \in Shells :
    [](shells[sh].state = "dead" => <>[](\A p \in Procs : Runs(p) => sh \notin Held(p)))
=============================================================================
