----------------------------- MODULE AcpRegistry -----------------------------
(***************************************************************************)
(* Which agent sessions a host-service has and which adapter process       *)
(* serves each: the maps runtimes, creations and offline of                *)
(* AcpSessionManager (host-service/runtime/acp-sessions/acp-sessions.ts),  *)
(* the rows it persists (persistence.ts) and the adapters it spawns.       *)
(*                                                                         *)
(* A session is bound to a transcript, the adapter's own session id: a     *)
(* fresh adapter starts one, named here by the adapter's number, and a     *)
(* resurrected session loads the one its row names.  The host-service may  *)
(* crash; its adapters then end, and the next process starts from the      *)
(* rows.  What a live session does is AcpTurn's.                           *)
(* Left out: workspaces that do not match, failing row writes, a manager   *)
(* without persistence.                                                    *)
(*                                                                         *)
(* The host notices an adapter's end by its exit or by its connection,     *)
(* which may close while the process lives on: an adapter's state is that  *)
(* of its connection, alive says whether the process still runs.           *)
(***************************************************************************)
EXTENDS Integers, Sequences, FiniteSets, SequencesExt

CONSTANTS
  Sessions,
  MaxDead,    \* MAX_DEAD_RUNTIMES
  \* bounds of the instance
  MaxAdapters, MaxCrashes

ASSUME RegistryAssumption ==
  /\ MaxDead \in Nat
  /\ {MaxAdapters, MaxCrashes} \subseteq Nat

VARIABLES
  phase,      \* of the manager: serving, disposing, disposed
  runtimes,   \* the adapter of each session's runtime, 0: no runtime
  graveyard,  \* sessions whose runtime is dead, least recently updated first
  creations,  \* creations in flight, Nil: none
  offline,    \* transcript of each session known from a row only, 0: not one
  rows,       \* transcript of each persisted session, 0: no row
  adapters,   \* adapter processes, in the order they were spawned
  forgotten,  \* history: sessions evicted in this lifetime of the host
  crashes     \* crashes so far

memory == <<phase, runtimes, graveyard, creations, offline, forgotten>>
vars == <<memory, rows, adapters, crashes>>

Nil == [adapter |-> 0, resume |-> 0, awaited |-> FALSE]
\* A creation waits for the workspace's directory, then for its adapter.
Creation(resume) == [adapter |-> -1, resume |-> resume, awaited |-> FALSE]

Sids == DOMAIN adapters
\* Its connection is open.
Running(a) == adapters[a].state \in {"starting", "ready"}
IsDead(s) == \E i \in DOMAIN graveyard : graveyard[i] = s

-----------------------------------------------------------------------------
\* Requests.  One that finds a runtime, dead or not, or a creation in flight is
\* given that one and changes nothing.

\* With a bug: a session known from its row only is created afresh.
Resumes_Never(s) == 0

\* The transcript a creation resumes, 0: none, it is a fresh session.
Resumes(s) == offline[s]

\* With a bug: a creation in flight is not looked for.
MayCreate_Twice(s) == runtimes[s] = 0

MayCreate(s) == runtimes[s] = 0 /\ creations[s] = Nil

Create(s) ==
  /\ phase = "serving" /\ MayCreate(s)
  /\ creations' = [creations EXCEPT ![s] = Creation(Resumes(s))]
  /\ UNCHANGED <<phase, runtimes, graveyard, offline, forgotten, rows, adapters, crashes>>

\* ensureLive, before every operation on a session.
EnsureLive(s) ==
  /\ phase = "serving" /\ MayCreate(s) /\ offline[s] # 0
  /\ creations' = [creations EXCEPT ![s] = Creation(offline[s])]
  /\ UNCHANGED <<phase, runtimes, graveyard, offline, forgotten, rows, adapters, crashes>>

-----------------------------------------------------------------------------
\* createRuntime.

Spawn(s) ==
  /\ creations[s].adapter = -1 /\ Len(adapters) < MaxAdapters
  /\ LET a == Len(adapters) + 1
         resume == creations[s].resume
     IN  /\ adapters' = Append(adapters,
              [session |-> s, state |-> "starting", alive |-> TRUE, killed |-> FALSE,
               mute |-> FALSE, transcript |-> IF resume = 0 THEN a ELSE resume])
         /\ creations' = [creations EXCEPT ![s].adapter = a]
  /\ UNCHANGED <<phase, runtimes, graveyard, offline, forgotten, rows, crashes>>

\* evictDeadRuntimes: of the dead, the MAX_DEAD_RUNTIMES updated last are kept.
Kept(dead) ==
  IF Len(dead) <= MaxDead THEN dead ELSE SubSeq(dead, Len(dead) - MaxDead + 1, Len(dead))

Evicted(dead) == ToSet(dead) \ ToSet(Kept(dead))

\* With a bug: a failed load gives the session up.
Keeps_OnlyOnSuccess(s) == [offline EXCEPT ![s] = 0]

\* What is offline after a load failed.
Keeps(s) == offline

\* The session is registered.  When its adapter was lost in the meantime it is dead
\* from the start, and the graveyard was swept before it was in it.
Register(s) ==
  LET a    == creations[s].adapter
      died == ~Running(a)
      gone == IF died THEN Evicted(graveyard) ELSE {}
  IN  /\ a > 0 /\ adapters[a].state \in {"ready", "dead"}
      /\ runtimes' = [t \in Sessions |-> IF t = s THEN a
                                         ELSE IF t \in gone THEN 0 ELSE runtimes[t]]
      /\ graveyard' = IF died THEN Append(Kept(graveyard), s) ELSE graveyard
      /\ forgotten' = forgotten \cup gone
      /\ rows' = [rows EXCEPT ![s] = adapters[a].transcript]
      /\ offline' = [offline EXCEPT ![s] = 0]
      /\ creations' = [creations EXCEPT ![s] = Nil]
      /\ UNCHANGED <<phase, adapters, crashes>>

\* The directory is not found, or the adapter fails, ends or closes its connection
\* before it is ready.
CreationFails(s) ==
  LET a == creations[s].adapter
  IN  /\ creations[s] # Nil
      /\ a > 0 => adapters[a].state \in {"starting", "stillborn"}
      /\ adapters' = IF a > 0 THEN [adapters EXCEPT ![a].killed = TRUE] ELSE adapters
      /\ creations' = [creations EXCEPT ![s] = Nil]
      /\ offline' = Keeps(s)
      /\ UNCHANGED <<phase, runtimes, graveyard, forgotten, rows, crashes>>

-----------------------------------------------------------------------------
\* Adapters.

\* It answered all it is asked before a session is registered.
AdapterReady(a) ==
  /\ adapters[a].state = "starting" /\ ~adapters[a].killed
  /\ adapters' = [adapters EXCEPT ![a].state = "ready"]
  /\ UNCHANGED <<memory, rows, crashes>>

\* What the connection of an adapter becomes when it closes.
Severed(state) ==
  CASE state = "ready"    -> "dead"
    [] state = "starting" -> "stillborn"
    [] OTHER              -> state

\* The process goes on without it.
ConnectionCloses(a) ==
  /\ Running(a)
  /\ adapters' = [adapters EXCEPT ![a].state = Severed(@)]
  /\ UNCHANGED <<memory, rows, crashes>>

AdapterExits(a) ==
  /\ adapters[a].alive
  /\ adapters' = [adapters EXCEPT ![a].state = Severed(@), ![a].alive = FALSE]
  /\ UNCHANGED <<memory, rows, crashes>>

\* markDead of a registered session, on the exit or the closed connection, whichever
\* is heard first: its last state is persisted, the graveyard swept.  The process is
\* not killed.
MarkDead(s) ==
  LET dead == Append(graveyard, s)
      gone == Evicted(dead)
  IN  /\ runtimes[s] # 0 /\ ~IsDead(s) /\ ~Running(runtimes[s])
      /\ graveyard' = Kept(dead)
      /\ runtimes' = [t \in Sessions |-> IF t \in gone THEN 0 ELSE runtimes[t]]
      /\ forgotten' = forgotten \cup gone
      /\ rows' = [rows EXCEPT ![s] = adapters[runtimes[s]].transcript]
      /\ UNCHANGED <<phase, creations, offline, adapters, crashes>>

\* A dead session, evicted or not, still ends its turns and persists its state;
\* one that is registered becomes the most recently updated.
EmitsLate(a) ==
  LET s == adapters[a].session
  IN  /\ adapters[a].state = "dead" /\ ~adapters[a].mute /\ ~adapters[a].killed
      /\ runtimes[s] = a => IsDead(s)
      /\ creations[s].adapter # a
      /\ adapters' = [adapters EXCEPT ![a].mute = TRUE]
      /\ rows' = [rows EXCEPT ![s] = adapters[a].transcript]
      /\ IF runtimes[s] = a
         THEN \E i \in DOMAIN graveyard :
                graveyard[i] = s /\ graveyard' = Append(RemoveAt(graveyard, i), s)
         ELSE UNCHANGED graveyard
      /\ UNCHANGED <<phase, runtimes, creations, offline, forgotten, crashes>>

-----------------------------------------------------------------------------
\* The end of the host-service.

\* With a bug: only what is registered is waited for.
Dispose_Now ==
  /\ phase = "serving"
  /\ phase' = "disposing"
  /\ UNCHANGED <<runtimes, graveyard, creations, offline, forgotten, rows, adapters, crashes>>

Dispose ==
  /\ phase = "serving"
  /\ phase' = "disposing"
  /\ creations' = [s \in Sessions |-> IF creations[s] = Nil THEN Nil
                                      ELSE [creations[s] EXCEPT !.awaited = TRUE]]
  /\ UNCHANGED <<runtimes, graveyard, offline, forgotten, rows, adapters, crashes>>

\* Dead runtimes are killed too, evicted ones are no longer known.
DisposeKills ==
  /\ phase = "disposing"
  /\ \A s \in Sessions : ~creations[s].awaited
  /\ phase' = "disposed"
  /\ adapters' = [a \in Sids |-> IF runtimes[adapters[a].session] = a
                                 THEN [adapters[a] EXCEPT !.killed = TRUE] ELSE adapters[a]]
  /\ runtimes' = [s \in Sessions |-> 0]
  /\ graveyard' = <<>>
  /\ UNCHANGED <<creations, offline, forgotten, rows, crashes>>

\* The process ends, with or without dispose, and the next one loads the rows.
Crash ==
  /\ crashes < MaxCrashes
  /\ crashes' = crashes + 1
  /\ phase' = "serving"
  /\ runtimes' = [s \in Sessions |-> 0]
  /\ graveyard' = <<>>
  /\ creations' = [s \in Sessions |-> Nil]
  /\ offline' = rows
  /\ forgotten' = {}
  /\ adapters' = [a \in Sids |-> [adapters[a] EXCEPT !.killed = TRUE]]
  /\ UNCHANGED rows

-----------------------------------------------------------------------------
Init ==
  /\ phase = "serving"
  /\ runtimes = [s \in Sessions |-> 0]
  /\ graveyard = <<>>
  /\ creations = [s \in Sessions |-> Nil]
  /\ offline = [s \in Sessions |-> 0]
  /\ rows = [s \in Sessions |-> 0]
  /\ adapters = <<>>
  /\ forgotten = {}
  /\ crashes = 0

CreationStep(s) == Spawn(s) \/ Register(s) \/ CreationFails(s)

Next ==
  \/ \E s \in Sessions : Create(s) \/ EnsureLive(s) \/ CreationStep(s) \/ MarkDead(s)
  \/ \E a \in Sids : AdapterReady(a) \/ ConnectionCloses(a) \/ AdapterExits(a) \/ EmitsLate(a)
  \/ Dispose
  \/ DisposeKills
  \/ Crash

Spec == Init /\ [][Next]_vars

-----------------------------------------------------------------------------
\* Every variable has its type; the dead are buried once, and have a runtime.
TypeOK ==
  /\ phase \in {"serving", "disposing", "disposed"}
  /\ runtimes \in [Sessions -> 0..Len(adapters)]
  /\ ToSet(graveyard) \subseteq {s \in Sessions : runtimes[s] # 0}
  /\ IsInjective(graveyard)
  /\ creations \in [Sessions -> [adapter : -1..Len(adapters),
                                 resume : 0..Len(adapters), awaited : BOOLEAN]]
  /\ offline \in [Sessions -> 0..Len(adapters)]
  /\ rows \in [Sessions -> 0..Len(adapters)]
  /\ adapters \in Seq([session : Sessions, alive : BOOLEAN, killed : BOOLEAN, mute : BOOLEAN,
                       state : {"starting", "ready", "stillborn", "dead"},
                       transcript : 1..Len(adapters)])
  /\ forgotten \subseteq Sessions
  /\ crashes \in 0..MaxCrashes

\* Requests that arrive together, for a session that is new, persisted or being
\* created, never leave the host connected to two adapters for it
\* (acp-sessions.ts:567-634).
OneAdapterPerSession ==
  \A s \in Sessions :
    Cardinality({a \in Sids : /\ adapters[a].session = s
                              /\ Running(a) /\ ~adapters[a].killed}) <= 1

\* A persisted session is either served from a runtime that speaks the transcript
\* of its row or offline with that transcript, through failed loads, crashes and
\* deaths, until it is evicted from the graveyard (acp-sessions.ts:192-198, 207-212, 262-276).
SessionsAreKept ==
  \A s \in Sessions :
    phase = "serving" /\ rows[s] # 0 /\ s \notin forgotten =>
      IF runtimes[s] # 0
      THEN offline[s] = 0 /\ adapters[runtimes[s]].transcript = rows[s]
      ELSE offline[s] = rows[s]

\* Whatever order creates, operations, failures and crashes come in, a session goes
\* on with the transcript it has, until it is evicted (acp-sessions.ts:589-600,
\* 754-771).
TranscriptIsKept ==
  [][\A s \in Sessions :
       rows[s] # 0 /\ s \notin forgotten => rows'[s] = rows[s]]_vars

\* Disposed, the host has left no adapter running, not one that was being created at
\* the time, nor one that had closed its connection and lived on, unless its session
\* was evicted before (acp-sessions.ts:542-561).
DisposeLeavesNoAdapter ==
  phase = "disposed" =>
    \A a \in Sids :
      adapters[a].alive =>
        \/ adapters[a].killed
        \/ ~Running(a) /\ adapters[a].session \in forgotten

\* acp-sessions.ts:589-591: "A create() re-issued for a persisted session (...)
\* resurrects instead of minting a fresh adapter session".  A row never changes
\* its transcript.  It does for a session that was evicted from the graveyard:
\* it is neither in runtimes nor offline, so a create starts afresh under its id.
CreateResurrects ==
  [][\A s \in Sessions : rows[s] # 0 => rows'[s] = rows[s]]_vars
=============================================================================
