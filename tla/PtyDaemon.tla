------------------------------ MODULE PtyDaemon ------------------------------
(***************************************************************************)
(* One pty-daemon process in its steady state (packages/pty-daemon): the   *)
(* session store with its replay rings, the connections on the unix        *)
(* socket, the handlers a client frame is dispatched to, the fan-out of    *)
(* PTY output and exit events, the outbound cap that drops a slow reader,  *)
(* and the kill escalation.  Node runs every callback to completion, so a  *)
(* callback is one action.                                                 *)
(*                                                                         *)
(* Bytes are abstracted to offsets: a session's PTY output is a stream     *)
(* 0, 1, 2, ... and a chunk is an interval of it.  A ring is its first     *)
(* retained offset, base, and the offsets at which chunks begin, cuts.     *)
(* A control frame counts as one byte of outbound buffer, an output frame  *)
(* as one byte more than its payload.                                      *)
(*                                                                         *)
(* Over-approximation: after socket.destroy() the frames that were in the  *)
(* same data chunk are still dispatched (Server.ts:325-331); here a        *)
(* destroyed connection may dispatch until its 'close' event.              *)
(*                                                                         *)
(* An operator F_Xyz before an operator F is a plausible fault of F; the   *)
(* specification never uses it.                                            *)
(***************************************************************************)
EXTENDS Integers, Sequences

CONSTANTS
  Ids,          \* session ids a client may name
  Conns,        \* connection slots; a slot is reused after its 'close' event
  Nil,          \* no session, no feed
  BufferCap,    \* SessionStore bufferCap (64 KB in the code)
  OutboundCap,  \* outboundBufferCap (8 MB in the code)
  ChunkSizes,   \* sizes in which the kernel hands PTY output over
  MaxOutput,    \* bound: bytes one session prints
  MaxOpens      \* bound: sessions opened under one id

ASSUME ConstantsAssumption ==
  /\ BufferCap \in Nat /\ OutboundCap \in Nat
  /\ MaxOutput \in Nat /\ MaxOpens \in Nat
  /\ ChunkSizes \subseteq Nat \ {0}

VARIABLES
  up,     \* the daemon process runs
  store,  \* SessionStore.sessions
  opens,  \* sessions opened so far under each id; numbers the incarnations
  conns,  \* the Server's conns, with the socket's state
  feed    \* what each connection was sent of each session since it last
          \* subscribed; Nil after an unsubscribe (what the client can see)

vars == <<up, store, opens, conns, feed>>

\* A session, its ring and its shell; what is known of a connection; a piece of
\* PTY output; what a connection was sent of a session.
Session ==
  [inc : Nat, produced : Nat, cuts : SUBSET Nat, base : Nat, bytes : Nat,
   exited : BOOLEAN, shell : {"running", "dead"}, killTimer : BOOLEAN,
   asked : BOOLEAN]
Connection ==
  [state : {"absent", "open", "destroyed"}, negotiated : BOOLEAN, subs : SUBSET Ids, pending : Nat]
Piece == [from : Nat, to : Nat]
Feed  == [inc : Nat, start : Nat, frames : Seq(Piece), exited : BOOLEAN]

ASSUME NilAssumption == Nil \notin Session /\ Nil \notin Feed

NewConn == [state |-> "open", negotiated |-> FALSE, subs |-> {}, pending |-> 0]
NoConn  == [NewConn EXCEPT !.state = "absent"]

NewSession(inc) ==
  [inc |-> inc, produced |-> 0, cuts |-> {}, base |-> 0, bytes |-> 0,
   exited |-> FALSE, shell |-> "running", killTimer |-> FALSE, asked |-> FALSE]

Live(id) == store[id] # Nil

-----------------------------------------------------------------------------
Destroy(conn) == [conn EXCEPT !.state = "destroyed", !.pending = 0]

\* writeMessage.  Nothing is written to a destroyed socket, and a write that
\* takes the user-space buffer past the cap destroys the socket.  The check
\* before the write finds nothing the one after the last write left open.
Accepts(conn, size) ==
  conn.state = "open" /\ conn.pending + size <= OutboundCap

Overflow_DropsTheFrame(conn) == conn

Overflow(conn) == Destroy(conn)

Send(conn, size) ==
  IF Accepts(conn, size) THEN [conn EXCEPT !.pending = @ + size]
  ELSE IF conn.state = "open" THEN Overflow(conn) ELSE conn

\* A handler's one reply to the connection that asked.
Reply(c) == conns' = [conns EXCEPT ![c] = Send(@, 1)]

\* The boundaries appendOutput's loop can stop at once n bytes are appended to
\* s: what is left fits the cap, or nothing is left.  It stops at the first.
EvictionStops_WhileAtTheCap(s, n) ==
  {s.produced + n} \cup
  {b \in s.cuts \cup {s.produced} :
     b >= s.base /\ s.bytes + n - (b - s.base) < BufferCap}

EvictionStops(s, n) ==
  {s.produced + n} \cup
  {b \in s.cuts \cup {s.produced} :
     b >= s.base /\ s.bytes + n - (b - s.base) <= BufferCap}

FirstStop(b, stops) == \A d \in stops : b <= d

AppendOutput(s, n, b) ==
  [s EXCEPT !.produced = @ + n,
            !.cuts     = @ \cup {s.produced},
            !.base     = b,
            !.bytes    = @ + n - (b - s.base)]

-----------------------------------------------------------------------------
Init ==
  /\ up = TRUE
  /\ store = [id \in Ids |-> Nil]
  /\ opens = [id \in Ids |-> 0]
  /\ conns = [c \in Conns |-> NoConn]
  /\ feed  = [c \in Conns |-> [id \in Ids |-> Nil]]

\* Connections ---------------------------------------------------------------

Connect(c) ==
  /\ up /\ conns[c].state = "absent"
  /\ conns' = [conns EXCEPT ![c] = NewConn]
  /\ UNCHANGED <<up, store, opens, feed>>

\* The kernel takes bytes off the socket's user-space buffer.
Drain(c) ==
  /\ up /\ conns[c].state = "open"
  /\ \E left \in 0 .. conns[c].pending - 1 :
       conns' = [conns EXCEPT ![c].pending = left]
  /\ UNCHANGED <<up, store, opens, feed>>

\* The socket's 'close' event, after a destroy or because the peer hung up.
DropConn(c) ==
  /\ up /\ conns[c].state # "absent"
  /\ conns' = [conns EXCEPT ![c] = NoConn]
  /\ feed' = [feed EXCEPT ![c] = [id \in Ids |-> Nil]]
  /\ UNCHANGED <<up, store, opens>>

\* A frame of connection c is dispatched.
Receives(c) == up /\ conns[c].state # "absent"
Dispatches(c) == Receives(c) /\ conns[c].negotiated

Hello(c, compatible) ==
  /\ Receives(c) /\ ~conns[c].negotiated
  /\ conns' = [conns EXCEPT ![c] =
                 IF compatible THEN [Send(@, 1) EXCEPT !.negotiated = TRUE]
                               ELSE Destroy(@)]
  /\ UNCHANGED <<up, store, opens, feed>>

\* A frame the decoder refuses, or anything but hello before the handshake:
\* an error frame, and the socket is destroyed.
ProtocolError(c) ==
  /\ Receives(c)
  /\ conns' = [conns EXCEPT ![c] = Destroy(Send(@, 1))]
  /\ UNCHANGED <<up, store, opens, feed>>

\* Handlers ------------------------------------------------------------------

\* Second hello, unknown op, list: one reply, no state.
AnswerOnly(c) ==
  /\ Dispatches(c)
  /\ Reply(c)
  /\ UNCHANGED <<up, store, opens, feed>>

\* An exited entry would be recycled; a live one is refused with EEXIST.
Open(c, id, spawns) ==
  /\ Dispatches(c)
  /\ opens[id] < MaxOpens
  /\ IF spawns /\ (~Live(id) \/ store[id].exited)
     THEN /\ store' = [store EXCEPT ![id] = NewSession(opens[id] + 1)]
          /\ opens' = [opens EXCEPT ![id] = @ + 1]
     ELSE UNCHANGED <<store, opens>>
  /\ Reply(c)
  /\ UNCHANGED <<up, feed>>

\* input and resize: silent when the PTY takes them, an error frame otherwise.
InputOrResize(c, id, accepted) ==
  /\ Dispatches(c)
  /\ IF accepted /\ Live(id) THEN UNCHANGED conns ELSE Reply(c)
  /\ UNCHANGED <<up, store, opens, feed>>

\* pty.kill: SIGKILL ends the shell; SIGHUP may, and arms the one escalation
\* timer a session has.  asked records that the session was asked to end.
Kill_NeverEscalates(s, signal, heeds) ==
  [s EXCEPT !.shell = IF signal = "SIGKILL" \/ heeds THEN "dead" ELSE @,
            !.asked = TRUE]

Kill(s, signal, heeds) ==
  [s EXCEPT !.shell     = IF signal = "SIGKILL" \/ heeds THEN "dead" ELSE @,
            !.killTimer = @ \/ (signal # "SIGKILL" /\ ~s.exited),
            !.asked     = TRUE]

Close(c, id, signal, heeds) ==
  /\ Dispatches(c)
  /\ store' = IF Live(id)
              THEN [store EXCEPT ![id] = Kill(@, signal, heeds)]
              ELSE store
  /\ Reply(c)
  /\ UNCHANGED <<up, opens, feed>>

NewFeed(s, replay) ==
  [inc    |-> s.inc,
   start  |-> IF replay THEN s.base ELSE s.produced,
   frames |-> IF replay /\ s.bytes > 0
              THEN << [from |-> s.base, to |-> s.produced] >> ELSE << >>,
   exited |-> FALSE]

\* The subscription and the replay of the ring are one synchronous step.
Subscribe(c, id, replay) ==
  /\ Dispatches(c)
  /\ IF ~Live(id) THEN /\ Reply(c)
                       /\ UNCHANGED feed
     ELSE LET subscribed == [conns[c] EXCEPT !.subs = @ \cup {id}]
          IN  /\ conns' = [conns EXCEPT ![c] =
                             IF replay /\ store[id].bytes > 0
                             THEN Send(subscribed, store[id].bytes + 1)
                             ELSE subscribed]
              /\ feed' = [feed EXCEPT ![c][id] = NewFeed(store[id], replay)]
  /\ UNCHANGED <<up, store, opens>>

Unsubscribe(c, id) ==
  /\ Dispatches(c)
  /\ conns' = [conns EXCEPT ![c].subs = @ \ {id}]
  /\ feed' = [feed EXCEPT ![c][id] = Nil]
  /\ UNCHANGED <<up, store, opens>>

\* PTY events ----------------------------------------------------------------

Subscribers(id) == {c \in Conns : conns[c].state # "absent" /\ id \in conns[c].subs}

\* wireSession's onData: append to the ring, then fan out.
PtyData(id, n) ==
  /\ up /\ Live(id)
  /\ store[id].produced + n <= MaxOutput
  /\ LET s     == store[id]
         piece == [from |-> s.produced, to |-> s.produced + n]
     IN  /\ \E b \in EvictionStops(s, n) :
              /\ FirstStop(b, EvictionStops(s, n))
              /\ store' = [store EXCEPT ![id] = AppendOutput(s, n, b)]
         /\ conns' = [c \in Conns |-> IF c \in Subscribers(id)
                                      THEN Send(conns[c], n + 1) ELSE conns[c]]
         /\ feed' = [c \in Conns |->
                       IF c \in Subscribers(id) /\ Accepts(conns[c], n + 1)
                       THEN [feed[c] EXCEPT ![id].frames = Append(@, piece)]
                       ELSE feed[c]]
  /\ UNCHANGED <<up, opens>>

\* The shell ends by itself.
ShellDies(id) ==
  /\ up /\ Live(id) /\ store[id].shell = "running"
  /\ store' = [store EXCEPT ![id].shell = "dead"]
  /\ UNCHANGED <<up, opens, conns, feed>>

\* scheduleKillEscalation's timer.
KillEscalation(id) ==
  /\ up /\ Live(id) /\ store[id].killTimer
  /\ store' = [store EXCEPT ![id].shell = "dead", ![id].killTimer = FALSE]
  /\ UNCHANGED <<up, opens, conns, feed>>

AfterExit_KeepsSubscription(conn, id) == Send(conn, 1)

AfterExit(conn, id) == [Send(conn, 1) EXCEPT !.subs = @ \ {id}]

ExitSent_ToNobody(f) == f

ExitSent(f) == [f EXCEPT !.exited = TRUE]

\* wireSession's onExit: exit frame to every subscriber, whose subscription
\* ends, and the session leaves the store in the same step.
PtyExit(id) ==
  /\ up /\ Live(id) /\ store[id].shell = "dead"
  /\ conns' = [c \in Conns |->
                 IF c \in Subscribers(id)
                 THEN AfterExit(conns[c], id)
                 ELSE conns[c]]
  /\ feed' = [c \in Conns |->
                IF c \in Subscribers(id) /\ Accepts(conns[c], 1)
                THEN [feed[c] EXCEPT ![id] = ExitSent(@)] ELSE feed[c]]
  /\ store' = [store EXCEPT ![id] = Nil]
  /\ UNCHANGED <<up, opens>>

Terminated(s) == Kill(s, "SIGKILL", FALSE)

\* SIGTERM or SIGINT: close() destroys the connections and kills every PTY,
\* and the process exits.  The store is kept to say what the kills left.
Shutdown ==
  /\ up /\ up' = FALSE
  /\ conns' = [c \in Conns |-> NoConn]
  /\ store' = [id \in Ids |-> IF Live(id) THEN Terminated(store[id]) ELSE Nil]
  /\ feed' = [c \in Conns |-> [id \in Ids |-> Nil]]
  /\ UNCHANGED opens

-----------------------------------------------------------------------------
Next ==
  \/ \E c \in Conns :
       \/ Connect(c) \/ Drain(c) \/ DropConn(c)
       \/ \E compatible \in BOOLEAN : Hello(c, compatible)
       \/ ProtocolError(c) \/ AnswerOnly(c)
       \/ \E id \in Ids :
            \/ \E spawns \in BOOLEAN : Open(c, id, spawns)
            \/ \E accepted \in BOOLEAN : InputOrResize(c, id, accepted)
            \/ \E signal \in {"SIGHUP", "SIGKILL"}, heeds \in BOOLEAN :
                 Close(c, id, signal, heeds)
            \/ \E replay \in BOOLEAN : Subscribe(c, id, replay)
            \/ Unsubscribe(c, id)
  \/ \E id \in Ids :
       \/ \E n \in ChunkSizes : PtyData(id, n)
       \/ ShellDies(id) \/ KillEscalation(id) \/ PtyExit(id)
  \/ Shutdown

Spec == Init /\ [][Next]_vars

\* Timers fire and exit events are delivered while the process runs; what a
\* client sends and when a shell ends by itself is up to them.
Fairness == \A id \in Ids : WF_vars(KillEscalation(id)) /\ WF_vars(PtyExit(id))

FairSpec == Spec /\ Fairness

-----------------------------------------------------------------------------
\* Every variable has its type: sessions, connections and the record of what
\* was sent keep their shape under every handler of the Server.
TypeOK ==
  /\ up \in BOOLEAN
  /\ store \in [Ids -> Session \cup {Nil}]
  /\ opens \in [Ids -> Nat]
  /\ conns \in [Conns -> Connection]
  /\ feed \in [Conns -> [Ids -> Feed \cup {Nil}]]

\* The replay ring is the newest output, as much of it as the cap allows: it
\* ends at the last byte printed, begins at a chunk boundary, never exceeds the
\* cap, its byte counter agrees with its content, and no evicted chunk would
\* still fit (SessionStore.appendOutput).
RingKeepsTheNewest ==
  \A id \in Ids : Live(id) =>
    LET s == store[id] IN
    /\ s.base \in s.cuts \cup {s.produced}
    /\ s.bytes = s.produced - s.base
    /\ s.bytes <= BufferCap
    /\ \A b \in s.cuts : b < s.base => s.produced - b > BufferCap

FeedEnd(f) == IF f.frames = << >> THEN f.start ELSE f.frames[Len(f.frames)].to

\* What a connection is sent of a session since it subscribed is one stretch of
\* the PTY's output: replay and live frames neither skip nor repeat a byte.
FeedIsGapless ==
  \A c \in Conns, id \in Ids : feed[c][id] # Nil =>
    LET fr == feed[c][id].frames IN
    /\ fr # << >> => fr[1].from = feed[c][id].start
    /\ \A i \in 1 .. Len(fr) - 1 : fr[i].to = fr[i + 1].from

\* A connection still open and subscribed has been sent every byte the current
\* session under that id has printed since, and nothing of an earlier one.
SubscriberIsCurrent ==
  \A c \in Conns, id \in Ids :
    conns[c].state = "open" /\ id \in conns[c].subs =>
      /\ Live(id) /\ feed[c][id] # Nil
      /\ feed[c][id].inc = store[id].inc
      /\ ~feed[c][id].exited
      /\ FeedEnd(feed[c][id]) = store[id].produced

\* Both: whoever follows a session has all of it, in order, up to now
\* (handleSubscribe, wireSession's onData, writeMessage).
FeedIsComplete == FeedIsGapless /\ SubscriberIsCurrent

\* No subscription outlives its session, on a dying connection either: the next
\* session opened under the id has no subscriber it did not get by subscribe.
SubscriptionsNameLiveSessions ==
  \A c \in Conns : \A id \in conns[c].subs : Live(id)

\* A connection that is open and did not unsubscribe learns of the exit: it is
\* never left waiting on a session that has gone from the store.
ExitReachesSubscribers ==
  \A c \in Conns, id \in Ids :
    conns[c].state = "open" /\ feed[c][id] # Nil /\ id \notin conns[c].subs =>
      feed[c][id].exited

\* A reader too slow for its outbound buffer is dropped: no open connection
\* holds more than the cap (Server.ts writeMessage).
OutboundIsBounded ==
  \A c \in Conns : conns[c].state = "open" => conns[c].pending <= OutboundCap

\* Once a connection has been sent a session's exit, what it was sent of that
\* session does not change until it subscribes again, unsubscribes or goes.
NothingFollowsExit ==
  [][\A c \in Conns, id \in Ids :
       feed[c][id] # Nil /\ feed[c][id].exited =>
         \/ feed'[c][id] = feed[c][id]
         \/ feed'[c][id] = Nil
         \/ feed'[c][id].inc > feed[c][id].inc]_vars

\* A session that was asked to close goes, even if its shell ignores SIGHUP.
CloseEndsTheSession ==
  \A id \in Ids, inc \in 1 .. MaxOpens :
    (Live(id) /\ store[id].inc = inc /\ store[id].asked)
      ~> (~up \/ ~Live(id) \/ store[id].inc > inc)
=============================================================================
