--------------------------- MODULE TerminalProofs ---------------------------
(***************************************************************************)
(* Proofs about the two ends of a terminal: PtyDaemon, which has its shell,*)
(* and TerminalSessions, which has its row, its session and its viewers.   *)
(*                                                                         *)
(* PtyDaemon, for any ids, connections, caps and chunk sizes.  StoreInv is *)
(* inductive by itself: types, and what a session's ring holds (the        *)
(* counter, the boundaries, nothing evicted that would fit).  FeedInv is   *)
(* inductive relative to it: what a connection was sent is gapless because *)
(* an open subscriber is always current.                                   *)
(*                                                                         *)
(* TerminalSessions, for any slots, shells, clients and failures, while    *)
(* requests do not overlap.  TerminalInv has three parts: what the clients *)
(* owe the session (Served), what an answer may say of the clients and the *)
(* shells (Tasked), and what the requests, the reaper, the row and the     *)
(* sockets know of each other (Control).                                   *)
(***************************************************************************)
EXTENDS PtyDaemon, TerminalSessions, TLAPS

RingOf(s) ==
  /\ s.base \in s.cuts \cup {s.produced}
  /\ s.base <= s.produced
  /\ s.bytes = s.produced - s.base
  /\ s.bytes <= BufferCap
  /\ \A b \in s.cuts : b < s.produced
  /\ \A b \in s.cuts : b < s.base => s.produced - b > BufferCap

CoreTypes ==
  /\ up \in BOOLEAN
  /\ store \in [Ids -> Session \cup {Nil}]
  /\ opens \in [Ids -> Nat]
  /\ conns \in [Conns -> Connection]

SessionsOK ==
  \A id \in Ids : Live(id) =>
    /\ RingOf(store[id])
    /\ ~store[id].exited
    /\ store[id].inc <= opens[id]

StoreInv == CoreTypes /\ SessionsOK

\* A write keeps a connection's type and its subscriptions, and leaves it open
\* exactly when the socket took the bytes.
LEMMA SendKeeps ==
  ASSUME NEW conn \in Connection, NEW size \in Nat
  PROVE  /\ Send(conn, size) \in Connection
         /\ Send(conn, size).subs = conn.subs
         /\ Send(conn, size).negotiated = conn.negotiated
         /\ Send(conn, size).state = "open" <=> Accepts(conn, size)
         /\ Send(conn, size).state = "absent" <=> conn.state = "absent"
<1>1. conn.pending + size \in Nat /\ OutboundCap \in Nat
  BY ConstantsAssumption DEF Connection
<1>2. CASE Accepts(conn, size)
  BY <1>1, <1>2 DEF Send, Accepts, Connection
<1>3. CASE ~Accepts(conn, size) /\ conn.state = "open"
  BY <1>1, <1>3 DEF Send, Accepts, Overflow, Destroy, Connection
<1>4. CASE ~Accepts(conn, size) /\ conn.state # "open"
  BY <1>1, <1>4 DEF Send, Accepts, Connection
<1> QED
  BY <1>2, <1>3, <1>4

\* Appending a chunk and evicting up to the first stop keeps the ring the
\* newest output that fits (SessionStore.appendOutput).
LEMMA AppendKeepsRing ==
  ASSUME NEW s \in Session, RingOf(s), NEW n \in ChunkSizes,
         NEW b \in EvictionStops(s, n), FirstStop(b, EvictionStops(s, n))
  PROVE  /\ AppendOutput(s, n, b) \in Session
         /\ RingOf(AppendOutput(s, n, b))
         /\ AppendOutput(s, n, b).inc = s.inc
         /\ AppendOutput(s, n, b).exited = s.exited
         /\ AppendOutput(s, n, b).produced = s.produced + n
<1> DEFINE a == AppendOutput(s, n, b)
           end == s.produced + n
<1>1. n \in Nat /\ n > 0 /\ BufferCap \in Nat
  BY ConstantsAssumption
<1>2. /\ s.produced \in Nat /\ s.base \in Nat /\ s.bytes \in Nat
      /\ s.cuts \in SUBSET Nat
  BY DEF Session
<1>3. /\ a.produced = end /\ a.base = b /\ a.bytes = s.bytes + n - (b - s.base)
      /\ a.cuts = s.cuts \cup {s.produced}
      /\ a.inc = s.inc /\ a.exited = s.exited
  BY DEF AppendOutput, Session
<1>4. b \in Nat /\ b >= s.base /\ b <= end
  BY <1>1, <1>2 DEF EvictionStops, RingOf
<1>5. a.bytes = end - b
  BY <1>1, <1>2, <1>3, <1>4 DEF RingOf
<1>6. a \in Session
  <2>1. s.cuts \cup {s.produced} \in SUBSET Nat
    BY <1>2
  <2>2. s.bytes + n - (b - s.base) \in Nat /\ s.produced + n \in Nat
    BY <1>1, <1>2, <1>3, <1>4, <1>5
  <2> QED
    BY <2>1, <2>2, <1>4 DEF AppendOutput, Session
<1>7. a.bytes <= BufferCap
  BY <1>1, <1>2, <1>3, <1>4, <1>5 DEF EvictionStops
<1>8. a.base \in a.cuts \cup {a.produced} /\ a.base <= a.produced
  BY <1>3, <1>4 DEF EvictionStops
<1>9. \A d \in a.cuts : d < a.produced
  BY <1>1, <1>2, <1>3 DEF RingOf
<1>10. ASSUME NEW d \in a.cuts, d < a.base
       PROVE  a.produced - d > BufferCap
  <2>1. d \in Nat
    BY <1>2, <1>3
  <2>2. CASE d < s.base
    <3>1. d \in s.cuts
      BY <2>1, <2>2, <1>2, <1>3 DEF RingOf
    <3> QED
      BY <3>1, <2>1, <2>2, <1>1, <1>2, <1>3 DEF RingOf
  <2>3. CASE d >= s.base
    <3>1. d \notin EvictionStops(s, n)
      BY <2>1, <1>3, <1>4, <1>10 DEF FirstStop
    <3>2. s.bytes + n - (d - s.base) > BufferCap
      BY <3>1, <2>1, <2>3, <1>1, <1>2, <1>3 DEF EvictionStops
    <3> QED
      BY <3>2, <2>1, <1>1, <1>2, <1>3 DEF RingOf
  <2> QED
    BY <2>1, <2>2, <2>3, <1>2
<1> QED
  BY <1>3, <1>5, <1>6, <1>7, <1>8, <1>9, <1>10 DEF RingOf

LEMMA SessionShape ==
  ASSUME CoreTypes, NEW id \in Ids, Live(id)
  PROVE  store[id] \in Session
BY DEF CoreTypes, Live

-----------------------------------------------------------------------------
LEMMA StoreInit == Init => StoreInv
<1> SUFFICES ASSUME Init PROVE StoreInv
  OBVIOUS
<1>1. NoConn \in Connection
  BY DEF NoConn, NewConn, Connection
<1> QED
  BY <1>1 DEF Init, StoreInv, CoreTypes, SessionsOK, Live

LEMMA StoreStep == StoreInv /\ [Next]_vars => StoreInv'
<1> SUFFICES ASSUME StoreInv, [Next]_vars PROVE StoreInv'
  OBVIOUS
<1> USE DEF StoreInv
<1>0. CoreTypes /\ SessionsOK
  OBVIOUS
<1>1. CASE UNCHANGED vars
  BY <1>0, <1>1 DEF vars, CoreTypes, SessionsOK, Live
<1>2. ASSUME NEW c \in Conns, Connect(c) PROVE StoreInv'
  <2>1. NewConn \in Connection
    BY DEF NewConn, Connection
  <2> QED
    BY <2>1, <1>0, <1>2 DEF Connect, CoreTypes, SessionsOK, Live
<1>3. ASSUME NEW c \in Conns, Drain(c) PROVE StoreInv'
  <2>1. conns[c] \in Connection
    BY <1>0 DEF CoreTypes
  <2>2. PICK left \in 0 .. conns[c].pending - 1 :
          conns' = [conns EXCEPT ![c].pending = left]
    BY <1>3 DEF Drain
  <2>3. [conns[c] EXCEPT !.pending = left] \in Connection
    BY <2>1 DEF Connection
  <2> QED
    BY <2>2, <2>3, <1>0, <1>3 DEF Drain, CoreTypes, SessionsOK, Live
<1>4. ASSUME NEW c \in Conns, DropConn(c) PROVE StoreInv'
  <2>1. NoConn \in Connection
    BY DEF NoConn, NewConn, Connection
  <2> QED
    BY <2>1, <1>0, <1>4 DEF DropConn, CoreTypes, SessionsOK, Live
<1>5. ASSUME NEW c \in Conns, NEW compatible \in BOOLEAN, Hello(c, compatible)
      PROVE StoreInv'
  <2>1. conns[c] \in Connection
    BY <1>0 DEF CoreTypes
  <2>2. Send(conns[c], 1) \in Connection
    BY <2>1, SendKeeps
  <2>3. /\ [Send(conns[c], 1) EXCEPT !.negotiated = TRUE] \in Connection
        /\ Destroy(conns[c]) \in Connection
    BY <2>1, <2>2 DEF Connection, Destroy
  <2> QED
    BY <2>3, <1>0, <1>5 DEF Hello, CoreTypes, SessionsOK, Live
<1>6. ASSUME NEW c \in Conns, ProtocolError(c) PROVE StoreInv'
  <2>1. conns[c] \in Connection
    BY <1>0 DEF CoreTypes
  <2>2. Destroy(Send(conns[c], 1)) \in Connection
    BY <2>1, SendKeeps DEF Connection, Destroy
  <2> QED
    BY <2>2, <1>0, <1>6 DEF ProtocolError, CoreTypes, SessionsOK, Live
<1>7. ASSUME NEW c \in Conns, Reply(c) PROVE conns' \in [Conns -> Connection]
  <2>1. conns[c] \in Connection
    BY <1>0 DEF CoreTypes
  <2> QED
    BY <2>1, <1>0, <1>7, SendKeeps DEF Reply, CoreTypes
<1>8. ASSUME NEW c \in Conns, AnswerOnly(c) PROVE StoreInv'
  BY <1>0, <1>7, <1>8 DEF AnswerOnly, CoreTypes, SessionsOK, Live
<1>9. ASSUME NEW c \in Conns, NEW id \in Ids, NEW spawns \in BOOLEAN,
             Open(c, id, spawns)
      PROVE StoreInv'
  <2>1. conns' \in [Conns -> Connection]
    BY <1>7, <1>9 DEF Open
  <2>2. CASE UNCHANGED <<store, opens>>
    BY <2>1, <2>2, <1>0, <1>9 DEF Open, CoreTypes, SessionsOK, Live
  <2>3. CASE /\ store' = [store EXCEPT ![id] = NewSession(opens[id] + 1)]
             /\ opens' = [opens EXCEPT ![id] = @ + 1]
    <3>1. opens[id] \in Nat
      BY <1>0 DEF CoreTypes
    <3>2. /\ NewSession(opens[id] + 1) \in Session
          /\ RingOf(NewSession(opens[id] + 1))
          /\ ~NewSession(opens[id] + 1).exited
          /\ NewSession(opens[id] + 1).inc = opens[id] + 1
      BY <3>1, ConstantsAssumption DEF NewSession, Session, RingOf
    <3>3. CoreTypes'
      BY <2>1, <2>3, <3>1, <3>2, <1>0, <1>9 DEF Open, CoreTypes
    <3>4. SessionsOK'
      BY <2>3, <3>1, <3>2, <1>0 DEF SessionsOK, CoreTypes, Live
    <3> QED
      BY <3>3, <3>4
  <2> QED
    BY <2>2, <2>3, <1>9 DEF Open
<1>10. ASSUME NEW c \in Conns, NEW id \in Ids, NEW accepted \in BOOLEAN,
              InputOrResize(c, id, accepted)
       PROVE StoreInv'
  <2>1. conns' \in [Conns -> Connection]
    BY <1>0, <1>7, <1>10 DEF InputOrResize, CoreTypes
  <2> QED
    BY <2>1, <1>0, <1>10 DEF InputOrResize, CoreTypes, SessionsOK, Live
<1>11. ASSUME NEW id \in Ids, Live(id), NEW s \in Session,
              store' = [store EXCEPT ![id] = s], opens' = opens,
              RingOf(s), ~s.exited, s.inc = store[id].inc
       PROVE  SessionsOK' /\ store' \in [Ids -> Session \cup {Nil}]
  BY <1>0, <1>11 DEF SessionsOK, CoreTypes, Live
<1>12. ASSUME NEW id \in Ids, Live(id), NEW signal, NEW heeds \in BOOLEAN
       PROVE  LET k == Kill(store[id], signal, heeds) IN
              /\ k \in Session /\ RingOf(k) /\ ~k.exited
              /\ k.inc = store[id].inc
  <2>1. store[id] \in Session /\ RingOf(store[id]) /\ ~store[id].exited
    BY <1>0, <1>12, SessionShape DEF SessionsOK
  <2> QED
    BY <2>1 DEF Kill, Session, RingOf
<1>13. ASSUME NEW c \in Conns, NEW id \in Ids,
              NEW signal \in {"SIGHUP", "SIGKILL"}, NEW heeds \in BOOLEAN,
              Close(c, id, signal, heeds)
       PROVE StoreInv'
  <2>1. conns' \in [Conns -> Connection]
    BY <1>7, <1>13 DEF Close
  <2>2. SessionsOK' /\ store' \in [Ids -> Session \cup {Nil}]
    <3>1. CASE Live(id)
      <4> DEFINE k == Kill(store[id], signal, heeds)
      <4>1. k \in Session /\ RingOf(k) /\ ~k.exited /\ k.inc = store[id].inc
        BY <3>1, <1>12
      <4>2. store' = [store EXCEPT ![id] = k] /\ opens' = opens
        BY <3>1, <1>13 DEF Close
      <4> HIDE DEF k
      <4> QED
        BY <4>1, <4>2, <3>1, <1>11
    <3>2. CASE ~Live(id)
      BY <3>2, <1>0, <1>13 DEF Close, CoreTypes, SessionsOK, Live
    <3> QED
      BY <3>1, <3>2
  <2> QED
    BY <2>1, <2>2, <1>0, <1>13 DEF Close, CoreTypes
<1>14. ASSUME NEW c \in Conns, NEW id \in Ids, NEW replay \in BOOLEAN,
              Subscribe(c, id, replay)
       PROVE StoreInv'
  <2>1. conns[c] \in Connection
    BY <1>0 DEF CoreTypes
  <2>2. CASE ~Live(id)
    BY <2>2, <1>0, <1>7, <1>14 DEF Subscribe, CoreTypes, SessionsOK, Live
  <2>3. CASE Live(id)
    <3>1. store[id] \in Session
      BY <2>3, <1>0, SessionShape
    <3>3. [conns[c] EXCEPT !.subs = @ \cup {id}] \in Connection
      BY <2>1 DEF Connection
    <3>4. store[id].bytes + 1 \in Nat
      BY <3>1 DEF Session
    <3>5. Send([conns[c] EXCEPT !.subs = @ \cup {id}], store[id].bytes + 1)
            \in Connection
      BY <3>3, <3>4, SendKeeps
    <3>6. conns' \in [Conns -> Connection]
      BY <2>3, <3>3, <3>5, <1>0, <1>14 DEF Subscribe, CoreTypes
    <3> QED
      BY <3>6, <1>0, <1>14 DEF Subscribe, CoreTypes, SessionsOK, Live
  <2> QED
    BY <2>2, <2>3
<1>15. ASSUME NEW c \in Conns, NEW id \in Ids, Unsubscribe(c, id)
       PROVE StoreInv'
  <2>1. conns[c] \in Connection
    BY <1>0 DEF CoreTypes
  <2>2. [conns[c] EXCEPT !.subs = @ \ {id}] \in Connection
    BY <2>1 DEF Connection
  <2> QED
    BY <2>2, <1>0, <1>15 DEF Unsubscribe, CoreTypes, SessionsOK, Live
<1>16. ASSUME NEW id \in Ids, NEW n \in ChunkSizes, PtyData(id, n)
       PROVE StoreInv'
  <2> DEFINE s == store[id]
             piece == [from |-> s.produced, to |-> s.produced + n]
  <2>1. s \in Session /\ RingOf(s) /\ ~s.exited /\ s.inc <= opens[id] /\ Live(id)
    BY <1>0, <1>16, SessionShape DEF PtyData, SessionsOK
  <2>2. n \in Nat /\ n + 1 \in Nat
    BY ConstantsAssumption
  <2>3. PICK b \in EvictionStops(s, n) :
          /\ FirstStop(b, EvictionStops(s, n))
          /\ store' = [store EXCEPT ![id] = AppendOutput(s, n, b)]
    BY <1>16 DEF PtyData
  <2>4. SessionsOK' /\ store' \in [Ids -> Session \cup {Nil}]
    <3> DEFINE a == AppendOutput(s, n, b)
    <3>1. a \in Session /\ RingOf(a) /\ ~a.exited /\ a.inc = store[id].inc
      BY <2>1, <2>3, AppendKeepsRing
    <3>2. store' = [store EXCEPT ![id] = a] /\ opens' = opens
      BY <2>3, <1>16 DEF PtyData
    <3> HIDE DEF a
    <3> QED
      BY <2>1, <3>1, <3>2, <1>11
  <2>5. conns' \in [Conns -> Connection]
    <3>1. \A d \in Conns : Send(conns[d], n + 1) \in Connection
      BY <2>2, <1>0, SendKeeps DEF CoreTypes
    <3> QED
      BY <3>1, <1>0, <1>16 DEF PtyData, CoreTypes
  <2> QED
    BY <2>4, <2>5, <1>0, <1>16 DEF PtyData, CoreTypes
<1>17. ASSUME NEW id \in Ids, ShellDies(id) PROVE StoreInv'
  <2> DEFINE k == [store[id] EXCEPT !.shell = "dead"]
  <2>1. Live(id) /\ store[id] \in Session
    BY <1>0, <1>17, SessionShape DEF ShellDies
  <2>2. k \in Session /\ RingOf(k) /\ ~k.exited /\ k.inc = store[id].inc
    BY <2>1, <1>0 DEF SessionsOK, Session, RingOf
  <2>3. store' = [store EXCEPT ![id] = k] /\ opens' = opens
    BY <1>17 DEF ShellDies
  <2> HIDE DEF k
  <2> QED
    BY <2>1, <2>2, <2>3, <1>0, <1>11, <1>17 DEF ShellDies, CoreTypes
<1>18. ASSUME NEW id \in Ids, KillEscalation(id) PROVE StoreInv'
  <2> DEFINE k == [store[id] EXCEPT !.shell = "dead", !.killTimer = FALSE]
  <2>1. Live(id) /\ store[id] \in Session
    BY <1>0, <1>18, SessionShape DEF KillEscalation
  <2>2. k \in Session /\ RingOf(k) /\ ~k.exited /\ k.inc = store[id].inc
    BY <2>1, <1>0 DEF SessionsOK, Session, RingOf
  <2>3. store' = [store EXCEPT ![id] = k] /\ opens' = opens
    BY <1>0, <1>18 DEF KillEscalation, CoreTypes
  <2> HIDE DEF k
  <2> QED
    BY <2>1, <2>2, <2>3, <1>0, <1>11, <1>18 DEF KillEscalation, CoreTypes
<1>19. ASSUME NEW id \in Ids, PtyExit(id) PROVE StoreInv'
  <2>1. \A c \in Conns : AfterExit(conns[c], id) \in Connection
    <3> SUFFICES ASSUME NEW c \in Conns PROVE AfterExit(conns[c], id) \in Connection
      OBVIOUS
    <3>1. Send(conns[c], 1) \in Connection
      BY <1>0, SendKeeps DEF CoreTypes
    <3> QED
      BY <3>1 DEF AfterExit, Connection
  <2>2. conns' \in [Conns -> Connection]
    BY <2>1, <1>0, <1>19 DEF PtyExit, CoreTypes
  <2> QED
    BY <2>2, <1>0, <1>19 DEF PtyExit, CoreTypes, SessionsOK, Live
<1>20. ASSUME Shutdown PROVE StoreInv'
  <2>1. NoConn \in Connection
    BY DEF NoConn, NewConn, Connection
  <2>2. \A id \in Ids : Live(id) =>
          LET k == Terminated(store[id]) IN
          /\ k \in Session /\ RingOf(k) /\ ~k.exited
          /\ k.inc = store[id].inc
    BY <1>12 DEF Terminated
  <2>3. store' \in [Ids -> Session \cup {Nil}]
    BY <2>2, <1>20 DEF Shutdown
  <2>4. SessionsOK'
    BY <2>2, <1>0, <1>20 DEF Shutdown, SessionsOK, Live
  <2> QED
    BY <2>1, <2>3, <2>4, <1>0, <1>20 DEF Shutdown, CoreTypes
<1> QED
  BY <1>1, <1>2, <1>3, <1>4, <1>5, <1>6, <1>8, <1>9, <1>10, <1>13, <1>14,
     <1>15, <1>16, <1>17, <1>18, <1>19, <1>20 DEF Next

\* The store's part of the invariant holds alone: types, and each ring is the
\* suffix of its session's output that eviction leaves (SessionStore).
THEOREM StoreCorrect == Spec => []StoreInv
<1>1. StoreInv /\ [Next]_vars => StoreInv'
  BY StoreStep
<1> QED
  BY StoreInit, <1>1, PTL DEF Spec

-----------------------------------------------------------------------------
Gapless(f) ==
  /\ f.frames # << >> => f.frames[1].from = f.start
  /\ \A i \in 1 .. Len(f.frames) - 1 : f.frames[i].to = f.frames[i + 1].from

\* What holds between one connection and one session id.
FeedAt(c, id) ==
  LET f == feed[c][id] IN
  /\ conns[c].state = "absent" => id \notin conns[c].subs /\ f = Nil
  /\ id \in conns[c].subs => Live(id)
  /\ conns[c].state = "open" /\ id \in conns[c].subs =>
       /\ f # Nil /\ f.inc = store[id].inc /\ ~f.exited
       /\ FeedEnd(f) = store[id].produced
  /\ conns[c].state = "open" /\ f # Nil /\ id \notin conns[c].subs => f.exited
  /\ f # Nil => /\ Gapless(f)
                /\ f.inc <= opens[id]
                /\ f.exited /\ Live(id) => f.inc < store[id].inc

FeedTypes == feed \in [Conns -> [Ids -> Feed \cup {Nil}]]

FeedInv == FeedTypes /\ \A c \in Conns, id \in Ids : FeedAt(c, id)

IInv == StoreInv /\ FeedInv

\* A step that leaves the feed, the subscriptions and the session alone, and
\* opens or drops no connection, keeps what holds between the two.
LEMMA FeedFrame ==
  ASSUME NEW c \in Conns, NEW id \in Ids, FeedAt(c, id),
         feed'[c][id] = feed[c][id], opens'[id] = opens[id],
         conns'[c].subs = conns[c].subs,
         conns'[c].state = "open" => conns[c].state = "open",
         conns'[c].state = "absent" => conns[c].state = "absent",
         Live(id)' <=> Live(id),
         Live(id) => /\ store'[id].inc = store[id].inc
                     /\ store'[id].produced = store[id].produced
  PROVE  FeedAt(c, id)'
BY DEF FeedAt, Live, FeedEnd, Gapless

ConnsKept ==
  \A c \in Conns :
    /\ conns'[c].subs = conns[c].subs
    /\ conns'[c].state = "open" => conns[c].state = "open"
    /\ conns'[c].state = "absent" => conns[c].state = "absent"

StoreKept ==
  \A id \in Ids :
    /\ Live(id)' <=> Live(id)
    /\ Live(id) => /\ store'[id].inc = store[id].inc
                   /\ store'[id].produced = store[id].produced

LEMMA FeedQuiet ==
  ASSUME FeedInv, UNCHANGED <<feed, opens>>, ConnsKept, StoreKept
  PROVE  FeedInv'
<1>1. FeedTypes'
  BY DEF FeedInv, FeedTypes
<1>2. ASSUME NEW c \in Conns, NEW id \in Ids PROVE FeedAt(c, id)'
  BY <1>2, FeedFrame DEF FeedInv, ConnsKept, StoreKept
<1> QED
  BY <1>1, <1>2 DEF FeedInv

LEMMA ReplyKeepsConns ==
  ASSUME CoreTypes, NEW c \in Conns, Reply(c)
  PROVE  ConnsKept
<1>1. conns[c] \in Connection /\ 1 \in Nat
  BY DEF CoreTypes
<1>2. /\ Send(conns[c], 1).subs = conns[c].subs
      /\ Send(conns[c], 1).state = "open" => conns[c].state = "open"
      /\ Send(conns[c], 1).state = "absent" => conns[c].state = "absent"
  BY <1>1, SendKeeps DEF Accepts
<1> QED
  BY <1>2 DEF Reply, ConnsKept, CoreTypes

LEMMA AppendedPiece ==
  ASSUME NEW f \in Feed, NEW p \in Piece, Gapless(f), FeedEnd(f) = p.from
  PROVE  LET g == [f EXCEPT !.frames = Append(@, p)] IN
         g \in Feed /\ Gapless(g) /\ FeedEnd(g) = p.to
               /\ g.inc = f.inc /\ g.exited = f.exited
<1> DEFINE g == [f EXCEPT !.frames = Append(@, p)]
<1>1. /\ f.frames \in Seq(Piece) /\ g.frames = Append(f.frames, p)
      /\ g.start = f.start /\ g.inc = f.inc /\ g.exited = f.exited
  BY DEF Feed
<1>2. g \in Feed
  BY <1>1 DEF Feed
<1>3. /\ Len(g.frames) = Len(f.frames) + 1 /\ Len(f.frames) \in Nat
      /\ g.frames[Len(f.frames) + 1] = p
      /\ \A i \in 1 .. Len(f.frames) : g.frames[i] = f.frames[i]
      /\ g.frames # << >>
      /\ f.frames = << >> <=> Len(f.frames) = 0
  BY <1>1
<1>4. FeedEnd(g) = p.to
  BY <1>3 DEF FeedEnd
<1>5. g.frames[1].from = g.start
  <2>1. CASE Len(f.frames) = 0
    BY <2>1, <1>1, <1>3 DEF FeedEnd
  <2>2. CASE Len(f.frames) > 0
    BY <2>2, <1>1, <1>3 DEF Gapless
  <2> QED
    BY <2>1, <2>2, <1>3
<1>6. ASSUME NEW i \in 1 .. Len(g.frames) - 1
      PROVE  g.frames[i].to = g.frames[i + 1].from
  <2>1. CASE i = Len(f.frames)
    BY <2>1, <1>3, <1>6 DEF FeedEnd
  <2>2. CASE i < Len(f.frames)
    <3>1. i \in 1 .. Len(f.frames) - 1 /\ i + 1 \in 1 .. Len(f.frames)
      BY <2>2, <1>3
    <3> QED
      BY <3>1, <1>3 DEF Gapless
  <2> QED
    BY <2>1, <2>2, <1>3
<1> HIDE DEF g
<1>7. Gapless(g)
  BY <1>5, <1>6 DEF Gapless
<1> QED
  BY <1>1, <1>2, <1>4, <1>7 DEF g

LEMMA NewFeedIsCurrent ==
  ASSUME NEW s \in Session, RingOf(s), NEW replay \in BOOLEAN
  PROVE  LET f == NewFeed(s, replay) IN
         /\ f \in Feed /\ Gapless(f) /\ FeedEnd(f) = s.produced
         /\ f.inc = s.inc /\ ~f.exited
<1> DEFINE f == NewFeed(s, replay)
           p == [from |-> s.base, to |-> s.produced]
<1>1. /\ s.inc \in Nat /\ s.base \in Nat /\ s.produced \in Nat /\ s.bytes \in Nat
      /\ s.bytes = s.produced - s.base
  BY DEF Session, RingOf
<1>2. CASE replay /\ s.bytes > 0
  <2>1. f = [inc |-> s.inc, start |-> s.base, frames |-> << p >>, exited |-> FALSE]
    BY <1>2 DEF NewFeed
  <2>2. p \in Piece /\ << p >> \in Seq(Piece) /\ Len(<< p >>) = 1
    BY <1>1 DEF Piece
  <2>3. f \in Feed
    BY <2>1, <2>2, <1>1 DEF Feed
  <2> QED
    BY <2>1, <2>2, <2>3 DEF Gapless, FeedEnd
<1>3. CASE ~(replay /\ s.bytes > 0)
  <2>0. (IF replay THEN s.base ELSE s.produced) = s.produced
    BY <1>1, <1>3
  <2>1. f = [inc |-> s.inc, start |-> s.produced, frames |-> << >>,
             exited |-> FALSE]
    BY <2>0, <1>3 DEF NewFeed
  <2>2. << >> \in Seq(Piece)
    OBVIOUS
  <2>3. f \in Feed
    BY <2>1, <2>2, <1>1 DEF Feed
  <2> QED
    BY <2>1, <2>3 DEF Gapless, FeedEnd
<1> QED
  BY <1>2, <1>3

LEMMA FeedInit == Init => FeedInv
BY DEF Init, FeedInv, FeedTypes, FeedAt, NoConn, NewConn

LEMMA FeedStep == StoreInv /\ FeedInv /\ [Next]_vars => FeedInv'
<1> SUFFICES ASSUME StoreInv, FeedInv, [Next]_vars PROVE FeedInv'
  OBVIOUS
<1>0. CoreTypes /\ SessionsOK /\ FeedTypes
  BY DEF StoreInv, FeedInv
<1>1. CASE UNCHANGED vars
  BY <1>1, FeedQuiet DEF vars, ConnsKept, StoreKept, Live
<1>2. ASSUME NEW c \in Conns, Connect(c) PROVE FeedInv'
  <2>1. FeedTypes'
    BY <1>0, <1>2 DEF Connect, FeedTypes
  <2>2. ASSUME NEW d \in Conns, NEW i \in Ids PROVE FeedAt(d, i)'
    <3>1. CASE d = c
      <4>1. conns[c].state = "absent" /\ feed'[c][i] = Nil
        BY <1>2 DEF Connect, FeedInv, FeedAt
      <4>2. conns'[c].state = "open" /\ conns'[c].subs = {}
        BY <1>0, <1>2 DEF Connect, CoreTypes, NewConn
      <4> QED
        BY <3>1, <4>1, <4>2 DEF FeedAt
    <3>2. CASE d # c
      BY <3>2, <1>0, <1>2, <2>2 DEF Connect, CoreTypes, FeedInv, FeedAt, Live
    <3> QED
      BY <3>1, <3>2
  <2> QED
    BY <2>1, <2>2 DEF FeedInv
<1>3. ASSUME NEW c \in Conns, Drain(c) PROVE FeedInv'
  <2>1. conns[c] \in Connection
    BY <1>0 DEF CoreTypes
  <2>2. ConnsKept
    BY <2>1, <1>0, <1>3 DEF Drain, ConnsKept, CoreTypes, Connection
  <2> QED
    BY <2>2, <1>3, FeedQuiet DEF Drain, StoreKept, Live
<1>4. ASSUME NEW c \in Conns, DropConn(c) PROVE FeedInv'
  <2>1. FeedTypes'
    BY <1>0, <1>4 DEF DropConn, FeedTypes
  <2>2. ASSUME NEW d \in Conns, NEW i \in Ids PROVE FeedAt(d, i)'
    <3>1. CASE d = c
      <4>1. feed'[c][i] = Nil
        BY <1>0, <1>4 DEF DropConn, FeedTypes
      <4>2. conns'[c].state = "absent" /\ conns'[c].subs = {}
        BY <1>0, <1>4 DEF DropConn, CoreTypes, NoConn, NewConn
      <4> QED
        BY <3>1, <4>1, <4>2 DEF FeedAt
    <3>2. CASE d # c
      <4>1. conns'[d] = conns[d] /\ feed'[d][i] = feed[d][i]
        BY <3>2, <1>0, <1>4 DEF DropConn, CoreTypes, FeedTypes
      <4> QED
        BY <4>1, <1>4, <2>2, FeedFrame DEF DropConn, FeedInv, Live
    <3> QED
      BY <3>1, <3>2
  <2> QED
    BY <2>1, <2>2 DEF FeedInv
<1>5. ASSUME NEW c \in Conns, NEW compatible \in BOOLEAN, Hello(c, compatible)
      PROVE FeedInv'
  <2>1. conns[c] \in Connection /\ 1 \in Nat
    BY <1>0 DEF CoreTypes
  <2>2. LET k == IF compatible THEN [Send(conns[c], 1) EXCEPT !.negotiated = TRUE]
                               ELSE Destroy(conns[c]) IN
        /\ k.subs = conns[c].subs
        /\ k.state = "open" => conns[c].state = "open"
        /\ k.state = "absent" => conns[c].state = "absent"
    BY <2>1, SendKeeps DEF Accepts, Destroy, Connection
  <2>3. ConnsKept
    BY <2>2, <1>0, <1>5 DEF Hello, ConnsKept, CoreTypes
  <2> QED
    BY <2>3, <1>5, FeedQuiet DEF Hello, StoreKept, Live
<1>6. ASSUME NEW c \in Conns, ProtocolError(c) PROVE FeedInv'
  <2>1. conns[c] \in Connection /\ 1 \in Nat
    BY <1>0 DEF CoreTypes
  <2>2. LET k == Destroy(Send(conns[c], 1)) IN
        k.subs = conns[c].subs /\ k.state = "destroyed"
    BY <2>1, SendKeeps DEF Destroy, Connection
  <2>3. ConnsKept
    BY <2>2, <1>0, <1>6 DEF ProtocolError, ConnsKept, CoreTypes
  <2> QED
    BY <2>3, <1>6, FeedQuiet DEF ProtocolError, StoreKept, Live
<1>7. ASSUME NEW c \in Conns, AnswerOnly(c) PROVE FeedInv'
  BY <1>0, <1>7, ReplyKeepsConns, FeedQuiet DEF AnswerOnly, StoreKept, Live
<1>8. ASSUME NEW c \in Conns, NEW id \in Ids, NEW spawns \in BOOLEAN,
             Open(c, id, spawns)
      PROVE FeedInv'
  <2>1. ConnsKept
    BY <1>0, <1>8, ReplyKeepsConns DEF Open
  <2>2. CASE UNCHANGED <<store, opens>>
    BY <2>1, <2>2, <1>8, FeedQuiet DEF Open, StoreKept, Live
  <2>3. CASE /\ ~Live(id) \/ store[id].exited
             /\ store' = [store EXCEPT ![id] = NewSession(opens[id] + 1)]
             /\ opens' = [opens EXCEPT ![id] = @ + 1]
    <3>1. ~Live(id)
      BY <2>3, <1>0 DEF SessionsOK
    <3>2. FeedTypes'
      BY <1>0, <1>8 DEF Open, FeedTypes
    <3>3. opens[id] \in Nat
      BY <1>0 DEF CoreTypes
    <3>4. ASSUME NEW d \in Conns, NEW i \in Ids PROVE FeedAt(d, i)'
      <4>1. CASE i = id
        <5>1. FeedAt(d, id) /\ feed'[d][id] = feed[d][id]
          BY <1>8 DEF Open, FeedInv
        <5>2. id \notin conns[d].subs /\ conns'[d].subs = conns[d].subs
          BY <5>1, <3>1, <2>1 DEF FeedAt, ConnsKept
        <5>3. feed[d][id] # Nil => feed[d][id] \in Feed
          BY <1>0 DEF FeedTypes
        <5>4. /\ opens'[id] = opens[id] + 1
              /\ store'[id].inc = opens[id] + 1
          BY <2>3, <1>0 DEF CoreTypes, NewSession
        <5>5. /\ conns'[d].state = "open" => conns[d].state = "open"
              /\ conns'[d].state = "absent" => conns[d].state = "absent"
          BY <2>1 DEF ConnsKept
        <5>6. feed[d][id] # Nil =>
                /\ feed[d][id].inc <= opens'[id]
                /\ feed[d][id].inc < store'[id].inc
          BY <5>1, <5>3, <5>4, <3>3 DEF FeedAt, Feed
        <5> QED
          BY <4>1, <5>1, <5>2, <5>5, <5>6 DEF FeedAt
      <4>2. CASE i # id
        <5>1. store'[i] = store[i] /\ opens'[i] = opens[i]
          BY <4>2, <2>3, <1>0 DEF CoreTypes
        <5> QED
          BY <5>1, <1>8, <2>1, <3>4, FeedFrame DEF Open, FeedInv, ConnsKept, Live
      <4> QED
        BY <4>1, <4>2
    <3> QED
      BY <3>2, <3>4 DEF FeedInv
  <2> QED
    BY <2>2, <2>3, <1>8 DEF Open
<1>9. ASSUME NEW c \in Conns, NEW id \in Ids, NEW accepted \in BOOLEAN,
             InputOrResize(c, id, accepted)
      PROVE FeedInv'
  <2>1. ConnsKept
    BY <1>0, <1>9, ReplyKeepsConns DEF InputOrResize, ConnsKept
  <2> QED
    BY <2>1, <1>9, FeedQuiet DEF InputOrResize, StoreKept, Live
<1>10. ASSUME NEW c \in Conns, NEW id \in Ids,
              NEW signal \in {"SIGHUP", "SIGKILL"}, NEW heeds \in BOOLEAN,
              Close(c, id, signal, heeds)
       PROVE FeedInv'
  <2>1. ConnsKept
    BY <1>0, <1>10, ReplyKeepsConns DEF Close
  <2>2. StoreKept
    <3>1. CASE Live(id)
      <4>1. store[id] \in Session
        BY <3>1, <1>0 DEF CoreTypes, Live
      <4>2. LET k == Kill(store[id], signal, heeds) IN
            k \in Session /\ k.inc = store[id].inc /\ k.produced = store[id].produced
        BY <4>1 DEF Kill, Session
      <4>3. Kill(store[id], signal, heeds) # Nil
        BY <4>2, NilAssumption
      <4> QED
        BY <3>1, <4>2, <4>3, <1>0, <1>10 DEF Close, StoreKept, CoreTypes, Live
    <3>2. CASE ~Live(id)
      BY <3>2, <1>10 DEF Close, StoreKept, Live
    <3> QED
      BY <3>1, <3>2
  <2> QED
    BY <2>1, <2>2, <1>10, FeedQuiet DEF Close
<1>11. ASSUME NEW c \in Conns, NEW id \in Ids, NEW replay \in BOOLEAN,
              Subscribe(c, id, replay)
       PROVE FeedInv'
  <2>1. CASE ~Live(id)
    BY <2>1, <1>0, <1>11, ReplyKeepsConns, FeedQuiet
       DEF Subscribe, StoreKept, Live
  <2>2. CASE Live(id)
    <3> DEFINE s == store[id]
               f == NewFeed(s, replay)
               subscribed == [conns[c] EXCEPT !.subs = @ \cup {id}]
    <3>1. s \in Session /\ RingOf(s) /\ conns[c] \in Connection
      BY <2>2, <1>0 DEF CoreTypes, SessionsOK, Live
    <3>2. /\ f \in Feed /\ Gapless(f) /\ FeedEnd(f) = s.produced
          /\ f.inc = s.inc /\ ~f.exited /\ f # Nil
      BY <3>1, NewFeedIsCurrent, NilAssumption
    <3>3. /\ subscribed \in Connection
          /\ subscribed.subs = conns[c].subs \cup {id}
          /\ subscribed.state = conns[c].state
          /\ s.bytes + 1 \in Nat
      BY <3>1 DEF Connection, Session
    <3>4. /\ Send(subscribed, s.bytes + 1).subs = subscribed.subs
          /\ Send(subscribed, s.bytes + 1).state = "open" => conns[c].state = "open"
          /\ Send(subscribed, s.bytes + 1).state = "absent"
               => conns[c].state = "absent"
      BY <3>3, SendKeeps DEF Accepts
    <3>10. conns' = [conns EXCEPT ![c] =
                       IF replay /\ s.bytes > 0
                       THEN Send(subscribed, s.bytes + 1) ELSE subscribed]
      BY <2>2, <1>11 DEF Subscribe
    <3> HIDE DEF subscribed
    <3>5. /\ conns'[c].subs = conns[c].subs \cup {id}
          /\ conns'[c].state = "open" => conns[c].state = "open"
          /\ conns'[c].state = "absent" => conns[c].state = "absent"
          /\ \A d \in Conns : d # c => conns'[d] = conns[d]
      BY <3>3, <3>4, <3>10, <1>0 DEF CoreTypes
    <3>6. /\ feed'[c][id] = f
          /\ \A d \in Conns, i \in Ids :
               d # c \/ i # id => feed'[d][i] = feed[d][i]
          /\ FeedTypes'
      BY <2>2, <3>2, <1>0, <1>11 DEF Subscribe, FeedTypes
    <3>7. conns[c].state # "absent" /\ UNCHANGED <<store, opens>>
      BY <1>11 DEF Subscribe, Dispatches, Receives
    <3>8. s.inc <= opens[id]
      BY <2>2, <1>0 DEF SessionsOK
    <3> HIDE DEF f
    <3>9. ASSUME NEW d \in Conns, NEW i \in Ids PROVE FeedAt(d, i)'
      <4>1. CASE d = c /\ i = id
        BY <4>1, <2>2, <3>2, <3>5, <3>6, <3>7, <3>8 DEF FeedAt, Live
      <4>2. CASE d = c /\ i # id
        BY <4>2, <3>5, <3>6, <3>7 DEF FeedInv, FeedAt, Live
      <4>3. CASE d # c
        BY <4>3, <3>5, <3>6, <3>7, FeedFrame DEF FeedInv, Live
      <4> QED
        BY <4>1, <4>2, <4>3
    <3> QED
      BY <3>6, <3>9 DEF FeedInv
  <2> QED
    BY <2>1, <2>2
<1>12. ASSUME NEW c \in Conns, NEW id \in Ids, Unsubscribe(c, id)
       PROVE FeedInv'
  <2>1. conns[c] \in Connection
    BY <1>0 DEF CoreTypes
  <2>2. /\ conns'[c].subs = conns[c].subs \ {id}
        /\ conns'[c].state = conns[c].state
        /\ \A d \in Conns : d # c => conns'[d] = conns[d]
    BY <2>1, <1>0, <1>12 DEF Unsubscribe, CoreTypes, Connection
  <2>3. /\ feed'[c][id] = Nil
        /\ \A d \in Conns, i \in Ids :
             d # c \/ i # id => feed'[d][i] = feed[d][i]
        /\ FeedTypes'
    BY <1>0, <1>12 DEF Unsubscribe, FeedTypes
  <2>4. conns[c].state # "absent" /\ UNCHANGED <<store, opens>>
    BY <1>12 DEF Unsubscribe, Dispatches, Receives
  <2>5. ASSUME NEW d \in Conns, NEW i \in Ids PROVE FeedAt(d, i)'
    <3>1. CASE d = c /\ i = id
      BY <3>1, <2>2, <2>3, <2>4 DEF FeedAt
    <3>2. CASE d = c /\ i # id
      BY <3>2, <2>2, <2>3, <2>4 DEF FeedInv, FeedAt, Live
    <3>3. CASE d # c
      BY <3>3, <2>2, <2>3, <2>4, FeedFrame DEF FeedInv, Live
    <3> QED
      BY <3>1, <3>2, <3>3
  <2> QED
    BY <2>3, <2>5 DEF FeedInv
<1>13. ASSUME NEW id \in Ids, NEW n \in ChunkSizes, PtyData(id, n)
       PROVE FeedInv'
  <2> DEFINE s == store[id]
             piece == [from |-> s.produced, to |-> s.produced + n]
  <2>1. /\ Live(id) /\ s \in Session /\ RingOf(s)
        /\ n \in Nat /\ n + 1 \in Nat /\ s.produced \in Nat
    BY <1>0, <1>13, ConstantsAssumption
       DEF PtyData, SessionsOK, CoreTypes, Live, Session
  <2>2. /\ Live(id)' /\ store'[id].inc = s.inc
        /\ store'[id].produced = s.produced + n
        /\ \A i \in Ids : i # id => store'[i] = store[i]
    <3>1. PICK b \in EvictionStops(s, n) :
            /\ FirstStop(b, EvictionStops(s, n))
            /\ store' = [store EXCEPT ![id] = AppendOutput(s, n, b)]
      BY <1>13 DEF PtyData
    <3>2. /\ AppendOutput(s, n, b) \in Session
          /\ AppendOutput(s, n, b).inc = s.inc
          /\ AppendOutput(s, n, b).produced = s.produced + n
      BY <3>1, <2>1, AppendKeepsRing
    <3>3. AppendOutput(s, n, b) # Nil
      BY <3>2, NilAssumption
    <3> QED
      BY <3>1, <3>2, <3>3, <1>0 DEF CoreTypes, Live
  <2>3. opens' = opens
    BY <1>13 DEF PtyData
  <2>4. piece \in Piece
    BY <2>1 DEF Piece
  <2>5. \A c \in Conns :
          /\ conns'[c].subs = conns[c].subs
          /\ conns'[c].state = "open" => conns[c].state = "open"
          /\ conns'[c].state = "absent" => conns[c].state = "absent"
          /\ c \in Subscribers(id) /\ conns'[c].state = "open"
               => Accepts(conns[c], n + 1)
    <3> SUFFICES ASSUME NEW c \in Conns
                 PROVE  /\ conns'[c].subs = conns[c].subs
                        /\ conns'[c].state = "open" => conns[c].state = "open"
                        /\ conns'[c].state = "absent" => conns[c].state = "absent"
                        /\ c \in Subscribers(id) /\ conns'[c].state = "open"
                             => Accepts(conns[c], n + 1)
      OBVIOUS
    <3>1. conns[c] \in Connection
      BY <1>0 DEF CoreTypes
    <3>2. conns'[c] = IF c \in Subscribers(id)
                      THEN Send(conns[c], n + 1) ELSE conns[c]
      BY <1>13 DEF PtyData
    <3>3. CASE c \in Subscribers(id)
      <4>1. PICK x : x = conns[c]
        OBVIOUS
      <4>2. x \in Connection /\ n + 1 \in Nat
        BY <2>1, <3>1, <4>1
      <4>3. conns'[c] = Send(x, n + 1)
        BY <3>2, <3>3, <4>1
      <4>4. /\ Send(x, n + 1).subs = x.subs
            /\ Send(x, n + 1).state = "open" => x.state = "open" /\ Accepts(x, n + 1)
            /\ Send(x, n + 1).state = "absent" => x.state = "absent"
        BY <4>2, SendKeeps DEF Accepts
      <4> QED
        BY <4>1, <4>3, <4>4
    <3>4. CASE c \notin Subscribers(id)
      BY <3>2, <3>4
    <3> QED
      BY <3>3, <3>4
  <2>6. \A c \in Conns :
          feed'[c] = IF c \in Subscribers(id) /\ Accepts(conns[c], n + 1)
                     THEN [feed[c] EXCEPT ![id].frames = Append(@, piece)]
                     ELSE feed[c]
    BY <1>13 DEF PtyData
  <2>7. ASSUME NEW c \in Conns, c \in Subscribers(id), Accepts(conns[c], n + 1)
        PROVE  /\ feed'[c] \in [Ids -> Feed \cup {Nil}]
               /\ feed'[c][id] \in Feed /\ feed'[c][id] # Nil
               /\ Gapless(feed'[c][id])
               /\ FeedEnd(feed'[c][id]) = s.produced + n
               /\ feed'[c][id].inc = feed[c][id].inc
               /\ ~feed'[c][id].exited
               /\ feed'[c][id].inc = s.inc /\ s.inc <= opens[id]
               /\ \A i \in Ids : i # id => feed'[c][i] = feed[c][i]
    <3> DEFINE f == feed[c][id]
               g == [f EXCEPT !.frames = Append(@, piece)]
    <3>1. conns[c].state = "open" /\ id \in conns[c].subs
      BY <2>7 DEF Accepts, Subscribers
    <3>2. /\ f \in Feed /\ f # Nil /\ Gapless(f) /\ ~f.exited /\ f.inc = s.inc
          /\ FeedEnd(f) = piece.from /\ s.inc <= opens[id]
      BY <3>1, <1>0, <2>1 DEF FeedInv, FeedAt, FeedTypes, SessionsOK
    <3>3. /\ g \in Feed /\ Gapless(g) /\ FeedEnd(g) = piece.to
          /\ g.inc = f.inc /\ g.exited = f.exited
      BY <3>2, <2>4, AppendedPiece
    <3>4. g # Nil
      BY <3>3, NilAssumption
    <3>5. feed'[c] = [feed[c] EXCEPT ![id] = g]
      BY <2>6, <2>7
    <3> HIDE DEF g, f
    <3>6. feed[c] \in [Ids -> Feed \cup {Nil}]
      BY <1>0 DEF FeedTypes
    <3>7. /\ feed'[c][id] = g /\ feed'[c] \in [Ids -> Feed \cup {Nil}]
          /\ \A i \in Ids : i # id => feed'[c][i] = feed[c][i]
      BY <3>3, <3>5, <3>6
    <3> QED
      BY <3>2, <3>3, <3>4, <3>7 DEF f
  <2>8. FeedTypes'
    <3>1. \A c \in Conns : feed'[c] \in [Ids -> Feed \cup {Nil}]
      BY <2>6, <2>7, <1>0 DEF FeedTypes
    <3> QED
      BY <3>1, <1>13 DEF PtyData, FeedTypes
  <2> HIDE DEF piece, s
  <2>9. ASSUME NEW c \in Conns, NEW i \in Ids PROVE FeedAt(c, i)'
    <3>1. CASE c \in Subscribers(id) /\ Accepts(conns[c], n + 1)
      <4>1. CASE i = id
        BY <3>1, <4>1, <2>1, <2>2, <2>3, <2>5, <2>7 DEF FeedAt, Subscribers
      <4>2. CASE i # id
        BY <3>1, <4>2, <2>2, <2>3, <2>5, <2>7, <2>9, FeedFrame DEF FeedInv, Live
      <4> QED
        BY <4>1, <4>2
    <3>2. CASE ~(c \in Subscribers(id) /\ Accepts(conns[c], n + 1))
      <4>1. feed'[c] = feed[c]
        BY <3>2, <2>6
      <4>2. CASE i = id
        <5>1. FeedAt(c, id)
          BY DEF FeedInv
        <5>2. ~(id \in conns'[c].subs /\ conns'[c].state = "open")
          BY <3>2, <2>5 DEF Subscribers
        <5> QED
          BY <4>1, <4>2, <5>1, <5>2, <2>1, <2>2, <2>3, <2>5 DEF FeedAt, s
      <4>3. CASE i # id
        BY <4>1, <4>3, <2>2, <2>3, <2>5, <2>9, FeedFrame DEF FeedInv, Live
      <4> QED
        BY <4>2, <4>3
    <3> QED
      BY <3>1, <3>2
  <2> QED
    BY <2>8, <2>9 DEF FeedInv
<1>14. ASSUME NEW id \in Ids, ShellDies(id) \/ KillEscalation(id)
       PROVE FeedInv'
  <2>1. Live(id) /\ store[id] \in Session
    BY <1>0, <1>14 DEF ShellDies, KillEscalation, CoreTypes, Live
  <2>2. /\ store'[id] \in Session
        /\ store'[id].inc = store[id].inc
        /\ store'[id].produced = store[id].produced
        /\ \A i \in Ids : i # id => store'[i] = store[i]
    BY <2>1, <1>0, <1>14 DEF ShellDies, KillEscalation, CoreTypes, Session
  <2>3. StoreKept
    BY <2>1, <2>2, NilAssumption DEF StoreKept, Live
  <2> QED
    BY <2>3, <1>14, FeedQuiet DEF ShellDies, KillEscalation, ConnsKept
<1>15. ASSUME NEW id \in Ids, PtyExit(id) PROVE FeedInv'
  <2>1. /\ Live(id) /\ ~Live(id)' /\ opens' = opens
        /\ \A i \in Ids : i # id => store'[i] = store[i]
    BY <1>0, <1>15 DEF PtyExit, CoreTypes, Live
  <2>2. \A c \in Conns :
          /\ conns'[c].subs = conns[c].subs \ (IF c \in Subscribers(id)
                                               THEN {id} ELSE {})
          /\ conns'[c].state = "open" => conns[c].state = "open"
          /\ conns'[c].state = "absent" => conns[c].state = "absent"
          /\ c \in Subscribers(id) /\ conns'[c].state = "open"
               => Accepts(conns[c], 1)
    <3> SUFFICES ASSUME NEW c \in Conns
                 PROVE  /\ conns'[c].subs = conns[c].subs \
                             (IF c \in Subscribers(id) THEN {id} ELSE {})
                        /\ conns'[c].state = "open" => conns[c].state = "open"
                        /\ conns'[c].state = "absent" => conns[c].state = "absent"
                        /\ c \in Subscribers(id) /\ conns'[c].state = "open"
                             => Accepts(conns[c], 1)
      OBVIOUS
    <3>1. conns[c] \in Connection /\ 1 \in Nat
      BY <1>0 DEF CoreTypes
    <3>2. conns'[c] = IF c \in Subscribers(id)
                      THEN AfterExit(conns[c], id) ELSE conns[c]
      BY <1>15 DEF PtyExit
    <3>3. CASE c \in Subscribers(id)
      <4>1. /\ Send(conns[c], 1) \in Connection
            /\ Send(conns[c], 1).subs = conns[c].subs
            /\ Send(conns[c], 1).state = "open" <=> Accepts(conns[c], 1)
            /\ Send(conns[c], 1).state = "absent" <=> conns[c].state = "absent"
        BY <3>1, SendKeeps
      <4>2. /\ AfterExit(conns[c], id).subs = conns[c].subs \ {id}
            /\ AfterExit(conns[c], id).state = Send(conns[c], 1).state
        BY <4>1 DEF AfterExit, Connection
      <4> QED
        BY <3>2, <3>3, <4>1, <4>2 DEF Accepts
    <3>4. CASE c \notin Subscribers(id)
      BY <3>2, <3>4
    <3> QED
      BY <3>3, <3>4
  <2>3. \A c \in Conns :
          feed'[c] = IF c \in Subscribers(id) /\ Accepts(conns[c], 1)
                     THEN [feed[c] EXCEPT ![id] = ExitSent(@)] ELSE feed[c]
    BY <1>15 DEF PtyExit
  <2>4. ASSUME NEW c \in Conns, c \in Subscribers(id), Accepts(conns[c], 1)
        PROVE  /\ feed'[c] \in [Ids -> Feed \cup {Nil}]
               /\ feed'[c][id] \in Feed /\ feed'[c][id].exited
               /\ Gapless(feed'[c][id]) /\ feed'[c][id].inc <= opens[id]
               /\ \A i \in Ids : i # id => feed'[c][i] = feed[c][i]
    <3> DEFINE f == feed[c][id]
               g == ExitSent(f)
    <3>1. conns[c].state = "open" /\ id \in conns[c].subs
      BY <2>4 DEF Accepts, Subscribers
    <3>2. f \in Feed /\ f # Nil /\ Gapless(f) /\ f.inc <= opens[id]
      BY <3>1, <1>0 DEF FeedInv, FeedAt, FeedTypes
    <3>3. g \in Feed /\ g.exited /\ g.frames = f.frames /\ g.start = f.start
            /\ g.inc = f.inc
      BY <3>2 DEF ExitSent, Feed
    <3>4. feed'[c] = [feed[c] EXCEPT ![id] = g]
      BY <2>3, <2>4
    <3> HIDE DEF g, f
    <3>5. feed[c] \in [Ids -> Feed \cup {Nil}]
      BY <1>0 DEF FeedTypes
    <3>6. /\ feed'[c][id] = g /\ feed'[c] \in [Ids -> Feed \cup {Nil}]
          /\ \A i \in Ids : i # id => feed'[c][i] = feed[c][i]
      BY <3>3, <3>4, <3>5
    <3>7. Gapless(g)
      BY <3>2, <3>3 DEF Gapless
    <3> QED
      BY <3>2, <3>3, <3>6, <3>7
  <2>5. FeedTypes'
    <3>1. \A c \in Conns : feed'[c] \in [Ids -> Feed \cup {Nil}]
      BY <2>3, <2>4, <1>0 DEF FeedTypes
    <3> QED
      BY <3>1, <1>15 DEF PtyExit, FeedTypes
  <2>6. ASSUME NEW c \in Conns, NEW i \in Ids PROVE FeedAt(c, i)'
    <3>1. FeedAt(c, i)
      BY DEF FeedInv
    <3>2. CASE i # id
      <4>1. feed'[c][i] = feed[c][i]
        BY <3>2, <2>3, <2>4
      <4>2. i \in conns'[c].subs <=> i \in conns[c].subs
        BY <3>2, <2>2 DEF Subscribers
      <4> QED
        BY <3>1, <3>2, <4>1, <2>1, <2>2 DEF FeedAt, Live
    <3>3. CASE i = id
      <4>1. id \notin conns'[c].subs
        BY <3>1, <3>3, <2>2 DEF FeedAt, Subscribers
      <4>2. CASE c \in Subscribers(id) /\ Accepts(conns[c], 1)
        BY <3>3, <4>1, <4>2, <2>1, <2>2, <2>4 DEF FeedAt, Subscribers
      <4>3. CASE ~(c \in Subscribers(id) /\ Accepts(conns[c], 1))
        <5>1. feed'[c] = feed[c]
          BY <4>3, <2>3
        <5>2. conns'[c].state = "open" => id \notin conns[c].subs
          BY <4>3, <2>2 DEF Subscribers
        <5> QED
          BY <3>1, <3>3, <4>1, <5>1, <5>2, <2>1, <2>2 DEF FeedAt
      <4> QED
        BY <4>2, <4>3
    <3> QED
      BY <3>2, <3>3
  <2> QED
    BY <2>5, <2>6 DEF FeedInv
<1>16. ASSUME Shutdown PROVE FeedInv'
  <2>1. FeedTypes'
    BY <1>16 DEF Shutdown, FeedTypes
  <2>2. ASSUME NEW c \in Conns, NEW i \in Ids PROVE FeedAt(c, i)'
    <3>1. feed'[c][i] = Nil /\ conns'[c] = NoConn
      BY <1>16 DEF Shutdown
    <3>2. NoConn.state = "absent" /\ NoConn.subs = {}
      BY DEF NoConn, NewConn
    <3> QED
      BY <3>1, <3>2 DEF FeedAt
  <2> QED
    BY <2>1, <2>2 DEF FeedInv
<1> QED
  BY <1>1, <1>2, <1>3, <1>4, <1>5, <1>6, <1>7, <1>8, <1>9, <1>10, <1>11,
     <1>12, <1>13, <1>14, <1>15, <1>16 DEF Next

LEMMA Inductive ==
  /\ Init => IInv
  /\ IInv /\ [Next]_vars => IInv'
BY StoreInit, FeedInit, StoreStep, FeedStep DEF IInv

\* TypeOK holds in every reachable state of the daemon.
THEOREM TypeCorrect == Spec => []TypeOK
<1>1. IInv => TypeOK
  BY DEF IInv, StoreInv, CoreTypes, FeedInv, FeedTypes, TypeOK
<1> QED
  BY Inductive, <1>1, PTL DEF Spec

\* The replay ring is the newest output the cap has room for, whatever the cap
\* and however the kernel cuts the output into chunks (SessionStore).
THEOREM RingCorrect == Spec => []RingKeepsTheNewest
<1>1. IInv => RingKeepsTheNewest
  BY DEF IInv, StoreInv, SessionsOK, RingOf, RingKeepsTheNewest
<1> QED
  BY Inductive, <1>1, PTL DEF Spec

\* Replay and live frames of a session sent on one connection join into one
\* stretch of the PTY's output, and an open subscriber has been sent all that the
\* current session has printed (handleSubscribe and wireSession together).
THEOREM FeedCorrect == Spec => []FeedIsComplete
<1>1. IInv => FeedIsGapless
  BY DEF IInv, FeedInv, FeedAt, Gapless, FeedIsGapless
<1>2. IInv => SubscriberIsCurrent
  BY DEF IInv, FeedInv, FeedAt, FeedTypes, StoreInv, CoreTypes, Connection,
         SubscriberIsCurrent
<1>3. IInv => FeedIsComplete
  BY <1>1, <1>2 DEF FeedIsComplete
<1> QED
  BY Inductive, <1>3, PTL DEF Spec

\* A subscription names a live session, on a connection that is going too.
THEOREM SubscriptionsLive == Spec => []SubscriptionsNameLiveSessions
<1>1. IInv => SubscriptionsNameLiveSessions
  BY DEF IInv, FeedInv, FeedAt, FeedTypes, StoreInv, CoreTypes, Connection,
         SubscriptionsNameLiveSessions
<1> QED
  BY Inductive, <1>1, PTL DEF Spec

\* No open connection that kept its subscription misses the exit of a session
\* (wireSession's onExit).
THEOREM ExitCorrect == Spec => []ExitReachesSubscribers
<1>1. IInv => ExitReachesSubscribers
  BY DEF IInv, FeedInv, FeedAt, ExitReachesSubscribers
<1> QED
  BY Inductive, <1>1, PTL DEF Spec

-----------------------------------------------------------------------------
\* A write leaves an open connection within the cap.
LEMMA SendIsBounded ==
  ASSUME NEW conn \in Connection, NEW size \in Nat,
         Send(conn, size).state = "open"
  PROVE  Send(conn, size).pending <= OutboundCap
<1>1. Accepts(conn, size)
  BY SendKeeps
<1> QED
  BY <1>1 DEF Send, Accepts, Connection

LEMMA BoundedStep ==
  CoreTypes /\ OutboundIsBounded /\ [Next]_vars => OutboundIsBounded'
<1> SUFFICES ASSUME CoreTypes, OutboundIsBounded, [Next]_vars,
                    NEW c \in Conns, conns'[c].state = "open"
             PROVE  conns'[c].pending <= OutboundCap
  BY DEF OutboundIsBounded
<1>0. /\ conns[c] \in Connection /\ conns[c].pending \in Nat
      /\ OutboundCap \in Nat
      /\ conns[c].state = "open" => conns[c].pending <= OutboundCap
  BY ConstantsAssumption DEF CoreTypes, Connection, OutboundIsBounded
<1>1. CASE conns'[c] = conns[c]
  BY <1>0, <1>1
<1>2. ASSUME NEW size \in Nat, conns'[c] = Send(conns[c], size)
      PROVE  conns'[c].pending <= OutboundCap
  BY <1>0, <1>2, SendIsBounded
<1>3. ASSUME NEW d \in Conns, Reply(d) PROVE conns'[c].pending <= OutboundCap
  BY <1>1, <1>2, <1>3 DEF Reply, CoreTypes
<1>4. CASE UNCHANGED vars
  BY <1>1, <1>4 DEF vars
<1>5. ASSUME NEW d \in Conns, Connect(d) \/ DropConn(d)
      PROVE  conns'[c].pending <= OutboundCap
  BY <1>0, <1>1, <1>5 DEF Connect, DropConn, NewConn, NoConn, CoreTypes
<1>6. ASSUME NEW d \in Conns, Drain(d) PROVE conns'[c].pending <= OutboundCap
  <2>1. PICK left \in 0 .. conns[d].pending - 1 :
          conns' = [conns EXCEPT ![d].pending = left]
    BY <1>6 DEF Drain
  <2>2. CASE d = c
    <3>1. conns'[c].pending = left /\ conns'[c].state = conns[c].state
      BY <2>1, <2>2, <1>0 DEF CoreTypes, Connection
    <3> QED
      BY <3>1, <2>2, <1>0
  <2>3. CASE d # c
    BY <2>1, <2>3, <1>1 DEF CoreTypes
  <2> QED
    BY <2>2, <2>3
<1>7. ASSUME NEW d \in Conns, NEW compatible \in BOOLEAN, Hello(d, compatible)
      PROVE  conns'[c].pending <= OutboundCap
  <2>1. CASE d = c /\ compatible
    <3>1. Send(conns[c], 1) \in Connection
      BY <1>0, SendKeeps
    <3>2. /\ conns'[c].pending = Send(conns[c], 1).pending
          /\ conns'[c].state = Send(conns[c], 1).state
      BY <3>1, <2>1, <1>7 DEF Hello, CoreTypes, Connection
    <3> QED
      BY <3>2, <1>0, SendIsBounded
  <2>2. CASE d = c /\ ~compatible
    BY <2>2, <1>0, <1>7 DEF Hello, Destroy, CoreTypes, Connection
  <2>3. CASE d # c
    BY <2>3, <1>1, <1>7 DEF Hello, CoreTypes
  <2> QED
    BY <2>1, <2>2, <2>3
<1>8. ASSUME NEW d \in Conns, ProtocolError(d)
      PROVE  conns'[c].pending <= OutboundCap
  <2>1. CASE d = c
    <3>1. Send(conns[c], 1) \in Connection
      BY <1>0, SendKeeps
    <3>2. Destroy(Send(conns[c], 1)).state = "destroyed"
      BY <3>1 DEF Destroy, Connection
    <3> QED
      BY <3>2, <2>1, <1>8 DEF ProtocolError, CoreTypes
  <2>2. CASE d # c
    BY <2>2, <1>1, <1>8 DEF ProtocolError, CoreTypes
  <2> QED
    BY <2>1, <2>2
<1>9. ASSUME NEW d \in Conns, NEW id \in Ids, NEW replay \in BOOLEAN,
             Subscribe(d, id, replay)
      PROVE  conns'[c].pending <= OutboundCap
  <2>1. CASE d # c
    BY <2>1, <1>1, <1>9 DEF Subscribe, Reply, CoreTypes
  <2>2. CASE d = c /\ ~Live(id)
    BY <2>2, <1>3, <1>9 DEF Subscribe
  <2>3. CASE d = c /\ Live(id)
    <3> DEFINE subscribed == [conns[c] EXCEPT !.subs = @ \cup {id}]
               size == store[id].bytes + 1
    <3>1. /\ subscribed \in Connection /\ subscribed.pending = conns[c].pending
          /\ subscribed.state = conns[c].state
      BY <1>0 DEF Connection
    <3>2. size \in Nat
      BY <2>3 DEF CoreTypes, Live, Session
    <3>3. conns' = [conns EXCEPT ![c] =
                      IF replay /\ store[id].bytes > 0
                      THEN Send(subscribed, size) ELSE subscribed]
      BY <2>3, <1>9 DEF Subscribe
    <3> HIDE DEF subscribed, size
    <3>4. CASE replay /\ store[id].bytes > 0
      BY <3>1, <3>2, <3>3, <3>4, SendIsBounded DEF CoreTypes
    <3>5. CASE ~(replay /\ store[id].bytes > 0)
      BY <3>1, <3>3, <3>5, <1>0 DEF CoreTypes
    <3> QED
      BY <3>4, <3>5
  <2> QED
    BY <2>1, <2>2, <2>3
<1>10. ASSUME NEW d \in Conns, NEW id \in Ids, Unsubscribe(d, id)
       PROVE  conns'[c].pending <= OutboundCap
  BY <1>0, <1>1, <1>10 DEF Unsubscribe, CoreTypes, Connection
<1>11. ASSUME NEW id \in Ids, NEW n \in ChunkSizes, PtyData(id, n)
       PROVE  conns'[c].pending <= OutboundCap
  <2>1. n + 1 \in Nat
    BY ConstantsAssumption
  <2> QED
    BY <2>1, <1>1, <1>2, <1>11 DEF PtyData
<1>12. ASSUME NEW id \in Ids, PtyExit(id) PROVE conns'[c].pending <= OutboundCap
  <2>1. CASE c \in Subscribers(id)
    <3>1. Send(conns[c], 1) \in Connection
      BY <1>0, SendKeeps
    <3>2. /\ conns'[c].pending = Send(conns[c], 1).pending
          /\ conns'[c].state = Send(conns[c], 1).state
      BY <3>1, <2>1, <1>12 DEF PtyExit, AfterExit, Connection
    <3> QED
      BY <3>2, <1>0, SendIsBounded
  <2>2. CASE c \notin Subscribers(id)
    BY <2>2, <1>1, <1>12 DEF PtyExit
  <2> QED
    BY <2>1, <2>2
<1>13. ASSUME Shutdown PROVE conns'[c].pending <= OutboundCap
  BY <1>0, <1>13 DEF Shutdown, NoConn, NewConn
<1> QED
  BY <1>1, <1>3, <1>4, <1>5, <1>6, <1>7, <1>8, <1>9, <1>10, <1>11, <1>12, <1>13
     DEF Next, AnswerOnly, Open, InputOrResize, Close, ShellDies, KillEscalation

\* However slowly a client reads, the daemon holds no more than the cap for it.
THEOREM OutboundCorrect == Spec => []OutboundIsBounded
<1>1. Init => OutboundIsBounded
  BY DEF Init, OutboundIsBounded, NoConn, NewConn
<1>2. IInv /\ OutboundIsBounded /\ [Next]_vars => OutboundIsBounded'
  BY BoundedStep DEF IInv, StoreInv
<1> QED
  BY Inductive, <1>1, <1>2, PTL DEF Spec

\* Nothing is sent of a session after its exit frame.
THEOREM ExitIsLast == Spec => NothingFollowsExit
<1> DEFINE Follows(c, id) ==
      feed[c][id] # Nil /\ feed[c][id].exited =>
        \/ feed'[c][id] = feed[c][id]
        \/ feed'[c][id] = Nil
        \/ feed'[c][id].inc > feed[c][id].inc
<1>1. ASSUME IInv, [Next]_vars, NEW c \in Conns, NEW id \in Ids
      PROVE  Follows(c, id)
  <2>0. /\ FeedAt(c, id) /\ FeedTypes /\ CoreTypes
        /\ \A e \in Ids : FeedAt(c, e)
    BY <1>1 DEF IInv, FeedInv, StoreInv
  <2>1. CASE feed'[c][id] = feed[c][id]
    BY <2>1
  <2>2. ASSUME NEW d \in Conns, NEW e \in Ids, NEW replay \in BOOLEAN,
               Subscribe(d, e, replay), d = c, e = id, Live(id)
        PROVE  Follows(c, id)
    <3>1. feed'[c][id] = NewFeed(store[id], replay)
      BY <2>0, <2>2 DEF Subscribe, FeedTypes
    <3>2. feed'[c][id].inc = store[id].inc
      BY <3>1 DEF NewFeed
    <3>3. store[id].inc \in Nat /\ (feed[c][id] # Nil => feed[c][id].inc \in Nat)
      BY <2>0, <2>2 DEF CoreTypes, FeedTypes, Session, Feed, Live
    <3> QED
      BY <3>2, <3>3, <2>0, <2>2 DEF FeedAt
  <2>3. ASSUME NEW d \in Conns, NEW e \in Ids, NEW replay \in BOOLEAN,
               Subscribe(d, e, replay)
        PROVE  Follows(c, id)
    <3>1. CASE d = c /\ e = id /\ Live(id)
      BY <3>1, <2>2, <2>3
    <3>2. CASE ~(d = c /\ e = id /\ Live(id))
      BY <3>2, <2>0, <2>3 DEF Subscribe, FeedTypes
    <3> QED
      BY <3>1, <3>2
  <2>4. ASSUME NEW d \in Conns, Connect(d) \/ DropConn(d)
        PROVE  Follows(c, id)
    BY <2>0, <2>4 DEF Connect, DropConn, FeedTypes
  <2>5. ASSUME NEW d \in Conns, NEW e \in Ids, Unsubscribe(d, e)
        PROVE  Follows(c, id)
    BY <2>0, <2>5 DEF Unsubscribe, FeedTypes
  <2>6. ASSUME NEW e \in Ids, NEW n \in ChunkSizes, PtyData(e, n)
        PROVE  Follows(c, id)
    <3>1. CASE c \in Subscribers(e) /\ Accepts(conns[c], n + 1) /\ e = id
      <4>1. ~feed[c][id].exited
        BY <3>1, <2>0 DEF FeedAt, Subscribers, Accepts
      <4> QED
        BY <4>1
    <3>2. CASE ~(c \in Subscribers(e) /\ Accepts(conns[c], n + 1) /\ e = id)
      BY <3>2, <2>0, <2>6 DEF PtyData, FeedTypes
    <3> QED
      BY <3>1, <3>2
  <2>7. ASSUME NEW e \in Ids, PtyExit(e) PROVE Follows(c, id)
    <3>1. CASE c \in Subscribers(e) /\ Accepts(conns[c], 1) /\ e = id
      <4>1. ~feed[c][id].exited
        BY <3>1, <2>0 DEF FeedAt, Subscribers, Accepts
      <4> QED
        BY <4>1
    <3>2. CASE ~(c \in Subscribers(e) /\ Accepts(conns[c], 1) /\ e = id)
      BY <3>2, <2>0, <2>7 DEF PtyExit, FeedTypes
    <3> QED
      BY <3>1, <3>2
  <2>8. CASE Shutdown
    BY <2>8 DEF Shutdown
  <2> QED
    BY <1>1, <2>1, <2>3, <2>4, <2>5, <2>6, <2>7, <2>8
       DEF Next, vars, Drain, Hello, ProtocolError, AnswerOnly, Open,
           InputOrResize, Close, ShellDies, KillEscalation
<1>2. IInv /\ [Next]_vars =>
        [\A c \in Conns, id \in Ids :
           feed[c][id] # Nil /\ feed[c][id].exited =>
             \/ feed'[c][id] = feed[c][id]
             \/ feed'[c][id] = Nil
             \/ feed'[c][id].inc > feed[c][id].inc]_vars
  BY <1>1
<1> QED
  BY Inductive, <1>2, PTL DEF Spec, NothingFollowsExit

-----------------------------------------------------------------------------
\* TerminalSessions: types, and what holds between the processes.

Answers ==
  [is : {"list", "opened", "exists", "closed", "unknown", "exit", "connected", "failure"},
   shell : Nat]
HostClients ==
  [state : {"connecting", "up", "cut", "down"}, callbacks : SUBSET Nat,
   subscribed : BOOLEAN, toDaemon : Seq(Messages), toHost : Seq(Answers)]
HostSessions ==
  [client : Nat, shell : Nat, unsubscribe : BOOLEAN, exited : BOOLEAN,
   sockets : SUBSET Slots]
Tasks ==
  [kind : {"none", "attach", "create", "dispose", "reap"},
   phase : {"idle", "path", "connecting", "list", "open", "close", "foreign", "orphan"},
   client : Nat, adoptOnly : BOOLEAN, replay : BOOLEAN, answer : Answers \cup {NoAnswer}]

Typed ==
  /\ shells \in Nat /\ shell \in 0..shells /\ requests \in Nat
  /\ row \in {"none", "active", "exited", "disposed"}
  /\ clients \in Seq(HostClients)
  /\ cached \in 0..Len(clients) /\ connecting \in 0..Len(clients)
  /\ objs \in Seq(HostSessions) /\ current \in 0..Len(objs)
  /\ tasks \in [AllSlots -> Tasks]
  /\ open \subseteq Slots /\ rowless \in BOOLEAN

\* An answer names no shell that has not been opened yet.
Credible(a, n) == a.shell <= n /\ (a.is = "opened" => a.shell >= 1)

\* Nothing comes from a client whose connection is not there.
Plumbed(c, n) ==
  /\ c.subscribed => c.state = "up"
  /\ c.state \notin {"up", "cut"} => Len(c.toHost) = 0
  /\ \A i \in 1..Len(c.toHost) : Credible(c.toHost[i], n)

Plumbing(cs, n) == \A i \in 1..Len(cs) : Plumbed(cs[i], n)

\* The daemon sends output to whom it has subscribed, or will when it has served
\* what is queued.
Feeds(subscribed, q) ==
  \/ subscribed /\ \A j \in 1..Len(q) : q[j] # "unsubscribe"
  \/ \E i \in 1..Len(q) : /\ q[i] = "subscribe"
                          /\ \A j \in (i + 1)..Len(q) : q[j] # "unsubscribe"

\* The clients, when s is the session `cur` (0: none), sh the shell and n how many
\* there were: only its client calls the session back, and feeds it.
Served(cs, sh, n, cur, s) ==
  /\ \A i \in 1..Len(cs) :
       /\ Plumbed(cs[i], n)
       /\ cs[i].callbacks = IF cur # 0 /\ s.client = i THEN {cur} ELSE {}
  /\ cur # 0 =>
       /\ s.client \in 1..Len(cs) /\ s.unsubscribe /\ s.shell \in 1..n
       /\ cs[s.client].state \in {"up", "cut"}
       /\ cs[s.client].state = "up" /\ sh = s.shell
            => Feeds(cs[s.client].subscribed, cs[s.client].toDaemon)

\* Nobody asked for a shell yet.
Unopened(cs) == \A c \in 1..Len(cs) : \A i \in 1..Len(cs[c].toDaemon) : cs[c].toDaemon[i] # "open"

\* A request is at a phase of its kind.
KindOf(t, k) ==
  /\ t.kind = "none" <=> t.phase = "idle"
  /\ t.answer # NoAnswer => t.kind # "none"
  /\ k = Reaper => /\ t.kind \in {"none", "reap"} /\ t.phase # "open"
                   /\ t.kind = "reap" => t.adoptOnly
  /\ k # Reaper => t.kind # "reap" /\ t.phase # "orphan"
  /\ t.kind \in {"attach", "create"} => t.phase \in {"path", "connecting", "list", "open"}
  /\ t.kind = "dispose" => t.phase \in {"foreign", "close"}

\* Who awaits a client awaits one there is, and what it answered it did while it was
\* connected.
Addressed(t, cs, n) ==
  /\ t.phase \in {"connecting", "list", "open"} => t.client \in 1..Len(cs)
  /\ t.answer # NoAnswer =>
       /\ Credible(t.answer, n)
       /\ t.answer.is \in {"connected", "list", "opened", "exists"} =>
            t.client \in 1..Len(cs) /\ cs[t.client].state \in {"up", "cut"}

Tasked(ts, cs, n) == \A k \in AllSlots : KindOf(ts[k], k) /\ Addressed(ts[k], cs, n)

\* Without overlaps there is one request at a time, and while it is there no session.
OneRequest ==
  /\ \A j, k \in Slots : InFlight(j) /\ InFlight(k) => j = k
  /\ \A k \in Slots : InFlight(k) => current = 0

\* What an attach found, it finds still when it goes on; the only creation is the first
\* request.
Rowed ==
  \A k \in Slots : /\ tasks[k].kind = "attach" => row = "active"
                   /\ tasks[k].kind = "create" => row = "none"

\* Nobody starts to use a terminal that is being reaped.
Reaping ==
  /\ tasks[Reaper].phase \in {"orphan", "foreign", "close"} =>
       row # "active" /\ \A k \in Slots : tasks[k].kind # "create"
  /\ tasks[Reaper].phase \in {"foreign", "close"} => current = 0

\* A shell without a row is not taken from the request that is about to write it.
Patient ==
  rowless => \A k \in Slots : tasks[k].kind = "create" => k \in aged /\ ~InFlight(Reaper)

\* Before the first request.
Virgin ==
  requests = 0 =>
    /\ \A k \in Slots : ~InFlight(k)
    /\ row = "none" /\ current = 0 /\ ~rowless
    /\ tasks[Reaper].phase \notin {"orphan", "foreign", "close"}

RowOfSession == current # 0 => row = IF objs[current].exited THEN "exited" ELSE "active"

Viewing ==
  \A k \in open : \/ tasks[k].kind = "attach"
                  \/ current # 0 /\ k \in objs[current].sockets

Control == OneRequest /\ Rowed /\ Reaping /\ Patient /\ Virgin /\ RowOfSession /\ Viewing

TerminalInv ==
  /\ Typed
  /\ Served(clients, shell, shells, current, objs[current])
  /\ Tasked(tasks, clients, shells)
  /\ requests = 0 => shells = 0 /\ Unopened(clients)
  /\ Control

-----------------------------------------------------------------------------
\* Queues and clients.

LEMMA FeedsLonger ==
  ASSUME NEW q \in Seq(Messages), NEW sub, NEW m \in Messages
  PROVE  /\ Feeds(sub, q) /\ m # "unsubscribe" => Feeds(sub, Append(q, m))
         /\ Feeds(sub, Append(q, "subscribe"))
<1>1. PICK n : n = Len(q)
  OBVIOUS
<1>2. ASSUME NEW x \in Messages, NEW r, r = Append(q, x)
      PROVE  /\ n \in Nat /\ Len(r) = n + 1 /\ r[n + 1] = x
             /\ \A i \in 1..n : r[i] = q[i]
  BY <1>1, <1>2
<1>3. PICK r : r = Append(q, m)
  OBVIOUS
<1>4. ASSUME Feeds(sub, q), m # "unsubscribe" PROVE Feeds(sub, r)
  <2>1. n \in Nat /\ Len(r) = n + 1 /\ r[n + 1] = m /\ \A i \in 1..n : r[i] = q[i]
    BY <1>2, <1>3
  <2>2. CASE sub /\ \A j \in 1..n : q[j] # "unsubscribe"
    BY <1>4, <2>1, <2>2 DEF Feeds
  <2>3. ASSUME NEW i \in 1..n, q[i] = "subscribe", \A j \in (i + 1)..n : q[j] # "unsubscribe"
        PROVE  Feeds(sub, r)
    <3>1. i \in 1..Len(r) /\ r[i] = "subscribe"
      BY <2>1, <2>3
    <3>2. \A j \in (i + 1)..Len(r) : r[j] # "unsubscribe"
      BY <1>4, <2>1, <2>3
    <3> QED
      BY <3>1, <3>2 DEF Feeds
  <2> QED
    BY <1>1, <1>4, <2>2, <2>3 DEF Feeds
<1>5. PICK t : t = Append(q, "subscribe")
  OBVIOUS
<1>6. Feeds(sub, t)
  <2>1. n \in Nat /\ Len(t) = n + 1 /\ t[n + 1] = "subscribe"
    BY <1>2, <1>5 DEF Messages
  <2>2. \A j \in (n + 2)..Len(t) : t[j] # "unsubscribe"
    BY <2>1
  <2> QED
    BY <2>1, <2>2 DEF Feeds
<1> QED
  BY <1>3, <1>4, <1>5, <1>6

LEMMA FeedsShorter ==
  ASSUME NEW q \in Seq(Messages), q # <<>>, NEW sub, Feeds(sub, q), NEW now,
         Head(q) = "subscribe" => now, Head(q) \notin {"subscribe", "unsubscribe"} /\ sub => now
  PROVE  Feeds(now, Tail(q))
<1>1. PICK n, r : n = Len(q) /\ r = Tail(q)
  OBVIOUS
<1>2. n \in Nat /\ n >= 1 /\ Len(r) = n - 1 /\ Head(q) = q[1] /\ \A i \in 1..(n - 1) : r[i] = q[i + 1]
  BY <1>1
<1>3. CASE sub /\ \A j \in 1..n : q[j] # "unsubscribe"
  <2>1. now
    BY <1>2, <1>3
  <2>2. \A j \in 1..Len(r) : r[j] # "unsubscribe"
    BY <1>2, <1>3
  <2> QED
    BY <1>1, <2>1, <2>2 DEF Feeds
<1>4. ASSUME NEW i \in 1..n, q[i] = "subscribe", \A j \in (i + 1)..n : q[j] # "unsubscribe"
      PROVE  Feeds(now, r)
  <2>1. CASE i = 1
    <3>1. now /\ \A j \in 1..Len(r) : r[j] # "unsubscribe"
      BY <1>2, <1>4, <2>1
    <3> QED
      BY <3>1 DEF Feeds
  <2>2. CASE i # 1
    <3>1. PICK h : h = i - 1
      OBVIOUS
    <3>2. h \in 1..Len(r) /\ r[h] = "subscribe"
      BY <1>2, <1>4, <2>2, <3>1
    <3>3. \A j \in (h + 1)..Len(r) : r[j] # "unsubscribe"
      BY <1>2, <1>4, <2>2, <3>1
    <3> QED
      BY <3>2, <3>3 DEF Feeds
  <2> QED
    BY <2>1, <2>2
<1> QED
  BY <1>1, <1>3, <1>4 DEF Feeds

\* What the provers need of a client.
LEMMA ClientHas ==
  ASSUME NEW c \in HostClients
  PROVE  /\ c.state \in {"connecting", "up", "cut", "down"} /\ c.callbacks \in SUBSET Nat
         /\ c.subscribed \in BOOLEAN
         /\ c.toDaemon \in Seq(Messages) /\ Len(c.toDaemon) \in Nat
         /\ c.toHost \in Seq(Answers) /\ Len(c.toHost) \in Nat
BY DEF HostClients

\* Client d is c a step later, when the shell is no longer sh but sg.
Keeps(c, d, sh, sg) ==
  /\ d.callbacks = c.callbacks
  /\ c.state = "up" => d.state \in {"up", "cut"}
  /\ c.state = "cut" => d.state = "cut"
  /\ sg = sh /\ sg # 0 /\ d.state = "up" /\ Feeds(c.subscribed, c.toDaemon)
       => Feeds(d.subscribed, d.toDaemon)

\* The clients cs become ds: none goes, and m shells were opened by then.
Carries(cs, ds, sh, sg, m) ==
  /\ ds \in Seq(HostClients) /\ Len(cs) <= Len(ds)
  /\ Plumbing(ds, m)
  /\ \A i \in 1..Len(cs) : Keeps(cs[i], ds[i], sh, sg)
  /\ \A i \in 1..Len(ds) : i > Len(cs) => ds[i].callbacks = {}

LEMMA ServedCarries ==
  ASSUME NEW cs \in Seq(HostClients), NEW ds, NEW sh, NEW sg, NEW n \in Nat, NEW m \in Nat,
         n <= m, sg = sh \/ sg \notin 1..n, NEW cur, NEW s, Served(cs, sh, n, cur, s),
         Carries(cs, ds, sh, sg, m)
  PROVE  Served(ds, sg, m, cur, s)
<1>1. ds \in Seq(HostClients) /\ Len(cs) \in Nat /\ Len(ds) \in Nat /\ Len(cs) <= Len(ds)
  BY DEF Carries
<1>2. ASSUME NEW i \in 1..Len(ds)
      PROVE  Plumbed(ds[i], m) /\ ds[i].callbacks = IF cur # 0 /\ s.client = i THEN {cur} ELSE {}
  <2>1. Plumbed(ds[i], m)
    BY <1>1 DEF Carries, Plumbing
  <2>2. CASE i \in 1..Len(cs)
    BY <2>1, <2>2 DEF Carries, Keeps, Served
  <2>3. CASE i \notin 1..Len(cs)
    <3>1. i > Len(cs) /\ ds[i].callbacks = {}
      BY <1>1, <2>3 DEF Carries
    <3>2. ~(cur # 0 /\ s.client = i)
      BY <2>3 DEF Served
    <3> QED
      BY <2>1, <3>1, <3>2
  <2> QED
    BY <2>2, <2>3
<1>3. ASSUME cur # 0
      PROVE  /\ s.client \in 1..Len(ds) /\ s.unsubscribe /\ s.shell \in 1..m
             /\ ds[s.client].state \in {"up", "cut"}
             /\ ds[s.client].state = "up" /\ sg = s.shell
                  => Feeds(ds[s.client].subscribed, ds[s.client].toDaemon)
  <2>1. PICK x : x = s.client
    OBVIOUS
  <2>2. /\ x \in 1..Len(cs) /\ s.unsubscribe /\ s.shell \in 1..n
        /\ cs[x].state \in {"up", "cut"}
        /\ cs[x].state = "up" /\ sh = s.shell => Feeds(cs[x].subscribed, cs[x].toDaemon)
    BY <1>3, <2>1 DEF Served
  <2>3. Keeps(cs[x], ds[x], sh, sg)
    BY <2>2 DEF Carries
  <2>4. x \in 1..Len(ds) /\ s.shell \in 1..m
    BY <1>1, <2>2
  <2>5. ds[x].state \in {"up", "cut"}
    BY <2>2, <2>3 DEF Keeps
  <2>6. ASSUME ds[x].state = "up", sg = s.shell PROVE Feeds(ds[x].subscribed, ds[x].toDaemon)
    <3>1. sg = sh /\ sg # 0 /\ cs[x].state = "up"
      BY <2>2, <2>3, <2>6 DEF Keeps
    <3> QED
      BY <2>2, <2>3, <2>6, <3>1 DEF Keeps
  <2> QED
    BY <2>1, <2>2, <2>4, <2>5, <2>6
<1> QED
  BY <1>2, <1>3 DEF Served

\* The session's fields that the clients care about.
LEMMA ServedSession ==
  ASSUME NEW cs, NEW sh, NEW n, NEW cur, NEW s, NEW r, Served(cs, sh, n, cur, s),
         cur # 0 => r.client = s.client /\ r.shell = s.shell /\ r.unsubscribe = s.unsubscribe
  PROVE  Served(cs, sh, n, cur, r)
<1>1. CASE cur = 0
  <2>1. \A i \in 1..Len(cs) : Plumbed(cs[i], n) /\ cs[i].callbacks = {}
    BY <1>1 DEF Served
  <2> QED
    BY <1>1, <2>1 DEF Served
<1>2. CASE cur # 0
  <2>1. r.client = s.client /\ r.shell = s.shell /\ r.unsubscribe = s.unsubscribe
    BY <1>2
  <2> QED
    BY <1>2, <2>1 DEF Served
<1> QED
  BY <1>1, <1>2

LEMMA KeepsItself ==
  ASSUME NEW cs \in Seq(HostClients), NEW n, Plumbing(cs, n), NEW sh, NEW sg
  PROVE  Carries(cs, cs, sh, sg, n)
<1>1. Len(cs) \in Nat
  OBVIOUS
<1> QED
  BY <1>1 DEF Carries, Keeps

LEMMA PlumbedMore ==
  ASSUME NEW c \in HostClients, NEW n \in Nat, NEW m \in Nat, n <= m, Plumbed(c, n)
  PROVE  Plumbed(c, m)
<1>1. PICK q : q = c.toHost
  OBVIOUS
<1>2. q \in Seq(Answers) /\ Len(q) \in Nat
  BY <1>1, ClientHas
<1>3. ASSUME NEW i \in 1..Len(q) PROVE Credible(q[i], m)
  <2>1. PICK a : a = q[i]
    OBVIOUS
  <2>2. a \in Answers
    BY <1>2, <2>1
  <2>3. a.shell \in Nat
    BY <2>2 DEF Answers
  <2> QED
    BY <1>1, <2>1, <2>3 DEF Plumbed, Credible
<1> QED
  BY <1>1, <1>3 DEF Plumbed

\* One client changes.
Replaced(cs, c, d) == [cs EXCEPT ![c] = d]

LEMMA OneCarries ==
  ASSUME NEW cs \in Seq(HostClients), NEW c \in 1..Len(cs), NEW d \in HostClients, NEW sh, NEW sg,
         NEW m, Plumbing(cs, m), Plumbed(d, m),
         Keeps(cs[c], d, sh, sg)
  PROVE  Carries(cs, Replaced(cs, c, d), sh, sg, m) /\ Len(Replaced(cs, c, d)) = Len(cs)
<1>0. PICK ds : ds = [cs EXCEPT ![c] = d]
  OBVIOUS
<1>1. /\ ds \in Seq(HostClients) /\ Len(ds) = Len(cs) /\ Len(cs) \in Nat /\ ds[c] = d
      /\ \A i \in 1..Len(cs) : i # c => ds[i] = cs[i]
  BY <1>0
<1>2. ASSUME NEW i \in 1..Len(cs) PROVE Plumbed(ds[i], m) /\ Keeps(cs[i], ds[i], sh, sg)
  <2>1. CASE i = c
    BY <1>1, <2>1
  <2>2. CASE i # c
    <3>1. ds[i] = cs[i]
      BY <1>1, <2>2
    <3> QED
      BY <3>1 DEF Keeps, Plumbing
  <2> QED
    BY <2>1, <2>2
<1> QED
  BY <1>0, <1>1, <1>2 DEF Carries, Plumbing, Replaced

\* What is sent waits in the client's queue.
LEMMA SentGives ==
  ASSUME NEW cs \in Seq(HostClients), NEW c \in 1..Len(cs), NEW x \in Messages
  PROVE  \E d \in HostClients :
           /\ Sent(cs, c, x) = Replaced(cs, c, d)
           /\ d.state = cs[c].state /\ d.callbacks = cs[c].callbacks
           /\ d.subscribed = cs[c].subscribed /\ d.toHost = cs[c].toHost
           /\ d.toDaemon = IF cs[c].state \in {"up", "cut"} THEN Append(cs[c].toDaemon, x)
                           ELSE cs[c].toDaemon
<1>1. PICK e : e = cs[c]
  OBVIOUS
<1>2. e \in HostClients /\ e.toDaemon \in Seq(Messages)
  BY <1>1, ClientHas
<1>3. CASE e.state \in {"up", "cut"}
  <2>1. PICK q : q = Append(e.toDaemon, x)
    OBVIOUS
  <2>2. q \in Seq(Messages)
    BY <1>2, <2>1
  <2>3. PICK d : d = [e EXCEPT !.toDaemon = q]
    OBVIOUS
  <2>4. /\ d \in HostClients /\ d.state = e.state /\ d.callbacks = e.callbacks
        /\ d.subscribed = e.subscribed /\ d.toHost = e.toHost /\ d.toDaemon = q
    BY <1>2, <2>2, <2>3 DEF HostClients
  <2>5. Sent(cs, c, x) = Replaced(cs, c, d)
    BY <1>1, <1>3, <2>1, <2>3 DEF Sent, Replaced
  <2> QED
    BY <1>1, <1>3, <2>1, <2>4, <2>5
<1>4. CASE e.state \notin {"up", "cut"}
  <2>1. Sent(cs, c, x) = cs
    BY <1>1, <1>4 DEF Sent
  <2>2. cs = [cs EXCEPT ![c] = e]
    BY <1>1
  <2> QED
    BY <1>1, <1>2, <1>4, <2>1, <2>2 DEF Replaced
<1> QED
  BY <1>3, <1>4

LEMMA SentCarries ==
  ASSUME NEW cs \in Seq(HostClients), NEW c \in 1..Len(cs),
         NEW x \in Messages, x # "unsubscribe", NEW sh, NEW sg, NEW n \in Nat,
         Plumbing(cs, n), NEW ds, ds = Sent(cs, c, x)
  PROVE  /\ Carries(cs, ds, sh, sg, n) /\ Len(ds) = Len(cs)
         /\ \A i \in 1..Len(cs) : ds[i].state = cs[i].state
         /\ Unopened(cs) /\ x # "open" => Unopened(ds)
<1>1. PICK d \in HostClients :
           /\ ds = Replaced(cs, c, d)
           /\ d.state = cs[c].state /\ d.callbacks = cs[c].callbacks
           /\ d.subscribed = cs[c].subscribed /\ d.toHost = cs[c].toHost
           /\ d.toDaemon = IF cs[c].state \in {"up", "cut"} THEN Append(cs[c].toDaemon, x)
                           ELSE cs[c].toDaemon
  BY SentGives
<1>2. PICK e : e = cs[c]
  OBVIOUS
<1>3. e \in HostClients /\ e.toDaemon \in Seq(Messages) /\ Len(e.toDaemon) \in Nat
  BY <1>2, ClientHas
<1>4. Plumbed(d, n)
  BY <1>1 DEF Plumbed, Plumbing
<1>5. Feeds(e.subscribed, e.toDaemon) => Feeds(d.subscribed, d.toDaemon)
  <2>1. CASE e.state \in {"up", "cut"}
    BY <1>1, <1>2, <1>3, <2>1, FeedsLonger
  <2>2. CASE e.state \notin {"up", "cut"}
    BY <1>1, <1>2, <2>2
  <2> QED
    BY <2>1, <2>2
<1>6. Keeps(e, d, sh, sg)
  BY <1>1, <1>2, <1>5 DEF Keeps
<1>7. Carries(cs, ds, sh, sg, n) /\ Len(ds) = Len(cs)
  <2>1. Keeps(cs[c], d, sh, sg) /\ ds = Replaced(cs, c, d)
    BY <1>1, <1>2, <1>6
  <2> QED
    BY <1>4, <2>1, OneCarries
<1>8. /\ ds[c] = d /\ Len(cs) \in Nat
      /\ \A i \in 1..Len(cs) : i # c => ds[i] = cs[i]
  BY <1>1 DEF Replaced
<1>9. ASSUME Unopened(cs), x # "open", NEW i \in 1..Len(ds), NEW j \in 1..Len(ds[i].toDaemon)
      PROVE  ds[i].toDaemon[j] # "open"
  <2>1. CASE i # c
    BY <1>7, <1>8, <1>9, <2>1 DEF Unopened
  <2>2. CASE i = c
    <3>1. PICK q : q = e.toDaemon
      OBVIOUS
    <3>2. \A h \in 1..Len(q) : q[h] # "open"
      BY <1>2, <1>9, <3>1 DEF Unopened
    <3>3. ds[i].toDaemon = Append(q, x) \/ ds[i].toDaemon = q
      BY <1>1, <1>2, <1>8, <2>2, <3>1
    <3>4. CASE ds[i].toDaemon = q
      BY <1>9, <3>2, <3>4
    <3>5. CASE ds[i].toDaemon = Append(q, x)
      <4>1. PICK r : r = Append(q, x)
        OBVIOUS
      <4>2. PICK l : l = Len(q)
        OBVIOUS
      <4>3. l \in Nat /\ Len(r) = l + 1 /\ r[l + 1] = x /\ \A h \in 1..l : r[h] = q[h]
        BY <1>3, <3>1, <4>1, <4>2
      <4>4. \A h \in 1..Len(r) : r[h] # "open"
        BY <1>9, <3>2, <4>2, <4>3
      <4> QED
        BY <1>9, <3>5, <4>1, <4>4
    <3> QED
      BY <3>3, <3>4, <3>5
  <2> QED
    BY <2>1, <2>2
<1>10. Unopened(cs) /\ x # "open" => Unopened(ds)
  BY <1>9 DEF Unopened
<1>11. \A i \in 1..Len(cs) : ds[i].state = cs[i].state
  BY <1>1, <1>8
<1> QED
  BY <1>7, <1>10, <1>11

LEMMA MoreCarries ==
  ASSUME NEW cs \in Seq(HostClients), NEW sh, NEW sg, NEW n \in Nat,
         Plumbing(cs, n), NEW ds, ds = Append(cs, NewClient)
  PROVE  /\ Carries(cs, ds, sh, sg, n) /\ Len(ds) = Len(cs) + 1
         /\ Unopened(cs) => Unopened(ds)
<1>1. PICK d : d = NewClient
  OBVIOUS
<1>2. PICK no : no = FALSE
  OBVIOUS
<1>3. d = [state |-> "connecting", callbacks |-> {}, subscribed |-> no,
           toDaemon |-> <<>>, toHost |-> <<>>]
  BY <1>1, <1>2, Zenon DEF NewClient
<1>4. /\ d.state = "connecting" /\ d.callbacks = {} /\ d.subscribed = no
      /\ d.toDaemon = <<>> /\ d.toHost = <<>>
  BY <1>3
<1>5. no \in BOOLEAN
  BY <1>2
<1>6. d \in HostClients
  <2>1. <<>> \in Seq(Messages) /\ <<>> \in Seq(Answers)
    OBVIOUS
  <2> QED
    BY <1>3, <1>5, <2>1 DEF HostClients
<1>7. Plumbed(d, n)
  BY <1>2, <1>4 DEF Plumbed
<1>8. /\ ds \in Seq(HostClients) /\ Len(ds) = Len(cs) + 1 /\ Len(cs) \in Nat
      /\ ds[Len(cs) + 1] = d /\ \A i \in 1..Len(cs) : ds[i] = cs[i]
  BY <1>1, <1>6
<1>9. \A i \in 1..Len(ds) : i \in 1..Len(cs) \/ i = Len(cs) + 1
  BY <1>8
<1>10. Carries(cs, ds, sh, sg, n)
  <2>1. ASSUME NEW i \in 1..Len(ds) PROVE Plumbed(ds[i], n)
    BY <1>7, <1>8, <1>9 DEF Plumbing
  <2>2. ASSUME NEW i \in 1..Len(cs) PROVE Keeps(cs[i], ds[i], sh, sg)
    BY <1>8 DEF Keeps
  <2>3. ASSUME NEW i \in 1..Len(ds), i > Len(cs) PROVE ds[i].callbacks = {}
    BY <1>4, <1>8, <1>9, <2>3
  <2> QED
    BY <1>8, <2>1, <2>2, <2>3 DEF Carries, Plumbing
<1>11. ASSUME Unopened(cs), NEW i \in 1..Len(ds), NEW j \in 1..Len(ds[i].toDaemon)
       PROVE  ds[i].toDaemon[j] # "open"
  <2>1. CASE i \in 1..Len(cs)
    BY <1>8, <1>11, <2>1 DEF Unopened
  <2>2. CASE i = Len(cs) + 1
    BY <1>4, <1>8, <1>11, <2>2
  <2> QED
    BY <1>9, <2>1, <2>2
<1> QED
  BY <1>8, <1>10, <1>11 DEF Unopened

\* The callbacks of a client are set, and it is told something.
Called(cs, c, b, x) == Sent([cs EXCEPT ![c].callbacks = b], c, x)

LEMMA CalledGives ==
  ASSUME NEW cs \in Seq(HostClients), NEW c \in 1..Len(cs), NEW b \in SUBSET Nat,
         NEW x \in Messages, NEW n, Plumbing(cs, n)
  PROVE  \E d \in HostClients :
           /\ Called(cs, c, b, x) = Replaced(cs, c, d)
           /\ d.state = cs[c].state /\ d.callbacks = b /\ d.subscribed = cs[c].subscribed
           /\ Plumbed(d, n)
           /\ d.state \in {"up", "cut"} => d.toDaemon = Append(cs[c].toDaemon, x)
<1>1. PICK e : e = cs[c]
  OBVIOUS
<1>2. e \in HostClients /\ Plumbed(e, n)
  BY <1>1 DEF Plumbing
<1>3. PICK f : f = [e EXCEPT !.callbacks = b]
  OBVIOUS
<1>4. /\ f \in HostClients /\ f.callbacks = b
      /\ f.state = e.state /\ f.subscribed = e.subscribed
      /\ f.toDaemon = e.toDaemon /\ f.toHost = e.toHost
  BY <1>2, <1>3 DEF HostClients
<1>5. PICK ms : ms = [cs EXCEPT ![c].callbacks = b]
  OBVIOUS
<1>6. ms = [cs EXCEPT ![c] = f]
  BY <1>1, <1>3, <1>5
<1>7. ms \in Seq(HostClients) /\ Len(ms) = Len(cs) /\ ms[c] = f
  BY <1>4, <1>6
<1>8. PICK d \in HostClients :
           /\ Sent(ms, c, x) = Replaced(ms, c, d)
           /\ d.state = ms[c].state /\ d.callbacks = ms[c].callbacks
           /\ d.subscribed = ms[c].subscribed /\ d.toHost = ms[c].toHost
           /\ d.toDaemon = IF ms[c].state \in {"up", "cut"} THEN Append(ms[c].toDaemon, x)
                           ELSE ms[c].toDaemon
  BY <1>7, SentGives
<1>9. Called(cs, c, b, x) = Replaced(cs, c, d)
  <2>1. [ms EXCEPT ![c] = d] = [cs EXCEPT ![c] = d]
    BY <1>6, <1>7
  <2> QED
    BY <1>5, <1>8, <2>1 DEF Called, Replaced
<1>10. Plumbed(d, n)
  <2>1. d.state = e.state /\ d.subscribed = e.subscribed /\ d.toHost = e.toHost
    BY <1>4, <1>7, <1>8
  <2> QED
    BY <1>2, <2>1 DEF Plumbed
<1>11. d.state \in {"up", "cut"} => d.toDaemon = Append(e.toDaemon, x)
  BY <1>4, <1>7, <1>8
<1> QED
  BY <1>1, <1>4, <1>7, <1>8, <1>9, <1>10, <1>11

\* When the session leaves nobody is called back, and nothing need be fed.
LEMMA SessionLeaves ==
  ASSUME NEW cs \in Seq(HostClients), NEW c \in 1..Len(cs), NEW n, Plumbing(cs, n),
         \A i \in 1..Len(cs) : i # c => cs[i].callbacks = {}, NEW sh, NEW s
  PROVE  /\ Called(cs, c, {}, "unsubscribe") \in Seq(HostClients)
         /\ Len(Called(cs, c, {}, "unsubscribe")) = Len(cs)
         /\ \A i \in 1..Len(cs) : Called(cs, c, {}, "unsubscribe")[i].state = cs[i].state
         /\ Served(Called(cs, c, {}, "unsubscribe"), sh, n, 0, s)
<1>1. PICK ds : ds = Called(cs, c, {}, "unsubscribe")
  OBVIOUS
<1>2. "unsubscribe" \in Messages /\ {} \in SUBSET Nat
  BY DEF Messages
<1>3. PICK d \in HostClients :
        /\ ds = Replaced(cs, c, d)
        /\ d.state = cs[c].state /\ d.callbacks = {} /\ Plumbed(d, n)
  BY <1>1, <1>2, CalledGives
<1>4. /\ ds \in Seq(HostClients) /\ Len(ds) = Len(cs) /\ ds[c] = d
      /\ \A i \in 1..Len(cs) : i # c => ds[i] = cs[i]
  BY <1>3 DEF Replaced
<1>5. \A i \in 1..Len(ds) : Plumbed(ds[i], n) /\ ds[i].callbacks = {}
  BY <1>3, <1>4 DEF Plumbing
<1>6. Served(ds, sh, n, 0, s)
  BY <1>5 DEF Served
<1> QED
  BY <1>1, <1>3, <1>4, <1>6

\* A session that comes is called back by its client, which will be fed.
LEMMA SessionComes ==
  ASSUME NEW cs \in Seq(HostClients), NEW c \in 1..Len(cs), cs[c].state \in {"up", "cut"},
         NEW n, NEW sh, NEW r, Served(cs, sh, n, 0, r),
         NEW o \in Nat, o # 0, NEW s, s.client = c, s.unsubscribe, s.shell \in 1..n
  PROVE  /\ Called(cs, c, {o}, "subscribe") \in Seq(HostClients)
         /\ Len(Called(cs, c, {o}, "subscribe")) = Len(cs)
         /\ \A i \in 1..Len(cs) : Called(cs, c, {o}, "subscribe")[i].state = cs[i].state
         /\ Served(Called(cs, c, {o}, "subscribe"), sh, n, o, s)
<1>1. PICK ds : ds = Called(cs, c, {o}, "subscribe")
  OBVIOUS
<1>2. "subscribe" \in Messages /\ {o} \in SUBSET Nat
  BY DEF Messages
<1>3. \A i \in 1..Len(cs) : Plumbed(cs[i], n) /\ cs[i].callbacks = {}
  BY DEF Served
<1>4. Plumbing(cs, n)
  BY <1>3 DEF Plumbing
<1>5. PICK d \in HostClients :
        /\ ds = Replaced(cs, c, d)
        /\ d.state = cs[c].state /\ d.callbacks = {o} /\ d.subscribed = cs[c].subscribed
        /\ Plumbed(d, n)
        /\ d.state \in {"up", "cut"} => d.toDaemon = Append(cs[c].toDaemon, "subscribe")
  BY <1>1, <1>2, <1>4, CalledGives
<1>6. /\ ds \in Seq(HostClients) /\ Len(ds) = Len(cs) /\ ds[c] = d
      /\ \A i \in 1..Len(cs) : i # c => ds[i] = cs[i]
  BY <1>5 DEF Replaced
<1>7. ASSUME NEW i \in 1..Len(ds)
      PROVE  Plumbed(ds[i], n) /\ ds[i].callbacks = IF o # 0 /\ s.client = i THEN {o} ELSE {}
  <2>1. CASE i = c
    BY <1>5, <1>6, <2>1
  <2>2. CASE i # c
    BY <1>3, <1>6, <2>2
  <2> QED
    BY <2>1, <2>2
<1>8. Feeds(d.subscribed, d.toDaemon)
  <2>1. PICK e : e = cs[c]
    OBVIOUS
  <2>2. e.toDaemon \in Seq(Messages)
    BY <2>1, ClientHas
  <2>3. Feeds(d.subscribed, Append(e.toDaemon, "subscribe"))
    BY <1>2, <2>2, FeedsLonger
  <2> QED
    BY <1>5, <2>1, <2>3
<1>9. /\ s.client \in 1..Len(ds) /\ s.unsubscribe /\ s.shell \in 1..n
      /\ ds[s.client].state \in {"up", "cut"}
      /\ ds[s.client].state = "up" /\ sh = s.shell
           => Feeds(ds[s.client].subscribed, ds[s.client].toDaemon)
  BY <1>5, <1>6, <1>8
<1>10. Served(ds, sh, n, o, s)
  BY <1>7, <1>9 DEF Served
<1> QED
  BY <1>1, <1>5, <1>6, <1>10

-----------------------------------------------------------------------------
\* Requests.

LEMMA TaskHas ==
  ASSUME NEW t \in Tasks
  PROVE  /\ t.kind \in {"none", "attach", "create", "dispose", "reap"}
         /\ t.phase \in {"idle", "path", "connecting", "list", "open", "close", "foreign", "orphan"}
         /\ t.client \in Nat /\ t.adoptOnly \in BOOLEAN /\ t.replay \in BOOLEAN
         /\ t.answer \in Answers \cup {NoAnswer}
BY DEF Tasks

LEMMA IdleIs ==
  /\ Idle \in Tasks /\ Idle.kind = "none" /\ Idle.phase = "idle" /\ Idle.client = 0
  /\ Idle.answer = NoAnswer
<1>1. PICK no : no = FALSE
  OBVIOUS
<1>2. PICK t : t = Idle
  OBVIOUS
<1>3. t = [kind |-> "none", phase |-> "idle", client |-> 0, adoptOnly |-> no,
           replay |-> no, answer |-> NoAnswer]
  BY <1>1, <1>2, Zenon DEF Idle
<1>4. no \in BOOLEAN
  BY <1>1
<1>5. t \in Tasks /\ t.kind = "none" /\ t.phase = "idle" /\ t.client = 0 /\ t.answer = NoAnswer
  BY <1>3, <1>4 DEF Tasks
<1> QED
  BY <1>2, <1>5

LEMMA AnswerIs ==
  ASSUME NEW x \in {"list", "opened", "exists", "closed", "unknown", "exit", "connected", "failure"},
         NEW i \in Nat
  PROVE  Answer(x, i) \in Answers /\ Answer(x, i).is = x /\ Answer(x, i).shell = i
BY DEF Answer, Answers

\* No client goes, and none that was connected is down.
Lasts(cs, ds) ==
  /\ Len(cs) <= Len(ds)
  /\ \A i \in 1..Len(cs) : cs[i].state \in {"up", "cut"} => ds[i].state \in {"up", "cut"}

LEMMA CarriesLasts ==
  ASSUME NEW cs, NEW ds, NEW sh, NEW sg, NEW m, Carries(cs, ds, sh, sg, m)
  PROVE  Lasts(cs, ds)
BY DEF Carries, Keeps, Lasts

LEMMA TaskedLasts ==
  ASSUME NEW ts \in [AllSlots -> Tasks], NEW cs \in Seq(HostClients), NEW ds \in Seq(HostClients),
         NEW n \in Nat, NEW m \in Nat, n <= m, Tasked(ts, cs, n), Lasts(cs, ds)
  PROVE  Tasked(ts, ds, m)
<1>1. ASSUME NEW k \in AllSlots PROVE KindOf(ts[k], k) /\ Addressed(ts[k], ds, m)
  <2>1. PICK t : t = ts[k]
    OBVIOUS
  <2>2. t \in Tasks /\ t.answer \in Answers \cup {NoAnswer}
    BY <2>1, TaskHas
  <2>3. KindOf(t, k) /\ Addressed(t, cs, n)
    BY <2>1 DEF Tasked
  <2>4. Len(cs) \in Nat /\ Len(ds) \in Nat
    OBVIOUS
  <2>5. t.client \in 1..Len(cs) => t.client \in 1..Len(ds)
    BY <2>4 DEF Lasts
  <2>6. ASSUME t.answer # NoAnswer PROVE Credible(t.answer, m)
    <3>1. PICK a : a = t.answer
      OBVIOUS
    <3>2. a \in Answers /\ Credible(a, n)
      BY <2>2, <2>3, <2>6, <3>1 DEF Addressed
    <3>3. a.shell \in Nat
      BY <3>2 DEF Answers
    <3> QED
      BY <3>1, <3>2, <3>3 DEF Credible
  <2>7. Addressed(t, ds, m)
    BY <2>3, <2>5, <2>6 DEF Addressed, Lasts
  <2> QED
    BY <2>1, <2>3, <2>7
<1> QED
  BY <1>1 DEF Tasked

LEMMA TaskedOne ==
  ASSUME NEW ts \in [AllSlots -> Tasks], NEW k \in AllSlots, NEW t \in Tasks, NEW cs, NEW n,
         Tasked(ts, cs, n), KindOf(t, k), Addressed(t, cs, n)
  PROVE  Replaced(ts, k, t) \in [AllSlots -> Tasks] /\ Tasked(Replaced(ts, k, t), cs, n)
<1>1. PICK us : us = Replaced(ts, k, t)
  OBVIOUS
<1>2. /\ us \in [AllSlots -> Tasks] /\ us[k] = t
      /\ \A j \in AllSlots : j # k => us[j] = ts[j]
  BY <1>1 DEF Replaced
<1>3. ASSUME NEW j \in AllSlots PROVE KindOf(us[j], j) /\ Addressed(us[j], cs, n)
  <2>1. CASE j = k
    BY <1>2, <2>1
  <2>2. CASE j # k
    BY <1>2, <2>2 DEF Tasked
  <2> QED
    BY <2>1, <2>2
<1> QED
  BY <1>1, <1>2, <1>3 DEF Tasked

\* Some requests are answered: us are the requests ts with their answers.
ToldOne(t, u, cs, n) ==
  /\ u.kind = t.kind /\ u.phase = t.phase /\ u.client = t.client /\ u.adoptOnly = t.adoptOnly
  /\ u.answer # t.answer =>
       /\ t.phase # "idle" /\ Credible(u.answer, n)
       /\ u.answer.is \in {"connected", "list", "opened", "exists"} =>
            t.client \in 1..Len(cs) /\ cs[t.client].state \in {"up", "cut"}

Told(ts, us, cs, n) ==
  us \in [AllSlots -> Tasks] /\ \A k \in AllSlots : ToldOne(ts[k], us[k], cs, n)

LEMMA TaskedTold ==
  ASSUME NEW ts, NEW us, NEW cs, NEW n, Tasked(ts, cs, n), Told(ts, us, cs, n)
  PROVE  Tasked(us, cs, n)
<1>1. ASSUME NEW k \in AllSlots PROVE KindOf(us[k], k) /\ Addressed(us[k], cs, n)
  <2>1. PICK t, u : t = ts[k] /\ u = us[k]
    OBVIOUS
  <2>2. KindOf(t, k) /\ Addressed(t, cs, n) /\ ToldOne(t, u, cs, n)
    BY <2>1 DEF Tasked, Told
  <2>3. KindOf(u, k)
    BY <2>2 DEF KindOf, ToldOne
  <2>4. Addressed(u, cs, n)
    BY <2>2 DEF Addressed, ToldOne
  <2> QED
    BY <2>1, <2>3, <2>4
<1> QED
  BY <1>1 DEF Tasked

\* A request that is given the answer a.
LEMMA AnsweredIs ==
  ASSUME NEW t \in Tasks, NEW a \in Answers
  PROVE  /\ [t EXCEPT !.answer = a] \in Tasks
         /\ [t EXCEPT !.answer = a].kind = t.kind /\ [t EXCEPT !.answer = a].phase = t.phase
         /\ [t EXCEPT !.answer = a].client = t.client
         /\ [t EXCEPT !.answer = a].adoptOnly = t.adoptOnly
         /\ [t EXCEPT !.answer = a].answer = a
<1>1. PICK u : u = [t EXCEPT !.answer = a]
  OBVIOUS
<1>2. a \in Answers \cup {NoAnswer}
  OBVIOUS
<1>3. /\ u \in Tasks /\ u.kind = t.kind /\ u.phase = t.phase /\ u.client = t.client
      /\ u.adoptOnly = t.adoptOnly /\ u.answer = a
  BY <1>1, <1>2 DEF Tasks
<1> QED
  BY <1>1, <1>3

\* Some wait for the answer a, and are given it.
LEMMA SomeAnswered ==
  ASSUME NEW ts \in [AllSlots -> Tasks], NEW a \in Answers, NEW X \in SUBSET AllSlots,
         NEW cs, NEW n, Credible(a, n),
         \A k \in X : /\ ts[k].phase # "idle"
                      /\ a.is \in {"connected", "list", "opened", "exists"} =>
                           ts[k].client \in 1..Len(cs) /\ cs[ts[k].client].state \in {"up", "cut"},
         NEW us, us = [k \in AllSlots |-> IF k \in X THEN [ts[k] EXCEPT !.answer = a] ELSE ts[k]]
  PROVE  Told(ts, us, cs, n)
<1>1. ASSUME NEW k \in AllSlots PROVE us[k] \in Tasks /\ ToldOne(ts[k], us[k], cs, n)
  <2>1. PICK t, u : t = ts[k] /\ u = us[k]
    OBVIOUS
  <2>2. t \in Tasks
    BY <2>1
  <2>3. CASE k \in X
    <3>1. u = [t EXCEPT !.answer = a]
      BY <2>1, <2>3, Zenon
    <3>2. /\ u \in Tasks /\ u.kind = t.kind /\ u.phase = t.phase /\ u.client = t.client
          /\ u.adoptOnly = t.adoptOnly /\ u.answer = a
      BY <2>2, <3>1, AnsweredIs
    <3> QED
      BY <2>1, <2>3, <3>2 DEF ToldOne
  <2>4. CASE k \notin X
    <3>1. u = t
      BY <2>1, <2>4, Zenon
    <3> QED
      BY <2>1, <2>2, <3>1 DEF ToldOne
  <2> QED
    BY <2>3, <2>4
<1>2. us \in [AllSlots -> Tasks]
  BY <1>1
<1> QED
  BY <1>1, <1>2 DEF Told

-----------------------------------------------------------------------------
\* What the requests do to each other.

\* A request goes on from phase p to phase q.
Alike(p, q) ==
  \/ p = q
  \/ p # "idle" /\ q \in {"path", "connecting", "list", "open"}
  \/ {p, q} \subseteq {"foreign", "close"}

LEMMA ControlKept ==
  ASSUME Control, open \subseteq Slots,
         UNCHANGED <<row, objs, current, open, aged, rowless, requests>>,
         \A k \in AllSlots : /\ tasks'[k].kind = tasks[k].kind
                             /\ Alike(tasks[k].phase, tasks'[k].phase)
  PROVE  Control'
<1>1. PICK ts, us : ts = tasks /\ us = tasks'
  OBVIOUS
<1>2. ASSUME NEW k \in AllSlots
      PROVE  /\ us[k].kind = ts[k].kind
             /\ us[k].phase # "idle" => ts[k].phase # "idle"
             /\ us[k].phase \in {"orphan", "foreign", "close"} =>
                  ts[k].phase \in {"orphan", "foreign", "close"}
             /\ us[k].phase \in {"foreign", "close"} => ts[k].phase \in {"foreign", "close"}
  BY <1>1 DEF Alike
<1>3. Reaper \in AllSlots /\ \A k \in Slots : k \in AllSlots
  BY DEF AllSlots
<1>4. /\ row' = row /\ objs' = objs /\ current' = current /\ open' = open /\ aged' = aged
      /\ rowless' = rowless /\ requests' = requests
  OBVIOUS
<1>5. OneRequest'
  BY <1>1, <1>2, <1>3, <1>4 DEF Control, OneRequest, InFlight
<1>6. Rowed'
  BY <1>1, <1>2, <1>3, <1>4 DEF Control, Rowed
<1>7. Reaping'
  BY <1>1, <1>2, <1>3, <1>4 DEF Control, Reaping
<1>8. Patient'
  BY <1>1, <1>2, <1>3, <1>4 DEF Control, Patient, InFlight
<1>9. Virgin'
  BY <1>1, <1>2, <1>3, <1>4 DEF Control, Virgin, InFlight
<1>10. RowOfSession'
  BY <1>4 DEF Control, RowOfSession
<1>11. Viewing'
  <2>1. \A k \in open : us[k].kind = ts[k].kind
    BY <1>2, <1>3
  <2> QED
    BY <1>1, <1>4, <2>1 DEF Control, Viewing
<1> QED
  BY <1>5, <1>6, <1>7, <1>8, <1>9, <1>10, <1>11 DEF Control

\* A request that is there is not free, of a kind, and not before the first.
LEMMA InFlightIs ==
  ASSUME TerminalInv, NEW k \in AllSlots
  PROVE  /\ k \in Slots \/ k = Reaper
         /\ tasks[k] \in Tasks /\ KindOf(tasks[k], k) /\ Addressed(tasks[k], clients, shells)
         /\ InFlight(k) <=> tasks[k].kind # "none"
         /\ tasks[k].answer # NoAnswer => InFlight(k)
         /\ k \in Slots /\ InFlight(k) => /\ requests # 0 /\ current = 0
                                          /\ \A j \in Slots : InFlight(j) => j = k
<1>1. k \in Slots \/ k = Reaper
  BY DEF AllSlots
<1>2. tasks[k] \in Tasks /\ KindOf(tasks[k], k) /\ Addressed(tasks[k], clients, shells)
  BY DEF TerminalInv, Typed, Tasked
<1>3. InFlight(k) <=> tasks[k].kind # "none"
  BY <1>2 DEF KindOf, InFlight
<1>4. tasks[k].answer # NoAnswer => InFlight(k)
  BY <1>2, <1>3 DEF KindOf
<1>5. k \in Slots /\ InFlight(k) => /\ requests # 0 /\ current = 0
                                    /\ \A j \in Slots : InFlight(j) => j = k
  BY DEF TerminalInv, Control, OneRequest, Virgin
<1> QED
  BY <1>1, <1>2, <1>3, <1>4, <1>5

\* A step of the requests, of the clients or of the daemon only.
Requesting ==
  /\ shells \in Nat /\ shells' \in Nat /\ shells <= shells' /\ shell' \in 0..shells'
  /\ UNCHANGED <<row, objs, current, open, aged, rowless, requests>>
  /\ cached' \in 0..Len(clients') /\ connecting' \in 0..Len(clients')
  /\ shell' = shell \/ shell' \notin 1..shells
  /\ Carries(clients, clients', shell, shell', shells')
  /\ requests = 0 => shells' = 0 /\ Unopened(clients')
  /\ tasks' \in [AllSlots -> Tasks] /\ Tasked(tasks', clients', shells')
  /\ \A k \in AllSlots : /\ tasks'[k].kind = tasks[k].kind
                         /\ Alike(tasks[k].phase, tasks'[k].phase)

LEMMA RequestingKeeps ==
  ASSUME TerminalInv, Requesting
  PROVE  TerminalInv'
<1>1. /\ row' = row /\ objs' = objs /\ current' = current /\ open' = open /\ aged' = aged
      /\ rowless' = rowless /\ requests' = requests
  BY DEF Requesting
<1>2. clients' \in Seq(HostClients)
  BY DEF Requesting, Carries
<1>3. Typed'
  BY <1>1, <1>2 DEF TerminalInv, Typed, Requesting
<1>4. Served(clients', shell', shells', current, objs[current])
  <2>1. /\ clients \in Seq(HostClients) /\ Served(clients, shell, shells, current, objs[current])
        /\ shells \in Nat /\ shells' \in Nat /\ shells <= shells'
        /\ shell' = shell \/ shell' \notin 1..shells
        /\ Carries(clients, clients', shell, shell', shells')
    BY DEF TerminalInv, Typed, Requesting
  <2> QED
    BY <2>1, ServedCarries
<1>5. Control'
  BY <1>1, ControlKept DEF TerminalInv, Typed, Requesting
<1>6. Served(clients, shell, shells, current, objs[current])'
  BY <1>1, <1>4
<1>7. Tasked(tasks, clients, shells)' /\ (requests = 0 => shells = 0 /\ Unopened(clients))'
  BY <1>1 DEF Requesting
<1> QED
  BY <1>3, <1>5, <1>6, <1>7 DEF TerminalInv

\* The requests as they were.
LEMMA SameRequests ==
  ASSUME TerminalInv, NEW ds \in Seq(HostClients), NEW m \in Nat, shells <= m, Lasts(clients, ds)
  PROVE  /\ tasks \in [AllSlots -> Tasks] /\ Tasked(tasks, ds, m)
         /\ \A k \in AllSlots : Alike(tasks[k].phase, tasks[k].phase)
<1>1. /\ tasks \in [AllSlots -> Tasks] /\ clients \in Seq(HostClients) /\ shells \in Nat
      /\ Tasked(tasks, clients, shells)
  BY DEF TerminalInv, Typed
<1> QED
  BY <1>1, TaskedLasts DEF Alike

\* The conditions on the requests, in the two ways they change.
Requested(us, ds, m) ==
  /\ us \in [AllSlots -> Tasks] /\ Tasked(us, ds, m)
  /\ \A k \in AllSlots : us[k].kind = tasks[k].kind /\ Alike(tasks[k].phase, us[k].phase)

LEMMA ToldRequests ==
  ASSUME TerminalInv, NEW ds \in Seq(HostClients), NEW m \in Nat, shells <= m,
         Lasts(clients, ds), NEW us, Told(tasks, us, ds, m)
  PROVE  Requested(us, ds, m)
<1>1. /\ tasks \in [AllSlots -> Tasks] /\ Tasked(tasks, ds, m)
  BY SameRequests
<1>2. Tasked(us, ds, m)
  BY <1>1, TaskedTold
<1>3. us \in [AllSlots -> Tasks]
      /\ \A k \in AllSlots : us[k].kind = tasks[k].kind /\ us[k].phase = tasks[k].phase
  BY DEF Told, ToldOne
<1> QED
  BY <1>2, <1>3 DEF Requested, Alike

LEMMA OneRequests ==
  ASSUME TerminalInv, NEW ds \in Seq(HostClients), NEW m \in Nat, shells <= m,
         Lasts(clients, ds), NEW k \in AllSlots, NEW t \in Tasks, KindOf(t, k),
         Addressed(t, ds, m), t.kind = tasks[k].kind, Alike(tasks[k].phase, t.phase)
  PROVE  Requested(Replaced(tasks, k, t), ds, m)
<1>1. /\ tasks \in [AllSlots -> Tasks] /\ Tasked(tasks, ds, m)
  BY SameRequests
<1>2. PICK us : us = Replaced(tasks, k, t)
  OBVIOUS
<1>3. us \in [AllSlots -> Tasks] /\ Tasked(us, ds, m)
  BY <1>1, <1>2, TaskedOne
<1>4. us[k] = t /\ \A j \in AllSlots : j # k => us[j] = tasks[j]
  BY <1>1, <1>2 DEF Replaced
<1>5. ASSUME NEW j \in AllSlots PROVE us[j].kind = tasks[j].kind /\ Alike(tasks[j].phase, us[j].phase)
  <2>1. CASE j = k
    BY <1>4, <2>1
  <2>2. CASE j # k
    BY <1>4, <2>2 DEF Alike
  <2> QED
    BY <2>1, <2>2
<1> QED
  BY <1>2, <1>3, <1>5 DEF Requested

\* What the steps find.
LEMMA InvGives ==
  ASSUME TerminalInv
  PROVE  /\ clients \in Seq(HostClients) /\ Len(clients) \in Nat /\ DOMAIN clients = 1..Len(clients)
         /\ Plumbing(clients, shells) /\ shells \in Nat /\ shell \in 0..shells
         /\ tasks \in [AllSlots -> Tasks] /\ open \subseteq Slots
         /\ objs \in Seq(HostSessions) /\ Len(objs) \in Nat /\ DOMAIN objs = 1..Len(objs)
         /\ current \in 0..Len(objs)
         /\ cached \in 0..Len(clients) /\ connecting \in 0..Len(clients)
         /\ requests \in Nat /\ (requests = 0 => shells = 0 /\ Unopened(clients))
<1>1. Plumbing(clients, shells)
  BY DEF TerminalInv, Served, Plumbing
<1> QED
  BY <1>1 DEF TerminalInv, Typed

LEMMA BootKeeps == ASSUME TerminalInv, Boot PROVE TerminalInv'
<1>1. /\ Plumbing(clients, shells) /\ clients \in Seq(HostClients) /\ shells \in Nat
      /\ shell \in 0..shells /\ tasks \in [AllSlots -> Tasks]
      /\ cached \in 0..Len(clients) /\ connecting \in 0..Len(clients)
      /\ requests = 0 => shells = 0 /\ Unopened(clients)
  BY InvGives
<1>2. /\ clients' = clients /\ cached' = cached /\ connecting' = connecting
      /\ shell' = shell /\ shells' = shells /\ tasks' = tasks
      /\ UNCHANGED <<row, objs, current, open, aged, rowless, requests>>
  BY DEF Boot, daemonVars, clientVars, sessionVars, reaperVars
<1>3. Carries(clients, clients, shell, shell, shells)
  BY <1>1, KeepsItself
<1>4. Tasked(tasks, clients, shells) /\ \A k \in AllSlots : Alike(tasks[k].phase, tasks[k].phase)
  BY DEF TerminalInv, Alike
<1>5. Requesting
  BY <1>1, <1>2, <1>3, <1>4 DEF Requesting
<1> QED
  BY <1>5, RequestingKeeps

\* A client's connect settles: it is in state x.
Stated(cs, c, x) == [cs EXCEPT ![c].state = x]

LEMMA Settled ==
  ASSUME TerminalInv, NEW c \in 1..Len(clients), clients[c].state = "connecting",
         NEW x \in {"up", "down"}, NEW ds, ds = Stated(clients, c, x)
  PROVE  /\ Carries(clients, ds, shell, shell, shells) /\ Len(ds) = Len(clients)
         /\ ds[c].state = x
         /\ requests = 0 => Unopened(ds)
<1>1. PICK e : e = clients[c]
  OBVIOUS
<1>2. clients \in Seq(HostClients) /\ Plumbing(clients, shells) /\ e \in HostClients
      /\ Plumbed(e, shells) /\ e.state = "connecting"
  BY <1>1, InvGives DEF Plumbing
<1>3. PICK d : d = [e EXCEPT !.state = x]
  OBVIOUS
<1>4. /\ d \in HostClients /\ d.state = x /\ d.callbacks = e.callbacks
      /\ d.subscribed = e.subscribed /\ d.toDaemon = e.toDaemon /\ d.toHost = e.toHost
  BY <1>2, <1>3 DEF HostClients
<1>5. ds = Replaced(clients, c, d)
  BY <1>1, <1>3 DEF Replaced, Stated
<1>6. Plumbed(d, shells)
  BY <1>2, <1>4 DEF Plumbed
<1>7. Keeps(clients[c], d, shell, shell)
  BY <1>1, <1>2, <1>4 DEF Keeps
<1>8. Carries(clients, ds, shell, shell, shells) /\ Len(ds) = Len(clients)
  BY <1>2, <1>4, <1>5, <1>6, <1>7, OneCarries
<1>9. ds[c] = d /\ \A i \in 1..Len(clients) : i # c => ds[i] = clients[i]
  BY <1>2, <1>5 DEF Replaced
<1>10. \A i \in 1..Len(clients) : ds[i].toDaemon = clients[i].toDaemon
  BY <1>1, <1>4, <1>9
<1>11. requests = 0 => Unopened(ds)
  BY <1>8, <1>10, InvGives DEF Unopened
<1> QED
  BY <1>4, <1>8, <1>9, <1>11

LEMMA ConnectedKeeps ==
  ASSUME TerminalInv, NEW c \in DOMAIN clients, Connected(c)
  PROVE  TerminalInv'
<1>1. /\ Plumbing(clients, shells) /\ clients \in Seq(HostClients) /\ shells \in Nat
      /\ shell \in 0..shells /\ tasks \in [AllSlots -> Tasks]
      /\ cached \in 0..Len(clients) /\ connecting \in 0..Len(clients) /\ c \in 1..Len(clients)
      /\ requests = 0 => shells = 0 /\ Unopened(clients)
  BY InvGives
<1>2. /\ cached' = c /\ connecting' = 0 /\ shell' = shell /\ shells' = shells
      /\ UNCHANGED <<row, objs, current, open, aged, rowless, requests>>
      /\ clients[c].state = "connecting"
      /\ clients' = Stated(clients, c, "up")
  BY DEF Stated, Connected, daemonVars, sessionVars, reaperVars
<1>3. PICK ds, us : ds = clients' /\ us = tasks'
  OBVIOUS
<1>4. /\ Carries(clients, ds, shell, shell, shells) /\ Len(ds) = Len(clients)
      /\ ds[c].state = "up" /\ (requests = 0 => Unopened(ds))
  BY <1>1, <1>2, <1>3, Settled
<1>5. PICK a : a = Answer("connected", 0)
  OBVIOUS
<1>6. a \in Answers /\ Credible(a, shells)
  BY <1>1, <1>5, AnswerIs DEF Credible
<1>7. PICK X : X = {k \in AllSlots : tasks[k].phase = "connecting" /\ tasks[k].client = c}
  OBVIOUS
<1>8. us = [k \in AllSlots |-> IF k \in X THEN [tasks[k] EXCEPT !.answer = a] ELSE tasks[k]]
  BY <1>3, <1>5, <1>7, Zenon DEF Connected
<1>9. \A k \in X : /\ tasks[k].phase # "idle"
                   /\ tasks[k].client \in 1..Len(ds) /\ ds[tasks[k].client].state \in {"up", "cut"}
  BY <1>1, <1>4, <1>7
<1>10. Told(tasks, us, ds, shells)
  <2>1. X \in SUBSET AllSlots
    BY <1>7
  <2> QED
    BY <1>1, <1>6, <1>8, <1>9, <2>1, SomeAnswered
<1>11. ds \in Seq(HostClients) /\ Lasts(clients, ds)
  BY <1>4, CarriesLasts DEF Carries
<1>12. Requested(us, ds, shells)
  BY <1>1, <1>10, <1>11, ToldRequests
<1>13. Requesting
  BY <1>1, <1>2, <1>3, <1>4, <1>12 DEF Requesting, Requested
<1> QED
  BY <1>13, RequestingKeeps

LEMMA ConnectFailsKeeps ==
  ASSUME TerminalInv, NEW c \in DOMAIN clients, ConnectFails(c)
  PROVE  TerminalInv'
<1>1. /\ Plumbing(clients, shells) /\ clients \in Seq(HostClients) /\ shells \in Nat
      /\ shell \in 0..shells /\ tasks \in [AllSlots -> Tasks]
      /\ cached \in 0..Len(clients) /\ connecting \in 0..Len(clients) /\ c \in 1..Len(clients)
      /\ requests = 0 => shells = 0 /\ Unopened(clients)
  BY InvGives
<1>2. /\ cached' = cached /\ connecting' = 0 /\ shell' = shell /\ shells' = shells
      /\ UNCHANGED <<row, objs, current, open, aged, rowless, requests>>
      /\ clients[c].state = "connecting"
      /\ clients' = Stated(clients, c, "down")
  BY DEF Stated, ConnectFails, daemonVars, sessionVars, reaperVars
<1>3. PICK ds, us : ds = clients' /\ us = tasks'
  OBVIOUS
<1>4. /\ Carries(clients, ds, shell, shell, shells) /\ Len(ds) = Len(clients)
      /\ (requests = 0 => Unopened(ds))
  BY <1>1, <1>2, <1>3, Settled
<1>5. PICK a : a = Failure
  OBVIOUS
<1>6. a \in Answers /\ Credible(a, shells) /\ a.is = "failure"
  BY <1>1, <1>5, AnswerIs DEF Credible, Failure
<1>7. PICK X : X = {k \in AllSlots : tasks[k].phase = "connecting" /\ tasks[k].client = c}
  OBVIOUS
<1>8. us = [k \in AllSlots |-> IF k \in X THEN [tasks[k] EXCEPT !.answer = a] ELSE tasks[k]]
  BY <1>3, <1>5, <1>7, Zenon DEF ConnectFails
<1>9. Told(tasks, us, ds, shells)
  <2>1. X \in SUBSET AllSlots /\ \A k \in X : tasks[k].phase # "idle"
    BY <1>7
  <2> QED
    BY <1>1, <1>6, <1>8, <2>1, SomeAnswered
<1>10. ds \in Seq(HostClients) /\ Lasts(clients, ds)
  BY <1>4, CarriesLasts DEF Carries
<1>11. Requested(us, ds, shells)
  BY <1>1, <1>9, <1>10, ToldRequests
<1>12. Requesting
  BY <1>1, <1>2, <1>3, <1>4, <1>11 DEF Requesting, Requested
<1> QED
  BY <1>12, RequestingKeeps

-----------------------------------------------------------------------------
\* The daemon's steps.

\* The host is told nothing, or one thing more.
Relays(q, r, m) == r = q \/ \E a \in Answers : Credible(a, m) /\ r = Append(q, a)

\* Whether the host is subscribed, before and after x was served.
Obeyed(x, before, after) ==
  /\ x = "subscribe" /\ shell # 0 => after
  /\ x \notin {"subscribe", "unsubscribe"} => after = before

\* The daemon serves the head of a client's queue: d is that client afterwards.
LEMMA ServingCarries ==
  ASSUME TerminalInv, NEW c \in 1..Len(clients), clients[c].state = "up",
         clients[c].toDaemon # <<>>,
         NEW sg, NEW m \in Nat, shells <= m, NEW d \in HostClients,
         d.state = "up", d.callbacks = clients[c].callbacks,
         d.toDaemon = Tail(clients[c].toDaemon),
         Relays(clients[c].toHost, d.toHost, m),
         Obeyed(Head(clients[c].toDaemon), clients[c].subscribed, d.subscribed)
  PROVE  /\ Carries(clients, Replaced(clients, c, d), shell, sg, m)
         /\ Unopened(clients) => Unopened(Replaced(clients, c, d))
<1>1. PICK e, q, r : e = clients[c] /\ q = e.toDaemon /\ r = e.toHost
  OBVIOUS
<1>2. /\ clients \in Seq(HostClients) /\ e \in HostClients /\ Plumbed(e, shells)
      /\ shells \in Nat /\ Plumbing(clients, shells)
  BY <1>1, InvGives DEF Plumbing
<1>3. q \in Seq(Messages) /\ Len(q) \in Nat /\ q # <<>> /\ r \in Seq(Answers) /\ Len(r) \in Nat
  BY <1>1, <1>2, ClientHas
<1>4. Plumbing(clients, m)
  BY <1>2, PlumbedMore DEF Plumbing
<1>5. Plumbed(e, m)
  BY <1>1, <1>4 DEF Plumbing
<1>6. Plumbed(d, m)
  <2>1. \A i \in 1..Len(r) : Credible(r[i], m)
    BY <1>1, <1>5 DEF Plumbed
  <2>2. CASE d.toHost = r
    BY <2>1, <2>2 DEF Plumbed
  <2>3. ASSUME NEW a \in Answers, Credible(a, m), d.toHost = Append(r, a) PROVE Plumbed(d, m)
    <3>1. PICK u : u = Append(r, a)
      OBVIOUS
    <3>2. \A i \in 1..Len(u) : Credible(u[i], m)
      <4>1. /\ Len(u) = Len(r) + 1 /\ u[Len(r) + 1] = a /\ \A i \in 1..Len(r) : u[i] = r[i]
        BY <1>3, <3>1
      <4>2. \A i \in 1..Len(u) : i \in 1..Len(r) \/ i = Len(r) + 1
        BY <1>3, <4>1
      <4> QED
        BY <2>1, <2>3, <4>1, <4>2
    <3> QED
      BY <2>3, <3>1, <3>2 DEF Plumbed
  <2> QED
    BY <1>1, <2>2, <2>3 DEF Relays
<1>7. Keeps(e, d, shell, sg)
  <2>1. ASSUME sg = shell, sg # 0, Feeds(e.subscribed, q) PROVE Feeds(d.subscribed, Tail(q))
    <3>1. Head(q) = "subscribe" => d.subscribed
      BY <1>1, <2>1 DEF Obeyed
    <3>2. Head(q) \notin {"subscribe", "unsubscribe"} /\ e.subscribed => d.subscribed
      BY <1>1 DEF Obeyed
    <3> QED
      BY <1>3, <2>1, <3>1, <3>2, FeedsShorter
  <2> QED
    BY <1>1, <2>1 DEF Keeps
<1>8. Carries(clients, Replaced(clients, c, d), shell, sg, m)
  BY <1>1, <1>2, <1>4, <1>6, <1>7, OneCarries
<1>9. PICK ds : ds = Replaced(clients, c, d)
  OBVIOUS
<1>10. /\ ds[c] = d /\ Len(ds) = Len(clients)
       /\ \A i \in 1..Len(clients) : i # c => ds[i] = clients[i]
  BY <1>2, <1>9 DEF Replaced
<1>11. ASSUME Unopened(clients), NEW i \in 1..Len(ds), NEW j \in 1..Len(ds[i].toDaemon)
       PROVE  ds[i].toDaemon[j] # "open"
  <2>1. CASE i # c
    BY <1>10, <1>11, <2>1 DEF Unopened
  <2>2. CASE i = c
    <3>1. PICK l, t : l = Len(q) /\ t = Tail(q)
      OBVIOUS
    <3>2. l \in Nat /\ l >= 1 /\ Len(t) = l - 1 /\ \A h \in 1..(l - 1) : t[h] = q[h + 1]
      BY <1>3, <3>1
    <3>3. \A h \in 1..l : q[h] # "open"
      BY <1>1, <1>11, <3>1 DEF Unopened
    <3>4. ASSUME NEW h \in 1..Len(t) PROVE t[h] # "open"
      <4>1. h \in 1..(l - 1) /\ h + 1 \in 1..l
        BY <3>2
      <4> QED
        BY <3>2, <3>3, <4>1
    <3> QED
      BY <1>1, <1>10, <1>11, <2>2, <3>1, <3>4
  <2> QED
    BY <2>1, <2>2
<1> QED
  BY <1>8, <1>9, <1>11 DEF Unopened

\* It replies.
LEMMA ReplyCarries ==
  ASSUME TerminalInv, NEW c \in 1..Len(clients), clients[c].state = "up",
         clients[c].toDaemon # <<>>, NEW sg, NEW m \in Nat, shells <= m,
         NEW a \in Answers, Credible(a, m), Replies(c, a),
         Head(clients[c].toDaemon) # "unsubscribe",
         Head(clients[c].toDaemon) = "subscribe" => shell = 0
  PROVE  /\ Carries(clients, clients', shell, sg, m) /\ Len(clients') = Len(clients)
         /\ Unopened(clients) => Unopened(clients')
<1>1. PICK e, q, r : e = clients[c] /\ q = Tail(e.toDaemon) /\ r = Append(e.toHost, a)
  OBVIOUS
<1>2. /\ clients \in Seq(HostClients) /\ e \in HostClients
  BY <1>1, InvGives
<1>3. /\ e.toDaemon \in Seq(Messages) /\ e.toDaemon # <<>> /\ e.toHost \in Seq(Answers)
      /\ e.subscribed \in BOOLEAN
  BY <1>1, <1>2, ClientHas
<1>4. q \in Seq(Messages) /\ r \in Seq(Answers)
  BY <1>1, <1>3
<1>5. PICK d : d = [e EXCEPT !.toDaemon = q, !.toHost = r]
  OBVIOUS
<1>6. /\ d \in HostClients /\ d.state = e.state /\ d.callbacks = e.callbacks
      /\ d.subscribed = e.subscribed /\ d.toDaemon = q /\ d.toHost = r
  BY <1>2, <1>4, <1>5 DEF HostClients
<1>7. clients' = Replaced(clients, c, d)
  <2>1. clients' = [clients EXCEPT ![c] = [clients[c] EXCEPT !.toDaemon = q, !.toHost = r]]
    BY <1>1, <1>2 DEF Replies
  <2> QED
    BY <1>1, <1>5, <2>1 DEF Replaced
<1>8. /\ Carries(clients, Replaced(clients, c, d), shell, sg, m)
      /\ Unopened(clients) => Unopened(Replaced(clients, c, d))
  <2>1. Relays(clients[c].toHost, d.toHost, m)
    BY <1>1, <1>6 DEF Relays
  <2>2. Obeyed(Head(clients[c].toDaemon), clients[c].subscribed, d.subscribed)
    BY <1>1, <1>6 DEF Obeyed
  <2> QED
    BY <1>1, <1>6, <2>1, <2>2, ServingCarries
<1>9. Len(clients') = Len(clients)
  BY <1>2, <1>6, <1>7 DEF Replaced
<1> QED
  BY <1>7, <1>8, <1>9

\* It subscribes the client or not.
Subscribing(c, b) ==
  clients' = [clients EXCEPT ![c].toDaemon = Tail(@), ![c].subscribed = b]

LEMMA SubscribingCarries ==
  ASSUME TerminalInv, NEW c \in 1..Len(clients), clients[c].state = "up",
         clients[c].toDaemon # <<>>, NEW b \in BOOLEAN,
         Subscribing(c, b),
         Obeyed(Head(clients[c].toDaemon), clients[c].subscribed, b)
  PROVE  /\ Carries(clients, clients', shell, shell, shells) /\ Len(clients') = Len(clients)
         /\ Unopened(clients) => Unopened(clients')
<1>1. PICK e, q : e = clients[c] /\ q = Tail(e.toDaemon)
  OBVIOUS
<1>2. clients \in Seq(HostClients) /\ e \in HostClients /\ shells \in Nat
  BY <1>1, InvGives
<1>3. e.toDaemon \in Seq(Messages) /\ e.toDaemon # <<>>
  BY <1>1, <1>2, ClientHas
<1>4. q \in Seq(Messages)
  BY <1>1, <1>3
<1>5. PICK d : d = [e EXCEPT !.toDaemon = q, !.subscribed = b]
  OBVIOUS
<1>6. /\ d \in HostClients /\ d.state = e.state /\ d.callbacks = e.callbacks
      /\ d.subscribed = b /\ d.toDaemon = q /\ d.toHost = e.toHost
  BY <1>2, <1>4, <1>5 DEF HostClients
<1>7. clients' = Replaced(clients, c, d)
  <2>1. clients' = [clients EXCEPT ![c] = [clients[c] EXCEPT !.toDaemon = q, !.subscribed = b]]
    BY <1>1, <1>2 DEF Subscribing
  <2> QED
    BY <1>1, <1>5, <2>1 DEF Replaced
<1>8. /\ Carries(clients, Replaced(clients, c, d), shell, shell, shells)
      /\ Unopened(clients) => Unopened(Replaced(clients, c, d))
  <2>1. /\ d \in HostClients /\ d.state = "up" /\ d.callbacks = clients[c].callbacks
        /\ d.toDaemon = Tail(clients[c].toDaemon) /\ d.toHost = clients[c].toHost
        /\ shells \in Nat /\ shells <= shells
    BY <1>1, <1>2, <1>6
  <2>2. Relays(clients[c].toHost, d.toHost, shells)
    BY <2>1 DEF Relays
  <2>3. Obeyed(Head(clients[c].toDaemon), clients[c].subscribed, d.subscribed)
    BY <1>6
  <2> QED
    BY <2>1, <2>2, <2>3, ServingCarries
<1>9. Len(clients') = Len(clients)
  BY <1>2, <1>6, <1>7 DEF Replaced
<1> QED
  BY <1>7, <1>8, <1>9

\* The requests do not notice.
LEMMA UnnoticedKeeps ==
  ASSUME TerminalInv, shells' \in Nat, shells <= shells', shell' \in 0..shells',
         shell' = shell \/ shell' \notin 1..shells,
         Carries(clients, clients', shell, shell', shells'), Len(clients') = Len(clients),
         requests = 0 => shells' = 0 /\ Unopened(clients'),
         UNCHANGED <<cached, connecting, sessionVars, tasks, reaperVars, requests>>
  PROVE  TerminalInv'
<1>1. /\ cached' = cached /\ connecting' = connecting /\ tasks' = tasks
      /\ UNCHANGED <<row, objs, current, open, aged, rowless, requests>>
  BY DEF sessionVars, reaperVars
<1>2. clients' \in Seq(HostClients) /\ Lasts(clients, clients')
  BY CarriesLasts DEF Carries
<1>3. PICK ds, m : ds = clients' /\ m = shells'
  OBVIOUS
<1>4. /\ tasks \in [AllSlots -> Tasks] /\ Tasked(tasks, ds, m)
      /\ \A k \in AllSlots : Alike(tasks[k].phase, tasks[k].phase)
  BY <1>2, <1>3, SameRequests
<1>5. shells \in Nat /\ cached \in 0..Len(clients) /\ connecting \in 0..Len(clients)
  BY InvGives
<1>6. Requesting
  BY <1>1, <1>3, <1>4, <1>5 DEF Requesting
<1> QED
  BY <1>6, RequestingKeeps

LEMMA ServeKeeps ==
  ASSUME TerminalInv, NEW c \in DOMAIN clients, Serve(c)
  PROVE  TerminalInv'
<1>1. /\ clients \in Seq(HostClients) /\ c \in 1..Len(clients) /\ shells \in Nat
      /\ shell \in 0..shells /\ (requests = 0 => shells = 0 /\ Unopened(clients))
  BY InvGives
<1>2. PICK x : x = Head(clients[c].toDaemon)
  OBVIOUS
<1>3. /\ clients[c].state = "up" /\ clients[c].toDaemon # <<>>
      /\ UNCHANGED <<cached, connecting, sessionVars, tasks, reaperVars, requests>>
  BY DEF Serve
<1>4. ASSUME NEW a \in Answers, Credible(a, shells), Replies(c, a), UNCHANGED <<shell, shells>>,
             x # "unsubscribe", x = "subscribe" => shell = 0
      PROVE  TerminalInv'
  <2>1. /\ Carries(clients, clients', shell, shell, shells) /\ Len(clients') = Len(clients)
        /\ Unopened(clients) => Unopened(clients')
    BY <1>1, <1>2, <1>3, <1>4, ReplyCarries
  <2>2. shell' = shell /\ shells' = shells
    BY <1>4
  <2>3. /\ shells' \in Nat /\ shells <= shells' /\ shell' \in 0..shells'
        /\ Carries(clients, clients', shell, shell', shells')
        /\ requests = 0 => shells' = 0 /\ Unopened(clients')
    BY <1>1, <2>1, <2>2
  <2> QED
    BY <1>3, <2>1, <2>2, <2>3, UnnoticedKeeps
<1>5. ASSUME NEW b \in BOOLEAN, Subscribing(c, b), UNCHANGED <<shell, shells>>,
             Obeyed(x, clients[c].subscribed, b)
      PROVE  TerminalInv'
  <2>1. /\ Carries(clients, clients', shell, shell, shells) /\ Len(clients') = Len(clients)
        /\ Unopened(clients) => Unopened(clients')
    BY <1>1, <1>2, <1>3, <1>5, SubscribingCarries
  <2>2. shell' = shell /\ shells' = shells
    BY <1>5
  <2>3. /\ shells' \in Nat /\ shells <= shells' /\ shell' \in 0..shells'
        /\ Carries(clients, clients', shell, shell', shells')
        /\ requests = 0 => shells' = 0 /\ Unopened(clients')
    BY <1>1, <2>1, <2>2
  <2> QED
    BY <1>3, <2>1, <2>2, <2>3, UnnoticedKeeps
<1>6. ASSUME x = "open", shells' = shells + 1, shell' = shells + 1,
             Replies(c, Answer("opened", shells + 1))
      PROVE  TerminalInv'
  <2>1. PICK a, m : a = Answer("opened", shells + 1) /\ m = shells + 1
    OBVIOUS
  <2>2. a \in Answers /\ Credible(a, m) /\ m \in Nat /\ shells <= m
    BY <1>1, <2>1, AnswerIs DEF Credible
  <2>3. Carries(clients, clients', shell, m, m) /\ Len(clients') = Len(clients)
    BY <1>1, <1>2, <1>3, <1>6, <2>1, <2>2, ReplyCarries
  <2>4. requests # 0
    <3>1. PICK e, q : e = clients[c] /\ q = e.toDaemon
      OBVIOUS
    <3>2. e \in HostClients
      BY <1>1, <3>1
    <3>3. q \in Seq(Messages) /\ Len(q) \in Nat /\ q # <<>>
      BY <1>3, <3>1, <3>2, ClientHas
    <3>4. 1 \in 1..Len(q) /\ q[1] = "open"
      BY <1>2, <1>6, <3>1, <3>3
    <3>5. ~Unopened(clients)
      BY <1>1, <3>1, <3>4 DEF Unopened
    <3> QED
      BY <1>1, <3>5
  <2>5. shell' \notin 1..shells /\ shell' \in 0..shells' /\ shells' \in Nat /\ shells <= shells'
    BY <1>1, <1>6
  <2>6. Carries(clients, clients', shell, shell', shells')
    BY <1>6, <2>1, <2>3
  <2> QED
    BY <1>3, <2>3, <2>4, <2>5, <2>6, UnnoticedKeeps
<1>7. CASE x = "list" /\ Replies(c, Answer("list", shell)) /\ UNCHANGED daemonVars
  <2>1. PICK a : a = Answer("list", shell)
    OBVIOUS
  <2>2. a \in Answers /\ Credible(a, shells)
    BY <1>1, <2>1, AnswerIs DEF Credible
  <2> QED
    BY <1>4, <1>7, <2>1, <2>2 DEF daemonVars
<1>8. CASE x = "open" /\ Replies(c, Answer("exists", 0)) /\ UNCHANGED daemonVars
  <2>1. PICK a : a = Answer("exists", 0)
    OBVIOUS
  <2>2. a \in Answers /\ Credible(a, shells)
    BY <1>1, <2>1, AnswerIs DEF Credible
  <2> QED
    BY <1>4, <1>8, <2>1, <2>2 DEF daemonVars
<1>9. CASE /\ x = "close" /\ UNCHANGED <<shell, shells>>
           /\ Replies(c, Answer(IF shell # 0 THEN "closed" ELSE "unknown", 0))
  <2>1. PICK y : y = IF shell # 0 THEN "closed" ELSE "unknown"
    OBVIOUS
  <2>2. PICK a : a = Answer(y, 0)
    OBVIOUS
  <2>3. y \in {"closed", "unknown"}
    BY <2>1
  <2>4. a \in Answers /\ Credible(a, shells)
    BY <1>1, <2>2, <2>3, AnswerIs DEF Credible
  <2>5. Replies(c, a)
    BY <1>9, <2>1, <2>2
  <2> QED
    BY <1>4, <1>9, <2>4, <2>5
<1>10. CASE /\ x = "subscribe" /\ shell # 0 /\ UNCHANGED daemonVars
            /\ clients' = [clients EXCEPT ![c].toDaemon = Tail(@), ![c].subscribed = TRUE]
  <2>1. Subscribing(c, TRUE)
    BY <1>10, Zenon DEF Subscribing
  <2>2. Obeyed(x, clients[c].subscribed, TRUE)
    BY <1>10 DEF Obeyed
  <2>3. UNCHANGED <<shell, shells>>
    BY <1>10 DEF daemonVars
  <2> QED
    BY <1>5, <2>1, <2>2, <2>3
<1>11. CASE x = "subscribe" /\ shell = 0 /\ Replies(c, Answer("unknown", 0)) /\ UNCHANGED daemonVars
  <2>1. PICK a : a = Answer("unknown", 0)
    OBVIOUS
  <2>2. a \in Answers /\ Credible(a, shells)
    BY <1>1, <2>1, AnswerIs DEF Credible
  <2> QED
    BY <1>4, <1>11, <2>1, <2>2 DEF daemonVars
<1>12. CASE /\ x = "unsubscribe" /\ UNCHANGED daemonVars
            /\ clients' = [clients EXCEPT ![c].toDaemon = Tail(@), ![c].subscribed = FALSE]
  <2>1. Subscribing(c, FALSE)
    BY <1>12, Zenon DEF Subscribing
  <2>2. Obeyed(x, clients[c].subscribed, FALSE)
    BY <1>12 DEF Obeyed
  <2>3. UNCHANGED <<shell, shells>>
    BY <1>12 DEF daemonVars
  <2> QED
    BY <1>5, <2>1, <2>2, <2>3
<1> QED
  BY <1>2, <1>6, <1>7, <1>8, <1>9, <1>10, <1>11, <1>12, Zenon DEF Serve

\* Every client changes in a way that the session survives.
LEMMA AllCarry ==
  ASSUME TerminalInv, NEW ds, ds = [i \in 1..Len(clients) |-> ds[i]], NEW sg,
         \A i \in 1..Len(clients) :
           /\ ds[i] \in HostClients /\ Plumbed(ds[i], shells) /\ Keeps(clients[i], ds[i], shell, sg)
           /\ ds[i].toDaemon = clients[i].toDaemon \/ ds[i].toDaemon = <<>>
  PROVE  /\ Carries(clients, ds, shell, sg, shells) /\ Len(ds) = Len(clients)
         /\ Unopened(clients) => Unopened(ds)
<1>1. clients \in Seq(HostClients) /\ Len(clients) \in Nat /\ DOMAIN clients = 1..Len(clients)
  BY InvGives
<1>2. PICK n : n = Len(clients)
  OBVIOUS
<1>3. ds = [i \in 1..n |-> ds[i]] /\ n \in Nat
  BY <1>1, <1>2
<1>4. ds \in [1..n -> HostClients]
  BY <1>2, <1>3
<1>5. ds \in Seq(HostClients) /\ Len(ds) = n
  BY <1>3, <1>4
<1>6. Carries(clients, ds, shell, sg, shells)
  <2>1. Len(clients) <= Len(ds) /\ \A i \in 1..Len(ds) : i \in 1..Len(clients) /\ ~(i > Len(clients))
    BY <1>1, <1>2, <1>5
  <2>2. Plumbing(ds, shells)
    BY <2>1 DEF Plumbing
  <2>3. \A i \in 1..Len(ds) : i > Len(clients) => ds[i].callbacks = {}
    BY <2>1
  <2> QED
    BY <1>5, <2>1, <2>2, <2>3 DEF Carries
<1>7. ASSUME Unopened(clients), NEW i \in 1..Len(ds), NEW j \in 1..Len(ds[i].toDaemon)
      PROVE  ds[i].toDaemon[j] # "open"
  <2>1. CASE ds[i].toDaemon = clients[i].toDaemon
    BY <1>2, <1>5, <1>7, <2>1 DEF Unopened
  <2>2. CASE ds[i].toDaemon = <<>>
    BY <1>7, <2>2
  <2> QED
    BY <1>2, <1>5, <2>1, <2>2
<1> QED
  BY <1>2, <1>5, <1>6, <1>7 DEF Unopened

LEMMA ShellEndsKeeps == ASSUME TerminalInv, ShellEnds PROVE TerminalInv'
<1>1. /\ clients \in Seq(HostClients) /\ shells \in Nat /\ Plumbing(clients, shells)
      /\ Len(clients) \in Nat /\ DOMAIN clients = 1..Len(clients)
      /\ shell \in 0..shells /\ (requests = 0 => shells = 0 /\ Unopened(clients))
  BY InvGives
<1>2. PICK ds : ds = clients'
  OBVIOUS
<1>3. PICK a : a = Answer("exit", 0)
  OBVIOUS
<1>4. a \in Answers /\ Credible(a, shells)
  BY <1>1, <1>3, AnswerIs DEF Credible
<1>5. PICK no : no = FALSE
  OBVIOUS
<1>6. ds = [c \in DOMAIN clients |->
              IF clients[c].subscribed
              THEN [clients[c] EXCEPT !.toHost = Append(@, a), !.subscribed = no]
              ELSE clients[c]]
  BY <1>2, <1>3, <1>5, Zenon DEF ShellEnds
<1>7. ASSUME NEW i \in 1..Len(clients)
      PROVE  /\ ds[i] \in HostClients /\ Plumbed(ds[i], shells) /\ Keeps(clients[i], ds[i], shell, 0)
             /\ ds[i].toDaemon = clients[i].toDaemon
  <2>1. PICK e, d : e = clients[i] /\ d = ds[i]
    OBVIOUS
  <2>2. e \in HostClients /\ Plumbed(e, shells)
    BY <1>1, <2>1 DEF Plumbing
  <2>3. d = IF e.subscribed THEN [e EXCEPT !.toHost = Append(@, a), !.subscribed = no] ELSE e
    BY <1>1, <1>6, <2>1, Zenon
  <2>4. CASE ~e.subscribed
    <3>1. d = e
      BY <2>3, <2>4, Zenon
    <3> QED
      BY <2>1, <2>2, <3>1 DEF Keeps
  <2>5. CASE e.subscribed
    <3>1. PICK r, u : r = e.toHost /\ u = Append(e.toHost, a)
      OBVIOUS
    <3>2. r \in Seq(Answers) /\ Len(r) \in Nat
      BY <2>2, <3>1, ClientHas
    <3>3. u \in Seq(Answers) /\ Len(u) = Len(r) + 1 /\ u[Len(r) + 1] = a
          /\ \A j \in 1..Len(r) : u[j] = r[j]
      BY <1>4, <3>1, <3>2
    <3>4. d = [e EXCEPT !.toHost = u, !.subscribed = no]
      BY <2>3, <2>5, <3>1, Zenon
    <3>5. no \in BOOLEAN
      BY <1>5
    <3>6. /\ d \in HostClients /\ d.state = e.state /\ d.callbacks = e.callbacks
          /\ d.subscribed = no /\ d.toDaemon = e.toDaemon /\ d.toHost = u
      BY <2>2, <3>3, <3>4, <3>5 DEF HostClients
    <3>7. \A j \in 1..Len(u) : Credible(u[j], shells)
      <4>1. \A j \in 1..Len(u) : j \in 1..Len(r) \/ j = Len(r) + 1
        BY <3>2, <3>3
      <4> QED
        BY <1>4, <2>2, <3>1, <3>3, <4>1 DEF Plumbed
    <3>8. e.state = "up" /\ ~d.subscribed
      <4>1. e.state = "up"
        BY <2>2, <2>5 DEF Plumbed
      <4> QED
        BY <1>5, <3>6, <4>1
    <3>9. Plumbed(d, shells)
      BY <3>6, <3>7, <3>8 DEF Plumbed
    <3> QED
      BY <2>1, <3>6, <3>9 DEF Keeps
  <2> QED
    BY <2>4, <2>5
<1>8. /\ Carries(clients, ds, shell, 0, shells) /\ Len(ds) = Len(clients)
      /\ Unopened(clients) => Unopened(ds)
  <2>1. ds = [i \in 1..Len(clients) |-> ds[i]]
    BY <1>1, <1>6
  <2> QED
    BY <1>1, <1>7, <2>1, AllCarry
<1>9. /\ shell' = 0 /\ shells' = shells
      /\ UNCHANGED <<cached, connecting, sessionVars, tasks, reaperVars, requests>>
  BY DEF ShellEnds
<1>10. /\ shells' \in Nat /\ shells <= shells' /\ shell' \in 0..shells' /\ shell' \notin 1..shells
       /\ Carries(clients, clients', shell, shell', shells') /\ Len(clients') = Len(clients)
       /\ requests = 0 => shells' = 0 /\ Unopened(clients')
  BY <1>1, <1>2, <1>8, <1>9
<1> QED
  BY <1>9, <1>10, UnnoticedKeeps

LEMMA DaemonRestartsKeeps == ASSUME TerminalInv, DaemonRestarts PROVE TerminalInv'
<1>1. /\ clients \in Seq(HostClients) /\ shells \in Nat /\ Plumbing(clients, shells)
      /\ Len(clients) \in Nat /\ DOMAIN clients = 1..Len(clients)
      /\ shell \in 0..shells /\ (requests = 0 => shells = 0 /\ Unopened(clients))
  BY InvGives
<1>2. PICK ds, sg : ds = clients' /\ sg = shell'
  OBVIOUS
<1>3. PICK no : no = FALSE
  OBVIOUS
<1>4. ds = [c \in DOMAIN clients |->
              IF clients[c].state = "up"
              THEN [clients[c] EXCEPT !.state = "cut", !.subscribed = no, !.toDaemon = <<>>]
              ELSE clients[c]]
  BY <1>2, <1>3, Zenon DEF DaemonRestarts
<1>5. ASSUME NEW i \in 1..Len(clients)
      PROVE  /\ ds[i] \in HostClients /\ Plumbed(ds[i], shells) /\ Keeps(clients[i], ds[i], shell, sg)
             /\ ds[i].toDaemon = clients[i].toDaemon \/ ds[i].toDaemon = <<>>
  <2>1. PICK e, d : e = clients[i] /\ d = ds[i]
    OBVIOUS
  <2>2. e \in HostClients /\ Plumbed(e, shells)
    BY <1>1, <2>1 DEF Plumbing
  <2>3. d = IF e.state = "up"
            THEN [e EXCEPT !.state = "cut", !.subscribed = no, !.toDaemon = <<>>] ELSE e
    BY <1>1, <1>4, <2>1, Zenon
  <2>4. CASE e.state # "up"
    <3>1. d = e
      BY <2>3, <2>4, Zenon
    <3> QED
      BY <2>1, <2>2, <3>1 DEF Keeps
  <2>5. CASE e.state = "up"
    <3>1. d = [e EXCEPT !.state = "cut", !.subscribed = no, !.toDaemon = <<>>]
      BY <2>3, <2>5, Zenon
    <3>2. no \in BOOLEAN /\ <<>> \in Seq(Messages)
      <4>1. no \in BOOLEAN
        BY <1>3
      <4>2. <<>> \in Seq(Messages)
        OBVIOUS
      <4> QED
        BY <4>1, <4>2
    <3>3. /\ d \in HostClients /\ d.state = "cut" /\ d.callbacks = e.callbacks
          /\ d.subscribed = no /\ d.toDaemon = <<>> /\ d.toHost = e.toHost
      BY <2>2, <3>1, <3>2 DEF HostClients
    <3>4. Plumbed(d, shells)
      BY <1>3, <2>2, <3>3 DEF Plumbed
    <3> QED
      BY <2>1, <2>5, <3>3, <3>4 DEF Keeps
  <2> QED
    BY <2>4, <2>5
<1>6. /\ Carries(clients, ds, shell, sg, shells) /\ Len(ds) = Len(clients)
      /\ Unopened(clients) => Unopened(ds)
  <2>1. ds = [i \in 1..Len(clients) |-> ds[i]]
    BY <1>1, <1>4
  <2> QED
    BY <1>1, <1>5, <2>1, AllCarry
<1>7. /\ shell' \in {shell, 0} /\ shells' = shells
      /\ UNCHANGED <<cached, connecting, sessionVars, tasks, reaperVars, requests>>
  BY DEF DaemonRestarts
<1>8. /\ shells' \in Nat /\ shells <= shells' /\ shell' \in 0..shells'
      /\ shell' = shell \/ shell' \notin 1..shells
      /\ Carries(clients, clients', shell, shell', shells') /\ Len(clients') = Len(clients)
      /\ requests = 0 => shells' = 0 /\ Unopened(clients')
  BY <1>1, <1>2, <1>6, <1>7
<1> QED
  BY <1>7, <1>8, UnnoticedKeeps

-----------------------------------------------------------------------------
\* Requests that wait, and requests that go on.

\* Only the requests change, or the clients with them.
LEMMA RequestedKeeps ==
  ASSUME TerminalInv, Requested(tasks', clients', shells),
         Carries(clients, clients', shell, shell, shells),
         cached' \in 0..Len(clients'), connecting' \in 0..Len(clients'),
         requests = 0 => Unopened(clients'),
         UNCHANGED <<shell, shells, sessionVars, reaperVars, requests>>
  PROVE  TerminalInv'
<1>1. /\ shells \in Nat /\ shell \in 0..shells /\ (requests = 0 => shells = 0)
  BY InvGives
<1>2. /\ shell' = shell /\ shells' = shells
      /\ UNCHANGED <<row, objs, current, open, aged, rowless, requests>>
  BY DEF sessionVars, reaperVars
<1>3. PICK ds, us : ds = clients' /\ us = tasks'
  OBVIOUS
<1>4. /\ us \in [AllSlots -> Tasks] /\ Tasked(us, ds, shells)
      /\ \A k \in AllSlots : us[k].kind = tasks[k].kind /\ Alike(tasks[k].phase, us[k].phase)
  BY <1>3 DEF Requested
<1>5. Requesting
  BY <1>1, <1>2, <1>3, <1>4 DEF Requesting
<1> QED
  BY <1>5, RequestingKeeps

LEMMA ForeignCloseKeeps ==
  ASSUME TerminalInv, NEW k \in AllSlots, ForeignClose(k)
  PROVE  TerminalInv'
<1>1. /\ clients \in Seq(HostClients) /\ Plumbing(clients, shells) /\ shells \in Nat
      /\ cached \in 0..Len(clients) /\ connecting \in 0..Len(clients)
      /\ requests = 0 => Unopened(clients)
  BY InvGives
<1>2. PICK t : t = tasks[k]
  OBVIOUS
<1>3. t \in Tasks /\ KindOf(t, k) /\ t.phase = "foreign"
  BY <1>2, InFlightIs DEF ForeignClose
<1>4. PICK a : /\ a \in {Failure, Answer("closed", 0)}
               /\ tasks' = [tasks EXCEPT ![k].phase = "close", ![k].answer = a]
  BY DEF ForeignClose
<1>5. a \in Answers /\ Credible(a, shells) /\ a.is \in {"failure", "closed"}
  BY <1>1, <1>4, AnswerIs DEF Credible, Failure
<1>6. PICK u : u = [t EXCEPT !.phase = "close", !.answer = a]
  OBVIOUS
<1>7. u \in Tasks /\ u.kind = t.kind /\ u.phase = "close" /\ u.adoptOnly = t.adoptOnly
      /\ u.client = t.client /\ u.answer = a
  <2>1. a \in Answers \cup {NoAnswer}
    BY <1>5
  <2> QED
    BY <1>3, <1>6, <2>1 DEF Tasks
<1>8. tasks' = Replaced(tasks, k, u)
  <2>1. tasks \in [AllSlots -> Tasks]
    BY InvGives
  <2>2. tasks' = [tasks EXCEPT ![k] = [tasks[k] EXCEPT !.phase = "close", !.answer = a]]
    BY <1>4, <2>1
  <2> QED
    BY <1>2, <1>6, <2>2 DEF Replaced
<1>9. KindOf(u, k) /\ Addressed(u, clients, shells) /\ u.kind = tasks[k].kind
      /\ Alike(tasks[k].phase, u.phase)
  BY <1>2, <1>3, <1>5, <1>7 DEF KindOf, Addressed, Alike
<1>10. Carries(clients, clients, shell, shell, shells)
  BY <1>1, KeepsItself
<1>11. Requested(tasks', clients, shells)
  BY <1>1, <1>7, <1>8, <1>9, <1>10, CarriesLasts, OneRequests
<1>12. UNCHANGED <<shell, shells, clients, cached, connecting, sessionVars, reaperVars, requests>>
  BY DEF ForeignClose, clientVars
<1>13. /\ Requested(tasks', clients', shells) /\ Carries(clients, clients', shell, shell, shells)
       /\ cached' \in 0..Len(clients') /\ connecting' \in 0..Len(clients')
       /\ requests = 0 => Unopened(clients')
  BY <1>1, <1>10, <1>11, <1>12
<1> QED
  BY <1>12, <1>13, RequestedKeeps

LEMMA TimesOutKeeps ==
  ASSUME TerminalInv, NEW k \in AllSlots, TimesOut(k)
  PROVE  TerminalInv'
<1>1. /\ clients \in Seq(HostClients) /\ Plumbing(clients, shells) /\ shells \in Nat
      /\ cached \in 0..Len(clients) /\ connecting \in 0..Len(clients)
      /\ requests = 0 => Unopened(clients)
  BY InvGives
<1>2. PICK t : t = tasks[k]
  OBVIOUS
<1>3. t \in Tasks /\ KindOf(t, k) /\ Addressed(t, clients, shells) /\ t.phase # "idle"
  BY <1>2, InFlightIs DEF TimesOut
<1>4. PICK a : a = Failure
  OBVIOUS
<1>5. a \in Answers /\ Credible(a, shells) /\ a.is = "failure"
  BY <1>1, <1>4, AnswerIs DEF Credible, Failure
<1>6. PICK u : u = [t EXCEPT !.answer = a]
  OBVIOUS
<1>7. u \in Tasks /\ u.kind = t.kind /\ u.phase = t.phase /\ u.adoptOnly = t.adoptOnly
      /\ u.client = t.client /\ u.answer = a
  BY <1>3, <1>5, <1>6, AnsweredIs
<1>8. tasks' = Replaced(tasks, k, u)
  BY <1>2, <1>4, <1>6, Zenon DEF Replaced, TimesOut
<1>9. KindOf(u, k) /\ Addressed(u, clients, shells) /\ u.kind = tasks[k].kind
      /\ Alike(tasks[k].phase, u.phase)
  BY <1>2, <1>3, <1>5, <1>7 DEF KindOf, Addressed, Alike
<1>10. Carries(clients, clients, shell, shell, shells)
  BY <1>1, KeepsItself
<1>11. Requested(tasks', clients, shells)
  BY <1>1, <1>7, <1>8, <1>9, <1>10, CarriesLasts, OneRequests
<1>12. UNCHANGED <<shell, shells, clients, cached, connecting, sessionVars, reaperVars, requests>>
  BY DEF TimesOut, clientVars, daemonVars
<1>13. /\ Requested(tasks', clients', shells) /\ Carries(clients, clients', shell, shell, shells)
       /\ cached' \in 0..Len(clients') /\ connecting' \in 0..Len(clients')
       /\ requests = 0 => Unopened(clients')
  BY <1>1, <1>10, <1>11, <1>12
<1> QED
  BY <1>12, <1>13, RequestedKeeps

\* A request that wants a client: what it is at afterwards.
Asked(t, task, ds) ==
  /\ t.kind = task.kind /\ t.adoptOnly = task.adoptOnly /\ t.answer = NoAnswer
  /\ t.phase \in {"path", "connecting", Asks(task)}
  /\ t.phase # "path" => t.client \in 1..Len(ds)

Gets(k, task) ==
  /\ Carries(clients, clients', shell, shell, shells)
  /\ cached' \in 0..Len(clients') /\ connecting' \in 0..Len(clients')
  /\ task.adoptOnly /\ Unopened(clients) => Unopened(clients')
  /\ \E t \in Tasks : tasks' = Replaced(tasks, k, t) /\ Asked(t, task, clients')

\* A request, now at phase p with client c.
AtPhase(task, p, c) == [task EXCEPT !.phase = p, !.client = c, !.answer = NoAnswer]

IsAt(t, task, p, c) ==
  /\ t \in Tasks /\ t.kind = task.kind /\ t.phase = p /\ t.client = c
  /\ t.adoptOnly = task.adoptOnly /\ t.answer = NoAnswer

LEMMA AtPhaseIs ==
  ASSUME NEW task \in Tasks, NEW c \in Nat,
         NEW p \in {"idle", "path", "connecting", "list", "open", "close", "foreign", "orphan"}
  PROVE  IsAt(AtPhase(task, p, c), task, p, c)
BY DEF AtPhase, IsAt, Tasks

LEMMA AskGets ==
  ASSUME TerminalInv, NEW k, NEW task \in Tasks, NEW c \in 1..Len(clients), Ask(k, task, c)
  PROVE  Gets(k, task)
<1>1. /\ clients \in Seq(HostClients) /\ Plumbing(clients, shells) /\ shells \in Nat
      /\ Len(clients) \in Nat /\ c \in Nat
      /\ cached \in 0..Len(clients) /\ connecting \in 0..Len(clients)
  BY InvGives
<1>2. PICK x : x = Asks(task)
  OBVIOUS
<1>3. x \in {"list", "open"} /\ (task.adoptOnly => x = "list")
  BY <1>2 DEF Asks
<1>4. x \in Messages /\ x # "unsubscribe"
  BY <1>3 DEF Messages
<1>5. PICK ds : ds = clients'
  OBVIOUS
<1>6. ds = Sent(clients, c, x)
  BY <1>2, <1>5 DEF Ask
<1>7. /\ Carries(clients, ds, shell, shell, shells) /\ Len(ds) = Len(clients)
      /\ Unopened(clients) /\ x # "open" => Unopened(ds)
  BY <1>1, <1>4, <1>6, SentCarries
<1>8. PICK t : t = AtPhase(task, x, c)
  OBVIOUS
<1>9. /\ t \in Tasks /\ t.kind = task.kind /\ t.phase = x /\ t.client = c
      /\ t.adoptOnly = task.adoptOnly /\ t.answer = NoAnswer
  <2>1. x \in {"idle", "path", "connecting", "list", "open", "close", "foreign", "orphan"}
    BY <1>3
  <2>2. IsAt(t, task, x, c)
    BY <1>1, <1>8, <2>1, AtPhaseIs
  <2> QED
    BY <2>2 DEF IsAt
<1>10. tasks' = Replaced(tasks, k, t)
  BY <1>2, <1>8, Zenon DEF Ask, Replaced, AtPhase
<1>11. Asked(t, task, ds)
  BY <1>2, <1>7, <1>9 DEF Asked
<1>12. cached' = cached /\ connecting' = connecting
  BY DEF Ask
<1>13. task.adoptOnly /\ Unopened(clients) => Unopened(ds)
  BY <1>3, <1>7
<1> QED
  BY <1>1, <1>5, <1>7, <1>9, <1>10, <1>11, <1>12, <1>13 DEF Gets

LEMMA MakeClientGets ==
  ASSUME TerminalInv, NEW k, NEW task \in Tasks, MakeClient(k, task)
  PROVE  Gets(k, task)
<1>1. /\ clients \in Seq(HostClients) /\ Plumbing(clients, shells) /\ shells \in Nat
      /\ Len(clients) \in Nat /\ cached \in 0..Len(clients)
  BY InvGives
<1>2. PICK ds, c : ds = clients' /\ c = Len(clients) + 1
  OBVIOUS
<1>3. ds = Append(clients, NewClient) /\ cached' = cached /\ connecting' = c
  BY <1>2 DEF MakeClient
<1>4. /\ Carries(clients, ds, shell, shell, shells) /\ Len(ds) = Len(clients) + 1
      /\ Unopened(clients) => Unopened(ds)
  BY <1>1, <1>3, MoreCarries
<1>5. PICK t : t = AtPhase(task, "connecting", c)
  OBVIOUS
<1>6. /\ t \in Tasks /\ t.kind = task.kind /\ t.phase = "connecting" /\ t.client = c
      /\ t.adoptOnly = task.adoptOnly /\ t.answer = NoAnswer
  <2>1. c \in Nat
    BY <1>1, <1>2
  <2>2. IsAt(t, task, "connecting", c)
    BY <1>5, <2>1, AtPhaseIs
  <2> QED
    BY <2>2 DEF IsAt
<1>7. tasks' = Replaced(tasks, k, t)
  BY <1>2, <1>5, Zenon DEF MakeClient, Replaced, AtPhase
<1>8. Asked(t, task, ds)
  BY <1>1, <1>2, <1>4, <1>6 DEF Asked
<1>9. cached' \in 0..Len(ds) /\ connecting' \in 0..Len(ds)
  BY <1>1, <1>2, <1>3, <1>4
<1> QED
  BY <1>2, <1>4, <1>6, <1>7, <1>8, <1>9 DEF Gets

LEMMA WithClientGets ==
  ASSUME TerminalInv, NEW k, NEW task \in Tasks, WithClient(k, task)
  PROVE  Gets(k, task)
<1>1. /\ clients \in Seq(HostClients) /\ Plumbing(clients, shells) /\ shells \in Nat
      /\ Len(clients) \in Nat /\ cached \in 0..Len(clients) /\ connecting \in 0..Len(clients)
  BY InvGives
<1>2. CASE cached # 0
  <2>1. Ask(k, task, cached)
    BY <1>2, Zenon DEF WithClient
  <2>2. cached \in 1..Len(clients)
    BY <1>1, <1>2
  <2> QED
    BY <2>1, <2>2, AskGets
<1>3. CASE cached = 0 /\ connecting # 0
  <2>1. PICK t : t = AtPhase(task, "connecting", connecting)
    OBVIOUS
  <2>2. connecting \in Nat
    BY <1>1
  <2>3. /\ t \in Tasks /\ t.kind = task.kind /\ t.phase = "connecting" /\ t.client = connecting
        /\ t.adoptOnly = task.adoptOnly /\ t.answer = NoAnswer
    <3>1. IsAt(t, task, "connecting", connecting)
      BY <2>1, <2>2, AtPhaseIs
    <3> QED
      BY <3>1 DEF IsAt
  <2>4. tasks' = Replaced(tasks, k, t)
    BY <1>3, <2>1, Zenon DEF WithClient, Replaced, AtPhase
  <2>5. clients' = clients /\ cached' = cached /\ connecting' = connecting
    BY <1>3 DEF WithClient, clientVars
  <2>6. Carries(clients, clients, shell, shell, shells)
    BY <1>1, KeepsItself
  <2>7. Asked(t, task, clients)
    BY <1>1, <1>3, <2>3 DEF Asked
  <2> QED
    BY <1>1, <2>3, <2>4, <2>5, <2>6, <2>7 DEF Gets
<1>4. CASE cached = 0 /\ connecting = 0 /\ ready
  <2>1. MakeClient(k, task)
    BY <1>4 DEF WithClient
  <2> QED
    BY <2>1, MakeClientGets
<1>5. CASE cached = 0 /\ connecting = 0 /\ ~ready
  <2>1. PICK t : t = [task EXCEPT !.phase = "path", !.answer = NoAnswer]
    OBVIOUS
  <2>2. /\ t \in Tasks /\ t.kind = task.kind /\ t.phase = "path"
        /\ t.adoptOnly = task.adoptOnly /\ t.answer = NoAnswer
    BY <2>1 DEF Tasks
  <2>3. tasks' = Replaced(tasks, k, t)
    BY <1>5, <2>1, Zenon DEF WithClient, Replaced
  <2>4. clients' = clients /\ cached' = cached /\ connecting' = connecting
    BY <1>5 DEF WithClient, clientVars
  <2>5. Carries(clients, clients, shell, shell, shells)
    BY <1>1, KeepsItself
  <2>6. Asked(t, task, clients)
    BY <2>2 DEF Asked
  <2> QED
    BY <1>1, <2>2, <2>3, <2>4, <2>5, <2>6 DEF Gets
<1> QED
  BY <1>2, <1>3, <1>4, <1>5

LEMMA GetsKeeps ==
  ASSUME TerminalInv, NEW k \in AllSlots, tasks[k].kind \in {"attach", "create", "reap"},
         NEW task \in Tasks, task.kind = tasks[k].kind, k = Reaper => task.adoptOnly,
         Gets(k, task), UNCHANGED <<shell, shells, sessionVars, reaperVars, requests>>
  PROVE  TerminalInv'
<1>1. PICK t \in Tasks : tasks' = Replaced(tasks, k, t) /\ Asked(t, task, clients')
  BY DEF Gets
<1>2. /\ k \in Slots \/ k = Reaper
      /\ KindOf(tasks[k], k) /\ InFlight(k)
      /\ k \in Slots => requests # 0
  BY InFlightIs
<1>3. t.phase \in {"path", "connecting", "list", "open"} /\ (k = Reaper => t.phase # "open")
  BY <1>1 DEF Asked, Asks
<1>4. PICK ds : ds = clients'
  OBVIOUS
<1>5. t.kind = tasks[k].kind /\ t.answer = NoAnswer /\ (t.phase # "path" => t.client \in 1..Len(ds))
      /\ t.adoptOnly = task.adoptOnly
  BY <1>1, <1>4 DEF Asked
<1>6. KindOf(t, k)
  BY <1>2, <1>3, <1>5 DEF KindOf
<1>7. Addressed(t, ds, shells)
  BY <1>3, <1>5 DEF Addressed
<1>8. Alike(tasks[k].phase, t.phase)
  BY <1>2, <1>3 DEF Alike, InFlight
<1>9. Carries(clients, ds, shell, shell, shells) /\ ds \in Seq(HostClients) /\ Lasts(clients, ds)
  BY <1>4, CarriesLasts DEF Gets, Carries
<1>10. shells \in Nat /\ (requests = 0 => Unopened(clients))
  BY InvGives
<1>11. Requested(Replaced(tasks, k, t), ds, shells)
  BY <1>5, <1>6, <1>7, <1>8, <1>9, <1>10, OneRequests
<1>12. requests = 0 => Unopened(ds)
  BY <1>2, <1>4, <1>10 DEF Gets
<1>13. /\ Requested(tasks', clients', shells) /\ Carries(clients, clients', shell, shell, shells)
       /\ cached' \in 0..Len(clients') /\ connecting' \in 0..Len(clients')
       /\ requests = 0 => Unopened(clients')
  BY <1>1, <1>4, <1>9, <1>11, <1>12 DEF Gets
<1> QED
  BY <1>13, RequestedKeeps

LEMMA PathKnownKeeps ==
  ASSUME TerminalInv, NEW k \in AllSlots, PathKnown(k)
  PROVE  TerminalInv'
<1>1. PICK t : t = tasks[k]
  OBVIOUS
<1>2. /\ t \in Tasks /\ KindOf(t, k) /\ t.phase = "path" /\ MakeClient(k, t)
      /\ UNCHANGED <<shell, shells, sessionVars, reaperVars, requests>>
  BY <1>1, InFlightIs DEF PathKnown, daemonVars
<1>3. /\ t.kind \in {"attach", "create", "reap"} /\ (k = Reaper => t.adoptOnly)
  <2>1. t.kind \in {"none", "attach", "create", "dispose", "reap"}
    BY <1>2, TaskHas
  <2> QED
    BY <1>2, <2>1 DEF KindOf
<1>4. Gets(k, t)
  BY <1>2, MakeClientGets
<1> QED
  BY <1>1, <1>2, <1>3, <1>4, GetsKeeps

\* A frame is taken from what a client received.
Received(cs, c) == [cs EXCEPT ![c].toHost = Tail(@)]

LEMMA ReceivingCarries ==
  ASSUME TerminalInv, NEW c \in 1..Len(clients), clients[c].toHost # <<>>,
         NEW ds, ds = Received(clients, c)
  PROVE  /\ Carries(clients, ds, shell, shell, shells) /\ Len(ds) = Len(clients)
         /\ \A i \in 1..Len(clients) : ds[i].state = clients[i].state
         /\ Unopened(clients) => Unopened(ds)
         /\ clients[c].state \in {"up", "cut"}
         /\ Head(clients[c].toHost) \in Answers /\ Credible(Head(clients[c].toHost), shells)
<1>1. PICK e, r, u : e = clients[c] /\ r = e.toHost /\ u = Tail(r)
  OBVIOUS
<1>2. /\ clients \in Seq(HostClients) /\ e \in HostClients /\ Plumbed(e, shells)
      /\ Plumbing(clients, shells) /\ shells \in Nat
  BY <1>1, InvGives DEF Plumbing
<1>3. r \in Seq(Answers) /\ Len(r) \in Nat /\ r # <<>>
  BY <1>1, <1>2, ClientHas
<1>4. /\ u \in Seq(Answers) /\ Len(u) = Len(r) - 1 /\ Len(r) >= 1
      /\ Head(r) = r[1] /\ \A i \in 1..(Len(r) - 1) : u[i] = r[i + 1]
  BY <1>1, <1>3
<1>5. PICK d : d = [e EXCEPT !.toHost = u]
  OBVIOUS
<1>6. /\ d \in HostClients /\ d.state = e.state /\ d.callbacks = e.callbacks
      /\ d.subscribed = e.subscribed /\ d.toDaemon = e.toDaemon /\ d.toHost = u
  BY <1>2, <1>4, <1>5 DEF HostClients
<1>7. e.state \in {"up", "cut"}
  <2>1. Len(r) # 0
    BY <1>3, <1>4
  <2> QED
    BY <1>1, <1>2, <2>1 DEF Plumbed
<1>8. \A i \in 1..Len(r) : Credible(r[i], shells)
  BY <1>1, <1>2 DEF Plumbed
<1>9. Head(r) \in Answers /\ Credible(Head(r), shells)
  <2>1. 1 \in 1..Len(r)
    BY <1>3, <1>4
  <2> QED
    BY <1>3, <1>4, <1>8, <2>1
<1>10. Plumbed(d, shells)
  <2>1. ASSUME NEW i \in 1..Len(u) PROVE Credible(u[i], shells)
    <3>1. i \in 1..(Len(r) - 1) /\ i + 1 \in 1..Len(r)
      BY <1>3, <1>4
    <3> QED
      BY <1>4, <1>8, <3>1
  <2> QED
    BY <1>2, <1>6, <1>7, <2>1 DEF Plumbed
<1>11. Keeps(clients[c], d, shell, shell)
  BY <1>1, <1>6 DEF Keeps
<1>12. ds = Replaced(clients, c, d)
  BY <1>1, <1>5, Zenon DEF Received, Replaced
<1>13. Carries(clients, ds, shell, shell, shells) /\ Len(ds) = Len(clients)
  BY <1>2, <1>6, <1>10, <1>11, <1>12, OneCarries
<1>14. ds[c] = d /\ \A i \in 1..Len(clients) : i # c => ds[i] = clients[i]
  BY <1>2, <1>12 DEF Replaced
<1>15. \A i \in 1..Len(clients) :
         ds[i].state = clients[i].state /\ ds[i].toDaemon = clients[i].toDaemon
  BY <1>1, <1>6, <1>14
<1>16. Unopened(clients) => Unopened(ds)
  BY <1>13, <1>15 DEF Unopened
<1> QED
  BY <1>1, <1>7, <1>9, <1>13, <1>15, <1>16

LEMMA DeliverReplyKeeps ==
  ASSUME TerminalInv, NEW c \in DOMAIN clients, Deliver(c), Head(clients[c].toHost).is # "exit"
  PROVE  TerminalInv'
<1>1. /\ clients \in Seq(HostClients) /\ c \in 1..Len(clients) /\ shells \in Nat
      /\ tasks \in [AllSlots -> Tasks]
      /\ cached \in 0..Len(clients) /\ connecting \in 0..Len(clients)
      /\ requests = 0 => Unopened(clients)
  BY InvGives
<1>2. PICK ds, us, a : ds = clients' /\ us = tasks' /\ a = Head(clients[c].toHost)
  OBVIOUS
<1>3. clients[c].toHost # <<>> /\ ds = Received(clients, c)
  BY <1>2 DEF Deliver, Received
<1>4. /\ Carries(clients, ds, shell, shell, shells) /\ Len(ds) = Len(clients)
      /\ \A i \in 1..Len(clients) : ds[i].state = clients[i].state
      /\ Unopened(clients) => Unopened(ds)
      /\ clients[c].state \in {"up", "cut"} /\ a \in Answers /\ Credible(a, shells)
  BY <1>1, <1>2, <1>3, ReceivingCarries
<1>5. PICK X : X = {k \in AllSlots : /\ tasks[k].client = c /\ tasks[k].answer = NoAnswer
                                     /\ Settles(a, tasks[k])}
  OBVIOUS
<1>6. us = [k \in AllSlots |-> IF /\ tasks[k].client = c /\ tasks[k].answer = NoAnswer
                                   /\ Settles(a, tasks[k])
                                THEN [tasks[k] EXCEPT !.answer = a] ELSE tasks[k]]
  BY <1>2, Zenon DEF Deliver
<1>7. us = [k \in AllSlots |-> IF k \in X THEN [tasks[k] EXCEPT !.answer = a] ELSE tasks[k]]
  BY <1>5, <1>6, Zenon
<1>8. \A k \in X : /\ tasks[k].phase # "idle"
                   /\ tasks[k].client \in 1..Len(ds) /\ ds[tasks[k].client].state \in {"up", "cut"}
  BY <1>1, <1>4, <1>5 DEF Settles
<1>9. Told(tasks, us, ds, shells)
  <2>1. X \in SUBSET AllSlots
    BY <1>5
  <2> QED
    BY <1>1, <1>4, <1>7, <1>8, <2>1, SomeAnswered
<1>10. ds \in Seq(HostClients) /\ Lasts(clients, ds)
  BY <1>4, CarriesLasts DEF Carries
<1>11. Requested(us, ds, shells)
  BY <1>1, <1>9, <1>10, ToldRequests
<1>12. UNCHANGED <<shell, shells, cached, connecting, sessionVars, reaperVars, requests>>
  BY DEF Deliver, daemonVars, sessionVars
<1>13. /\ Requested(tasks', clients', shells) /\ Carries(clients, clients', shell, shell, shells)
       /\ cached' \in 0..Len(clients') /\ connecting' \in 0..Len(clients')
       /\ requests = 0 => Unopened(clients')
  BY <1>1, <1>2, <1>4, <1>11, <1>12
<1> QED
  BY <1>12, <1>13, RequestedKeeps

-----------------------------------------------------------------------------
\* Steps that change the session, the row or the sockets.

\* While there is a session nobody has a request in flight.
LEMMA NobodyAsks ==
  ASSUME TerminalInv, current # 0, NEW k \in Slots
  PROVE  tasks[k].kind = "none" /\ tasks[k].phase = "idle"
<1>1. k \in AllSlots
  BY DEF AllSlots
<1>2. ~InFlight(k) /\ (InFlight(k) <=> tasks[k].kind # "none")
  BY <1>1, InFlightIs
<1> QED
  BY <1>2 DEF InFlight

LEMMA DeliverExitKeeps ==
  ASSUME TerminalInv, NEW c \in DOMAIN clients, Deliver(c), Head(clients[c].toHost).is = "exit"
  PROVE  TerminalInv'
<1>1. /\ clients \in Seq(HostClients) /\ c \in 1..Len(clients) /\ shells \in Nat
      /\ shell \in 0..shells /\ tasks \in [AllSlots -> Tasks] /\ open \subseteq Slots
      /\ objs \in Seq(HostSessions) /\ Len(objs) \in Nat /\ DOMAIN objs = 1..Len(objs)
      /\ current \in 0..Len(objs)
      /\ cached \in 0..Len(clients) /\ connecting \in 0..Len(clients)
      /\ requests \in Nat /\ (requests = 0 => shells = 0 /\ Unopened(clients))
  BY InvGives
<1>2. PICK ds, ss, cbs : ds = clients' /\ ss = objs' /\ cbs = clients[c].callbacks
  OBVIOUS
<1>3. clients[c].toHost # <<>> /\ ds = Received(clients, c)
  BY <1>2 DEF Deliver, Received
<1>4. /\ Carries(clients, ds, shell, shell, shells) /\ Len(ds) = Len(clients)
      /\ Unopened(clients) => Unopened(ds)
  BY <1>1, <1>2, <1>3, ReceivingCarries
<1>5. PICK yes : yes = TRUE
  OBVIOUS
<1>6. /\ ss = [o \in DOMAIN objs |-> IF o \in cbs THEN [objs[o] EXCEPT !.exited = yes] ELSE objs[o]]
      /\ Exited(cbs) /\ UNCHANGED tasks
  BY <1>2, <1>5, Zenon DEF Deliver
<1>7. cbs = IF current # 0 /\ objs[current].client = c THEN {current} ELSE {}
  BY <1>1, <1>2 DEF TerminalInv, Served
<1>8. UNCHANGED <<shell, shells, cached, connecting, current, open, tasks, aged, rowless, requests>>
  BY <1>6 DEF Deliver, daemonVars, reaperVars
<1>9. CASE cbs = {}
  <2>1. row' = row
    BY <1>6, <1>9 DEF Exited
  <2>2. ss = objs
    <3>1. ss = [o \in DOMAIN objs |-> objs[o]]
      BY <1>6, <1>9
    <3>2. objs = [o \in DOMAIN objs |-> objs[o]]
      BY <1>1
    <3> QED
      BY <3>1, <3>2, Zenon
  <2>3. UNCHANGED <<cached, connecting, sessionVars, tasks, reaperVars, requests>>
    BY <1>2, <1>8, <2>1, <2>2 DEF sessionVars, reaperVars
  <2>4. /\ shells' \in Nat /\ shells <= shells' /\ shell' \in 0..shells'
        /\ Carries(clients, clients', shell, shell', shells') /\ Len(clients') = Len(clients)
        /\ requests = 0 => shells' = 0 /\ Unopened(clients')
    BY <1>1, <1>2, <1>4, <1>8
  <2> QED
    BY <1>8, <2>3, <2>4, UnnoticedKeeps
<1>10. CASE cbs # {}
  <2>1. current # 0 /\ current \in 1..Len(objs) /\ cbs = {current} /\ row' = "exited"
    BY <1>1, <1>6, <1>7, <1>10 DEF Exited
  <2>2. ASSUME NEW o \in 1..Len(objs)
        PROVE  /\ ss[o] \in HostSessions /\ ss[o].client = objs[o].client
               /\ ss[o].shell = objs[o].shell /\ ss[o].unsubscribe = objs[o].unsubscribe
               /\ ss[o].sockets = objs[o].sockets /\ (o = current => ss[o].exited)
    <3>1. PICK r, s : r = objs[o] /\ s = ss[o]
      OBVIOUS
    <3>2. r \in HostSessions
      BY <1>1, <3>1
    <3>3. CASE o \in cbs
      <4>1. s = [r EXCEPT !.exited = yes]
        BY <1>1, <1>6, <3>1, <3>3, Zenon
      <4>2. yes \in BOOLEAN
        BY <1>5
      <4>3. /\ s \in HostSessions /\ s.client = r.client /\ s.shell = r.shell
            /\ s.unsubscribe = r.unsubscribe /\ s.sockets = r.sockets /\ s.exited = yes
        BY <3>2, <4>1, <4>2 DEF HostSessions
      <4> QED
        BY <1>5, <3>1, <4>3
    <3>4. CASE o \notin cbs
      <4>1. s = r
        BY <1>1, <1>6, <3>1, <3>4, Zenon
      <4> QED
        BY <2>1, <3>1, <3>2, <3>4, <4>1
    <3> QED
      BY <3>3, <3>4
  <2>3. ss \in Seq(HostSessions) /\ Len(ss) = Len(objs)
    <3>1. PICK n : n = Len(objs)
      OBVIOUS
    <3>2. DOMAIN ss = 1..n /\ ss \in [1..n -> HostSessions] /\ n \in Nat
      BY <1>1, <1>6, <2>2, <3>1
    <3> QED
      BY <3>1, <3>2
  <2>4. Served(ds, shell, shells, current, ss[current])
    <3>1. Served(clients, shell, shells, current, objs[current])
      BY DEF TerminalInv
    <3>2. Served(ds, shell, shells, current, objs[current])
      BY <1>1, <1>4, <3>1, ServedCarries
    <3> QED
      BY <2>1, <2>2, <3>2, ServedSession
  <2>5. Tasked(tasks, ds, shells)
    <3>1. ds \in Seq(HostClients) /\ Lasts(clients, ds)
      BY <1>4, CarriesLasts DEF Carries
    <3> QED
      BY <1>1, <3>1, SameRequests
  <2>6. Typed'
    <3>1. ds \in Seq(HostClients)
      BY <1>4 DEF Carries
    <3> QED
      BY <1>1, <1>2, <1>4, <1>8, <2>1, <2>3, <3>1 DEF TerminalInv, Typed
  <2>7. \A k \in Slots : tasks[k].kind = "none" /\ tasks[k].phase = "idle"
    BY <2>1, NobodyAsks
  <2>8. Control'
    <3>1. OneRequest' /\ Rowed'
      BY <1>8, <2>7 DEF OneRequest, Rowed, InFlight
    <3>2. Reaping'
      BY <1>8, <2>1, <2>7 DEF TerminalInv, Control, Reaping
    <3>3. Patient' /\ Virgin'
      BY <1>8, <2>1, <2>7 DEF TerminalInv, Control, Patient, Virgin
    <3>4. RowOfSession' /\ Viewing'
      <4>1. current' = current /\ objs'[current].exited /\ objs'[current].sockets = objs[current].sockets
        BY <1>2, <1>8, <2>1, <2>2
      <4>2. RowOfSession'
        BY <2>1, <4>1 DEF RowOfSession
      <4>3. Viewing'
        BY <1>8, <2>1, <4>1 DEF TerminalInv, Control, Viewing
      <4> QED
        BY <4>2, <4>3
    <3> QED
      BY <3>1, <3>2, <3>3, <3>4 DEF Control
  <2>9. Served(clients, shell, shells, current, objs[current])'
    BY <1>2, <1>8, <2>4
  <2>10. Tasked(tasks, clients, shells)' /\ (requests = 0 => shells = 0 /\ Unopened(clients))'
    BY <1>1, <1>2, <1>4, <1>8, <2>5
  <2> QED
    BY <2>6, <2>8, <2>9, <2>10 DEF TerminalInv
<1> QED
  BY <1>9, <1>10

LEMMA SocketClosesKeeps ==
  ASSUME TerminalInv, NEW k \in Slots, SocketCloses(k)
  PROVE  TerminalInv'
<1>1. /\ clients \in Seq(HostClients) /\ open \subseteq Slots
      /\ objs \in Seq(HostSessions) /\ Len(objs) \in Nat /\ current \in 0..Len(objs)
  BY InvGives
<1>2. /\ open' = open \ {k} /\ row' = row /\ current' = current /\ tasks' = tasks
      /\ UNCHANGED <<shell, shells, clients, cached, connecting, aged, rowless, requests>>
  BY DEF SocketCloses, daemonVars, clientVars, reaperVars
<1>3. PICK ss : ss = objs'
  OBVIOUS
<1>4. /\ ss \in Seq(HostSessions) /\ Len(ss) = Len(objs)
      /\ current # 0 => /\ ss[current].client = objs[current].client
                        /\ ss[current].shell = objs[current].shell
                        /\ ss[current].unsubscribe = objs[current].unsubscribe
                        /\ ss[current].exited = objs[current].exited
                        /\ ss[current].sockets = objs[current].sockets \ {k}
  <2>1. CASE current = 0
    BY <1>1, <1>3, <2>1 DEF SocketCloses
  <2>2. CASE current # 0
    <3>1. PICK r, s : r = objs[current] /\ s = [r EXCEPT !.sockets = r.sockets \ {k}]
      OBVIOUS
    <3>2. r \in HostSessions /\ current \in 1..Len(objs)
      BY <1>1, <2>2, <3>1
    <3>3. PICK z : z = r.sockets \ {k}
      OBVIOUS
    <3>4. z \in SUBSET Slots
      BY <3>2, <3>3 DEF HostSessions
    <3>5. /\ s \in HostSessions /\ s.client = r.client /\ s.shell = r.shell
          /\ s.unsubscribe = r.unsubscribe /\ s.exited = r.exited /\ s.sockets = z
      BY <3>1, <3>2, <3>3, <3>4 DEF HostSessions
    <3>6. ss = [objs EXCEPT ![current] = s]
      BY <1>3, <2>2, <3>1 DEF SocketCloses
    <3>7. ss \in Seq(HostSessions) /\ Len(ss) = Len(objs) /\ ss[current] = s
      BY <1>1, <3>2, <3>5, <3>6
    <3> QED
      BY <3>1, <3>3, <3>5, <3>7
  <2> QED
    BY <2>1, <2>2
<1>5. Typed'
  BY <1>1, <1>2, <1>3, <1>4 DEF TerminalInv, Typed
<1>6. Served(clients, shell, shells, current, ss[current])
  <2>1. Served(clients, shell, shells, current, objs[current])
    BY DEF TerminalInv
  <2> QED
    BY <1>4, <2>1, ServedSession
<1>7. Served(clients, shell, shells, current, objs[current])'
  BY <1>2, <1>3, <1>6
<1>8. Tasked(tasks, clients, shells)' /\ (requests = 0 => shells = 0 /\ Unopened(clients))'
  BY <1>2 DEF TerminalInv
<1>9. Control'
  <2>1. OneRequest' /\ Rowed' /\ Reaping' /\ Patient' /\ Virgin'
    BY <1>2 DEF TerminalInv, Control, OneRequest, Rowed, Reaping, Patient, Virgin, InFlight
  <2>2. RowOfSession'
    BY <1>2, <1>3, <1>4 DEF TerminalInv, Control, RowOfSession
  <2>3. Viewing'
    BY <1>2, <1>3, <1>4 DEF TerminalInv, Control, Viewing
  <2> QED
    BY <2>1, <2>2, <2>3 DEF Control
<1> QED
  BY <1>5, <1>7, <1>8, <1>9 DEF TerminalInv

\* The session is forgotten.
Forgotten(ss, o) == [ss EXCEPT ![o].sockets = {}, ![o].unsubscribe = FALSE]

LEMMA ForgottenIs ==
  ASSUME NEW ss \in Seq(HostSessions), NEW o \in 1..Len(ss)
  PROVE  Forgotten(ss, o) \in Seq(HostSessions)
<1>1. PICK no : no = FALSE
  OBVIOUS
<1>2. PICK r : r = ss[o]
  OBVIOUS
<1>3. r \in HostSessions
  BY <1>2
<1>4. PICK d : d = [r EXCEPT !.sockets = {}, !.unsubscribe = no]
  OBVIOUS
<1>5. d \in HostSessions
  <2>1. no \in BOOLEAN
    BY <1>1
  <2> QED
    BY <1>3, <1>4, <2>1 DEF HostSessions
<1>6. PICK ts : ts = [ss EXCEPT ![o].sockets = {}, ![o].unsubscribe = no]
  OBVIOUS
<1>7. ts = [ss EXCEPT ![o] = d]
  BY <1>2, <1>4, <1>6
<1>8. ts \in Seq(HostSessions)
  BY <1>5, <1>7
<1>9. Forgotten(ss, o) = ts
  BY <1>1, <1>6, Zenon DEF Forgotten
<1> QED
  BY <1>8, <1>9

LEMMA UnsubscribedIs ==
  ASSUME NEW cs, NEW o, NEW c, objs[o].client = c, objs[o].unsubscribe, cs[c].callbacks = {o}
  PROVE  Unsubscribed(cs, o) = Called(cs, c, {}, "unsubscribe")
<1>1. cs[c].callbacks \ {o} = {}
  OBVIOUS
<1> QED
  BY <1>1, Zenon DEF Unsubscribed, Called

\* The clients cs lose the session.
Quits(cs) ==
  /\ Unsubscribed(cs, current) \in Seq(HostClients) /\ Len(Unsubscribed(cs, current)) = Len(cs)
  /\ \A i \in 1..Len(cs) : Unsubscribed(cs, current)[i].state = cs[i].state
  /\ Served(Unsubscribed(cs, current), shell, shells, 0, 0)

LEMMA SessionQuits ==
  ASSUME TerminalInv, current # 0, NEW cs \in Seq(HostClients), Len(cs) = Len(clients),
         Plumbing(cs, shells), \A i \in 1..Len(cs) : cs[i].callbacks = clients[i].callbacks
  PROVE  Quits(cs)
<1>1. PICK c : c = objs[current].client
  OBVIOUS
<1>2. /\ c \in 1..Len(cs) /\ objs[current].unsubscribe
      /\ \A i \in 1..Len(cs) : cs[i].callbacks = IF c = i THEN {current} ELSE {}
  BY <1>1 DEF TerminalInv, Served
<1>3. Unsubscribed(cs, current) = Called(cs, c, {}, "unsubscribe")
  BY <1>1, <1>2, UnsubscribedIs
<1>4. \A i \in 1..Len(cs) : i # c => cs[i].callbacks = {}
  BY <1>2
<1>5. /\ Called(cs, c, {}, "unsubscribe") \in Seq(HostClients)
      /\ Len(Called(cs, c, {}, "unsubscribe")) = Len(cs)
      /\ \A i \in 1..Len(cs) : Called(cs, c, {}, "unsubscribe")[i].state = cs[i].state
      /\ Served(Called(cs, c, {}, "unsubscribe"), shell, shells, 0, 0)
  BY <1>2, <1>4, SessionLeaves
<1> QED
  BY <1>3, <1>5 DEF Quits

\* A disposal has begun.
Disposing(k, task) ==
  /\ clients' \in Seq(HostClients) /\ Len(clients') = Len(clients)
  /\ \A i \in 1..Len(clients) : clients'[i].state = clients[i].state
  /\ Served(clients', shell, shells, 0, 0)
  /\ objs' \in Seq(HostSessions) /\ current' = 0
  /\ cached' = cached /\ connecting' = connecting
  /\ open' \subseteq open /\ (current # 0 => open' = open \ objs[current].sockets)
  /\ \E t \in Tasks :
       /\ tasks' = Replaced(tasks, k, t)
       /\ t.kind = task.kind /\ t.adoptOnly = task.adoptOnly /\ t.phase \in {"foreign", "close"}
       /\ t.answer \in {NoAnswer, Answer("closed", 0)}

LEMMA StartDisposes ==
  ASSUME TerminalInv, NEW k, NEW task \in Tasks, StartDispose(k, task)
  PROVE  Disposing(k, task)
<1>1. /\ clients \in Seq(HostClients) /\ Len(clients) \in Nat /\ Plumbing(clients, shells)
      /\ shells \in Nat /\ objs \in Seq(HostSessions) /\ Len(objs) \in Nat
      /\ current \in 0..Len(objs)
  BY InvGives
<1>2. CASE current # 0
  <2>1. current \in 1..Len(objs)
    BY <1>1, <1>2
  <2>2. PICK r : r = objs[current]
    OBVIOUS
  <2>3. r \in HostSessions /\ r.client \in 1..Len(clients) /\ r.client \in Nat
    BY <1>1, <1>2, <2>1, <2>2 DEF TerminalInv, Served
  <2>4. PICK cs : cs = IF r.exited THEN clients ELSE Sent(clients, r.client, "close")
    OBVIOUS
  <2>5. /\ Carries(clients, cs, shell, shell, shells) /\ Len(cs) = Len(clients)
        /\ \A i \in 1..Len(clients) : cs[i].state = clients[i].state
    <3>1. CASE r.exited
      <4>1. cs = clients
        BY <2>4, <3>1
      <4> QED
        BY <1>1, <4>1, KeepsItself
    <3>2. CASE ~r.exited
      <4>1. PICK c, x : c = r.client /\ x = "close"
        OBVIOUS
      <4>2. cs = Sent(clients, c, x)
        BY <2>4, <3>2, <4>1
      <4>3. x \in Messages /\ x # "unsubscribe" /\ c \in 1..Len(clients)
        BY <2>3, <4>1 DEF Messages
      <4> QED
        BY <1>1, <4>2, <4>3, SentCarries
    <3> QED
      BY <3>1, <3>2
  <2>6. /\ cs \in Seq(HostClients) /\ Plumbing(cs, shells)
        /\ \A i \in 1..Len(cs) : cs[i].callbacks = clients[i].callbacks
    BY <2>5 DEF Carries, Keeps
  <2>7. Quits(cs)
    BY <1>2, <2>5, <2>6, SessionQuits
  <2>8. clients' = Unsubscribed(cs, current)
    BY <1>2, <2>2, <2>4, Zenon DEF StartDispose
  <2>9. /\ open' = open \ r.sockets /\ current' = 0 /\ cached' = cached
        /\ connecting' = connecting
    BY <1>2, <2>2 DEF StartDispose
  <2>10. objs' = Forgotten(objs, current)
    BY <1>2, Zenon DEF StartDispose, Forgotten
  <2>11. objs' \in Seq(HostSessions)
    BY <1>1, <2>1, <2>10, ForgottenIs
  <2>12. PICK a : a = IF r.exited THEN Answer("closed", 0) ELSE NoAnswer
    OBVIOUS
  <2>13. a \in {NoAnswer, Answer("closed", 0)} /\ a \in Answers \cup {NoAnswer}
    BY <2>12, AnswerIs
  <2>14. PICK t : t = [task EXCEPT !.phase = "close", !.client = r.client, !.answer = a]
    OBVIOUS
  <2>15. /\ t \in Tasks /\ t.kind = task.kind /\ t.adoptOnly = task.adoptOnly
         /\ t.phase = "close" /\ t.answer = a
    BY <2>3, <2>13, <2>14 DEF Tasks
  <2>16. tasks' = Replaced(tasks, k, t)
    BY <1>2, <2>2, <2>12, <2>14, Zenon DEF StartDispose, Replaced
  <2>17. \E u \in Tasks :
           /\ tasks' = Replaced(tasks, k, u)
           /\ u.kind = task.kind /\ u.adoptOnly = task.adoptOnly /\ u.phase \in {"foreign", "close"}
           /\ u.answer \in {NoAnswer, Answer("closed", 0)}
    BY <2>13, <2>15, <2>16
  <2>18. /\ clients' \in Seq(HostClients) /\ Len(clients') = Len(clients)
         /\ \A i \in 1..Len(clients) : clients'[i].state = clients[i].state
         /\ Served(clients', shell, shells, 0, 0)
    BY <2>5, <2>7, <2>8 DEF Quits
  <2> QED
    BY <2>2, <2>9, <2>11, <2>17, <2>18 DEF Disposing
<1>3. CASE current = 0
  <2>1. /\ clients' = clients /\ cached' = cached /\ connecting' = connecting
        /\ objs' = objs /\ current' = 0 /\ open' = open
    BY <1>3 DEF StartDispose, clientVars
  <2>2. PICK t : t = AtPhase(task, "foreign", 0)
    OBVIOUS
  <2>3. IsAt(t, task, "foreign", 0)
    BY <2>2, AtPhaseIs
  <2>4. tasks' = Replaced(tasks, k, t)
    BY <1>3, <2>2, Zenon DEF StartDispose, Replaced, AtPhase
  <2>5. Served(clients, shell, shells, 0, 0)
    <3>1. Served(clients, shell, shells, 0, objs[current])
      BY <1>3 DEF TerminalInv
    <3> QED
      BY <3>1, ServedSession
  <2>6. \E u \in Tasks :
           /\ tasks' = Replaced(tasks, k, u)
           /\ u.kind = task.kind /\ u.adoptOnly = task.adoptOnly /\ u.phase \in {"foreign", "close"}
           /\ u.answer \in {NoAnswer, Answer("closed", 0)}
    BY <2>3, <2>4 DEF IsAt
  <2> QED
    BY <1>1, <1>3, <2>1, <2>5, <2>6 DEF Disposing
<1> QED
  BY <1>2, <1>3

LEMMA DisposingGives ==
  ASSUME TerminalInv, NEW k \in AllSlots, NEW task \in Tasks, Disposing(k, task),
         \/ k \in Slots /\ task.kind = "dispose"
         \/ k = Reaper /\ task.kind = "reap" /\ task.adoptOnly,
         requests' \in Nat, UNCHANGED <<shell, shells, row, rowless>>
  PROVE  /\ Typed' /\ Served(clients, shell, shells, current, objs[current])'
         /\ Tasked(tasks, clients, shells)'
         /\ tasks'[k].kind = task.kind /\ tasks'[k].phase \in {"foreign", "close"}
         /\ \A j \in AllSlots : j # k => tasks'[j] = tasks[j]
<1>1. /\ clients \in Seq(HostClients) /\ shells \in Nat /\ shell \in 0..shells
      /\ tasks \in [AllSlots -> Tasks] /\ open \subseteq Slots
      /\ cached \in 0..Len(clients) /\ connecting \in 0..Len(clients)
  BY InvGives
<1>2. /\ clients' \in Seq(HostClients) /\ Len(clients') = Len(clients)
      /\ \A i \in 1..Len(clients) : clients'[i].state = clients[i].state
      /\ Served(clients', shell, shells, 0, 0)
      /\ objs' \in Seq(HostSessions) /\ current' = 0
      /\ cached' = cached /\ connecting' = connecting /\ open' \subseteq open
  BY DEF Disposing
<1>3. PICK t \in Tasks :
        /\ tasks' = Replaced(tasks, k, t)
        /\ t.kind = task.kind /\ t.adoptOnly = task.adoptOnly /\ t.phase \in {"foreign", "close"}
        /\ t.answer \in {NoAnswer, Answer("closed", 0)}
  BY DEF Disposing
<1>4. PICK ds, us : ds = clients' /\ us = tasks'
  OBVIOUS
<1>5. Lasts(clients, ds) /\ ds \in Seq(HostClients)
  BY <1>1, <1>2, <1>4 DEF Lasts
<1>6. Tasked(tasks, ds, shells)
  BY <1>1, <1>5, SameRequests
<1>7. KindOf(t, k)
  BY <1>3, TerminalAssumption DEF KindOf
<1>8. Addressed(t, ds, shells)
  <2>1. t.answer # NoAnswer => Credible(t.answer, shells) /\ t.answer.is = "closed"
    BY <1>1, <1>3, AnswerIs DEF Credible
  <2> QED
    BY <1>3, <2>1 DEF Addressed
<1>9. us \in [AllSlots -> Tasks] /\ Tasked(us, ds, shells)
  BY <1>1, <1>3, <1>4, <1>6, <1>7, <1>8, TaskedOne
<1>10. us[k] = t /\ \A j \in AllSlots : j # k => us[j] = tasks[j]
  BY <1>1, <1>3, <1>4 DEF Replaced
<1>11. Served(ds, shell, shells, 0, objs'[0])
  BY <1>2, <1>4, ServedSession
<1>12. Served(clients, shell, shells, current, objs[current])'
  BY <1>2, <1>4, <1>11
<1>13. Typed'
  <2>1. /\ shells' = shells /\ shell' = shell /\ row' = row /\ rowless' = rowless
        /\ row \in {"none", "active", "exited", "disposed"} /\ rowless \in BOOLEAN
    BY DEF TerminalInv, Typed
  <2>2. Len(objs') \in Nat
    BY <1>2
  <2> QED
    BY <1>1, <1>2, <1>4, <1>9, <2>1, <2>2 DEF Typed
<1> QED
  BY <1>3, <1>4, <1>9, <1>10, <1>12, <1>13

\* A request begins: without overlaps, when no other is in flight.
LEMMA BeginsGives ==
  ASSUME TerminalInv, ~Overlaps, NEW k \in Slots, Begins(k)
  PROVE  /\ k \in AllSlots /\ k # Reaper /\ k \notin open
         /\ \A j \in Slots : j \in AllSlots /\ tasks[j].kind = "none" /\ tasks[j].phase = "idle"
         /\ requests' \in Nat /\ requests' # 0 /\ aged' = aged \ {k}
<1>1. k \in AllSlots /\ k # Reaper /\ k \notin open
  BY TerminalAssumption DEF AllSlots, Begins, Free
<1>2. \A j \in Slots : j \in AllSlots /\ ~InFlight(j)
  BY DEF Begins, AllSlots
<1>3. ASSUME NEW j \in Slots PROVE tasks[j].kind = "none" /\ tasks[j].phase = "idle"
  BY <1>2, InFlightIs DEF InFlight
<1>4. requests' \in Nat /\ requests' # 0 /\ aged' = aged \ {k}
  BY InvGives DEF Begins
<1> QED
  BY <1>1, <1>2, <1>3, <1>4

LEMMA DisposeKeeps ==
  ASSUME TerminalInv, ~Overlaps, NEW k \in Slots, Dispose(k)
  PROVE  TerminalInv'
<1>1. /\ k \in AllSlots /\ k # Reaper /\ k \notin open
      /\ \A j \in Slots : j \in AllSlots /\ tasks[j].kind = "none" /\ tasks[j].phase = "idle"
      /\ requests' \in Nat /\ requests' # 0 /\ aged' = aged \ {k}
  BY BeginsGives DEF Dispose
<1>2. PICK task : task = [Idle EXCEPT !.kind = "dispose"]
  OBVIOUS
<1>3. task \in Tasks /\ task.kind = "dispose"
  BY <1>2, IdleIs DEF Tasks
<1>4. Disposing(k, task)
  <2>1. StartDispose(k, task)
    BY <1>2, Zenon DEF Dispose
  <2> QED
    BY <1>3, <2>1, StartDisposes
<1>5. UNCHANGED <<shell, shells, row, rowless>>
  BY DEF Dispose, daemonVars
<1>6. /\ Typed' /\ Served(clients, shell, shells, current, objs[current])'
      /\ Tasked(tasks, clients, shells)'
      /\ tasks'[k].kind = "dispose" /\ tasks'[k].phase \in {"foreign", "close"}
      /\ \A j \in AllSlots : j # k => tasks'[j] = tasks[j]
  BY <1>1, <1>3, <1>4, <1>5, DisposingGives
<1>7. current' = 0 /\ open' \subseteq open /\ (current # 0 => open' = open \ objs[current].sockets)
  BY <1>4 DEF Disposing
<1>8. PICK us : us = tasks'
  OBVIOUS
<1>9. /\ us[k].kind = "dispose" /\ us[k].phase \in {"foreign", "close"}
      /\ \A j \in Slots : j # k => us[j].kind = "none" /\ us[j].phase = "idle"
      /\ us[Reaper] = tasks[Reaper]
  <2>1. Reaper \in AllSlots
    BY DEF AllSlots
  <2> QED
    BY <1>1, <1>6, <1>8, <2>1
<1>10. OneRequest' /\ Rowed'
  BY <1>7, <1>8, <1>9 DEF OneRequest, Rowed, InFlight
<1>11. Reaping'
  BY <1>5, <1>7, <1>8, <1>9 DEF TerminalInv, Control, Reaping
<1>12. Patient' /\ Virgin' /\ RowOfSession'
  BY <1>1, <1>7, <1>8, <1>9 DEF Patient, Virgin, RowOfSession
<1>13. Viewing'
  <2>1. ASSUME NEW j \in open' PROVE FALSE
    <3>1. j \in open /\ j \in Slots
      BY <1>7, InvGives
    <3>2. tasks[j].kind # "attach"
      BY <1>1, <3>1
    <3> QED
      BY <1>7, <2>1, <3>1, <3>2 DEF TerminalInv, Control, Viewing
  <2> QED
    BY <2>1 DEF Viewing
<1>14. Control'
  BY <1>10, <1>11, <1>12, <1>13 DEF Control
<1> QED
  BY <1>1, <1>6, <1>14 DEF TerminalInv

LEMMA ReapKeeps ==
  ASSUME TerminalInv, Reap
  PROVE  TerminalInv'
<1>1. PICK task : task = tasks[Reaper]
  OBVIOUS
<1>2. Reaper \in AllSlots /\ Reaper \notin Slots
  BY TerminalAssumption DEF AllSlots
<1>3. task \in Tasks /\ task.phase = "orphan" /\ task.kind = "reap" /\ task.adoptOnly
  BY <1>1, <1>2, InFlightIs DEF KindOf, Reap
<1>4. Disposing(Reaper, task)
  <2>1. StartDispose(Reaper, task)
    BY <1>1 DEF Reap
  <2> QED
    BY <1>3, <2>1, StartDisposes
<1>5. UNCHANGED <<shell, shells, row, rowless, aged, requests>> /\ requests \in Nat
  BY InvGives DEF Reap, daemonVars, reaperVars
<1>6. /\ Typed' /\ Served(clients, shell, shells, current, objs[current])'
      /\ Tasked(tasks, clients, shells)'
      /\ tasks'[Reaper].kind = "reap"
      /\ \A j \in AllSlots : j # Reaper => tasks'[j] = tasks[j]
  BY <1>2, <1>3, <1>4, <1>5, DisposingGives
<1>7. current' = 0 /\ open' \subseteq open /\ (current # 0 => open' = open \ objs[current].sockets)
  BY <1>4 DEF Disposing
<1>8. PICK us : us = tasks'
  OBVIOUS
<1>9. \A j \in Slots : us[j] = tasks[j]
  BY <1>2, <1>6, <1>8 DEF AllSlots
<1>10. /\ row # "active" /\ (\A j \in Slots : tasks[j].kind # "create") /\ requests # 0
  BY <1>1, <1>3 DEF TerminalInv, Control, Reaping, Virgin
<1>11. OneRequest' /\ Rowed'
  BY <1>5, <1>7, <1>8, <1>9 DEF TerminalInv, Control, OneRequest, Rowed, InFlight
<1>12. Reaping' /\ Patient' /\ Virgin' /\ RowOfSession'
  BY <1>5, <1>7, <1>8, <1>9, <1>10 DEF Reaping, Patient, Virgin, RowOfSession
<1>13. Viewing'
  <2>1. ASSUME NEW j \in open' PROVE us[j].kind = "attach"
    <3>1. j \in open /\ j \in Slots
      BY <1>7, InvGives
    <3> QED
      BY <1>7, <1>9, <2>1, <3>1 DEF TerminalInv, Control, Viewing
  <2> QED
    BY <1>8, <2>1 DEF Viewing
<1>14. Control'
  BY <1>11, <1>12, <1>13 DEF Control
<1>15. requests' # 0
  BY <1>5, <1>10
<1> QED
  BY <1>6, <1>14, <1>15 DEF TerminalInv

LEMMA HostRestartsKeeps ==
  ASSUME TerminalInv, HostRestarts
  PROVE  TerminalInv'
<1>1. /\ clients' = <<>> /\ cached' = 0 /\ connecting' = 0 /\ objs' = <<>> /\ current' = 0
      /\ open' = {} /\ aged' = {} /\ rowless' = FALSE
      /\ UNCHANGED <<shell, shells, row, requests>>
  BY DEF HostRestarts, daemonVars
<1>2. PICK us : us = tasks'
  OBVIOUS
<1>3. PICK t : t = Idle
  OBVIOUS
<1>4. us = [k \in AllSlots |-> t]
  BY <1>2, <1>3, Zenon DEF HostRestarts
<1>5. t \in Tasks /\ t.kind = "none" /\ t.phase = "idle" /\ t.answer = NoAnswer
  BY <1>3, IdleIs
<1>6. us \in [AllSlots -> Tasks] /\ \A k \in AllSlots : us[k] = t
  BY <1>4, <1>5
<1>7. Tasked(us, <<>>, shells)
  BY <1>5, <1>6 DEF Tasked, KindOf, Addressed
<1>8. /\ shells \in Nat /\ shell \in 0..shells /\ requests \in Nat
      /\ (requests = 0 => shells = 0)
      /\ row \in {"none", "active", "exited", "disposed"}
  BY InvGives DEF TerminalInv, Typed
<1>9. Typed'
  <2>1. <<>> \in Seq(HostClients) /\ <<>> \in Seq(HostSessions) /\ Len(<<>>) = 0
    OBVIOUS
  <2>2. rowless' \in BOOLEAN
    BY <1>1
  <2> QED
    BY <1>1, <1>2, <1>6, <1>8, <2>1, <2>2 DEF Typed
<1>10. Served(clients, shell, shells, current, objs[current])'
  <2>1. ASSUME NEW s PROVE Served(<<>>, shell, shells, 0, s)
    BY DEF Served
  <2> QED
    BY <1>1, <2>1
<1>11. Unopened(clients)'
  BY <1>1 DEF Unopened
<1>12. Control'
  <2>1. Reaper \in AllSlots /\ \A k \in Slots : k \in AllSlots
    BY DEF AllSlots
  <2>2. OneRequest' /\ Rowed' /\ Reaping'
    BY <1>1, <1>2, <1>5, <1>6, <2>1 DEF OneRequest, Rowed, Reaping, InFlight
  <2>3. Patient' /\ RowOfSession' /\ Viewing'
    BY <1>1 DEF Patient, RowOfSession, Viewing
  <2>4. requests = 0 => row = "none"
    BY DEF TerminalInv, Control, Virgin
  <2>5. Virgin'
    BY <1>1, <1>2, <1>5, <1>6, <2>1, <2>4 DEF Virgin, InFlight
  <2> QED
    BY <2>2, <2>3, <2>5 DEF Control
<1>13. Tasked(tasks, clients, shells)'
  BY <1>1, <1>2, <1>7
<1> QED
  BY <1>1, <1>8, <1>9, <1>10, <1>11, <1>12, <1>13 DEF TerminalInv

LEMMA GetsGives ==
  ASSUME TerminalInv, NEW k \in AllSlots, NEW task \in Tasks, Gets(k, task),
         \/ k \in Slots /\ task.kind \in {"attach", "create"}
         \/ k = Reaper /\ task.kind = "reap" /\ task.adoptOnly,
         requests' \in Nat, UNCHANGED <<shell, shells, row, objs, current, rowless>>,
         open' \subseteq Slots
  PROVE  /\ Typed' /\ Served(clients, shell, shells, current, objs[current])'
         /\ Tasked(tasks, clients, shells)'
         /\ tasks'[k].kind = task.kind
         /\ tasks'[k].phase \in {"path", "connecting", "list", "open"}
         /\ \A j \in AllSlots : j # k => tasks'[j] = tasks[j]
<1>1. /\ clients \in Seq(HostClients) /\ shells \in Nat /\ shell \in 0..shells
      /\ tasks \in [AllSlots -> Tasks]
      /\ objs \in Seq(HostSessions) /\ current \in 0..Len(objs)
  BY InvGives
<1>2. PICK ds, us : ds = clients' /\ us = tasks'
  OBVIOUS
<1>3. PICK t \in Tasks : us = Replaced(tasks, k, t) /\ Asked(t, task, ds)
  BY <1>2 DEF Gets
<1>4. /\ Carries(clients, ds, shell, shell, shells)
      /\ cached' \in 0..Len(ds) /\ connecting' \in 0..Len(ds)
  BY <1>2 DEF Gets
<1>5. ds \in Seq(HostClients) /\ Lasts(clients, ds)
  BY <1>4, CarriesLasts DEF Carries
<1>6. Tasked(tasks, ds, shells)
  BY <1>1, <1>5, SameRequests
<1>7. /\ t.kind = task.kind /\ t.adoptOnly = task.adoptOnly /\ t.answer = NoAnswer
      /\ t.phase \in {"path", "connecting", "list", "open"}
      /\ task.adoptOnly => t.phase # "open"
      /\ t.phase # "path" => t.client \in 1..Len(ds)
  BY <1>3 DEF Asked, Asks
<1>8. KindOf(t, k) /\ Addressed(t, ds, shells)
  BY <1>7, TerminalAssumption DEF KindOf, Addressed
<1>9. us \in [AllSlots -> Tasks] /\ Tasked(us, ds, shells)
  BY <1>1, <1>3, <1>6, <1>8, TaskedOne
<1>10. us[k] = t /\ \A j \in AllSlots : j # k => us[j] = tasks[j]
  BY <1>1, <1>3 DEF Replaced
<1>11. Served(clients, shell, shells, current, objs[current])'
  <2>1. Served(clients, shell, shells, current, objs[current])
    BY DEF TerminalInv
  <2>2. Served(ds, shell, shells, current, objs[current])
    BY <1>1, <1>4, <2>1, ServedCarries
  <2> QED
    BY <1>2, <2>2
<1>12. Typed'
  <2>1. /\ shells' = shells /\ shell' = shell /\ row' = row /\ rowless' = rowless
        /\ objs' = objs /\ current' = current
        /\ row \in {"none", "active", "exited", "disposed"} /\ rowless \in BOOLEAN
    BY DEF TerminalInv, Typed
  <2> QED
    BY <1>1, <1>2, <1>4, <1>5, <1>9, <2>1 DEF Typed
<1> QED
  BY <1>2, <1>7, <1>9, <1>10, <1>11, <1>12

LEMMA ReaperPassKeeps ==
  ASSUME TerminalInv, ReaperPass
  PROVE  TerminalInv'
<1>1. PICK yes : yes = TRUE
  OBVIOUS
<1>2. PICK task : task = [Idle EXCEPT !.kind = "reap", !.adoptOnly = yes]
  OBVIOUS
<1>3. task \in Tasks /\ task.kind = "reap" /\ task.adoptOnly
  <2>1. yes \in BOOLEAN
    BY <1>1
  <2>2. task \in Tasks /\ task.kind = "reap" /\ task.adoptOnly = yes
    BY <1>2, <2>1, IdleIs DEF Tasks
  <2> QED
    BY <1>1, <2>2
<1>4. Gets(Reaper, task)
  <2>1. WithClient(Reaper, task)
    BY <1>1, <1>2, Zenon DEF ReaperPass
  <2> QED
    BY <1>3, <2>1, WithClientGets
<1>5. /\ UNCHANGED <<shell, shells, row, objs, current, open, rowless, aged, requests>>
      /\ requests \in Nat /\ open \subseteq Slots
  BY InvGives DEF ReaperPass, daemonVars, sessionVars, reaperVars
<1>6. Reaper \in AllSlots /\ Reaper \notin Slots /\ \A j \in Slots : j \in AllSlots
  BY TerminalAssumption DEF AllSlots
<1>7. /\ Typed' /\ Served(clients, shell, shells, current, objs[current])'
      /\ Tasked(tasks, clients, shells)'
      /\ tasks'[Reaper].phase \in {"path", "connecting", "list", "open"}
      /\ \A j \in AllSlots : j # Reaper => tasks'[j] = tasks[j]
  BY <1>3, <1>4, <1>5, <1>6, GetsGives
<1>8. PICK us : us = tasks'
  OBVIOUS
<1>9. \A j \in Slots : us[j] = tasks[j]
  BY <1>6, <1>7, <1>8
<1>10. rowless => \A j \in Slots : tasks[j].kind # "create"
  <2>1. ASSUME rowless, NEW j \in Slots, tasks[j].kind = "create" PROVE FALSE
    <3>1. j \in aged
      BY <2>1 DEF TerminalInv, Control, Patient
    <3>2. ~InFlight(j)
      BY <3>1 DEF ReaperPass
    <3>3. InFlight(j)
      BY <1>6, <2>1, InFlightIs
    <3> QED
      BY <3>2, <3>3
  <2> QED
    BY <2>1
<1>11. OneRequest' /\ Rowed'
  BY <1>5, <1>8, <1>9 DEF TerminalInv, Control, OneRequest, Rowed, InFlight
<1>12. Reaping' /\ Patient'
  BY <1>5, <1>7, <1>8, <1>9, <1>10 DEF Reaping, Patient
<1>13. Virgin'
  BY <1>5, <1>7, <1>8, <1>9 DEF TerminalInv, Control, Virgin, InFlight
<1>14. RowOfSession' /\ Viewing'
  <2>1. \A j \in open : us[j] = tasks[j]
    BY <1>5, <1>9
  <2> QED
    BY <1>5, <1>8, <2>1 DEF TerminalInv, Control, RowOfSession, Viewing
<1>15. Control'
  BY <1>11, <1>12, <1>13, <1>14 DEF Control
<1>16. (requests = 0 => shells = 0 /\ Unopened(clients))'
  BY <1>3, <1>4, <1>5, InvGives DEF Gets
<1> QED
  BY <1>7, <1>15, <1>16 DEF TerminalInv

\* Somebody's request, attach or create, asks for a client.
LEMMA RequestBeginsKeeps ==
  ASSUME TerminalInv, ~Overlaps, NEW k \in Slots, Begins(k), current = 0,
         NEW task \in Tasks, Gets(k, task),
         \/ task.kind = "attach" /\ row = "active" /\ open' = open \cup {k}
         \/ task.kind = "create" /\ requests = 0 /\ open' = open,
         UNCHANGED <<shell, shells, row, objs, current, rowless>>
  PROVE  TerminalInv'
<1>1. /\ k \in AllSlots /\ k # Reaper /\ k \notin open
      /\ \A j \in Slots : j \in AllSlots /\ tasks[j].kind = "none" /\ tasks[j].phase = "idle"
      /\ requests' \in Nat /\ requests' # 0 /\ aged' = aged \ {k}
  BY BeginsGives
<1>2. /\ row' = row /\ objs' = objs /\ current' = 0 /\ rowless' = rowless
      /\ open \subseteq Slots /\ open' \subseteq Slots
  BY InvGives
<1>3. /\ Typed' /\ Served(clients, shell, shells, current, objs[current])'
      /\ Tasked(tasks, clients, shells)'
      /\ tasks'[k].kind = task.kind
      /\ tasks'[k].phase \in {"path", "connecting", "list", "open"}
      /\ \A j \in AllSlots : j # k => tasks'[j] = tasks[j]
  BY <1>1, <1>2, GetsGives
<1>4. PICK us : us = tasks'
  OBVIOUS
<1>5. /\ us[k].kind = task.kind /\ us[k].phase \in {"path", "connecting", "list", "open"}
      /\ \A j \in Slots : j # k => us[j].kind = "none" /\ us[j].phase = "idle"
      /\ us[Reaper] = tasks[Reaper]
  <2>1. Reaper \in AllSlots
    BY DEF AllSlots
  <2> QED
    BY <1>1, <1>3, <1>4, <2>1
<1>6. task.kind = "create" => /\ row = "none" /\ ~rowless
                              /\ tasks[Reaper].phase \notin {"orphan", "foreign", "close"}
  BY DEF TerminalInv, Control, Virgin
<1>7. OneRequest' /\ Rowed'
  BY <1>2, <1>4, <1>5, <1>6 DEF OneRequest, Rowed, InFlight
<1>8. Reaping'
  BY <1>2, <1>4, <1>5, <1>6 DEF TerminalInv, Control, Reaping
<1>9. Patient' /\ Virgin' /\ RowOfSession'
  BY <1>1, <1>2, <1>4, <1>5, <1>6 DEF Patient, Virgin, RowOfSession
<1>10. Viewing'
  <2>1. ASSUME NEW j \in open PROVE FALSE
    <3>1. j \in Slots /\ tasks[j].kind = "none"
      BY <1>1, <1>2
    <3> QED
      BY <2>1, <3>1 DEF TerminalInv, Control, Viewing
  <2>2. ASSUME NEW j \in open' PROVE us[j].kind = "attach"
    BY <1>5, <2>1, <2>2
  <2> QED
    BY <1>4, <2>2 DEF Viewing
<1>11. Control'
  BY <1>7, <1>8, <1>9, <1>10 DEF Control
<1> QED
  BY <1>1, <1>3, <1>11 DEF TerminalInv

LEMMA CreateKeeps ==
  ASSUME TerminalInv, ~Overlaps, NEW k \in Slots, Create(k)
  PROVE  TerminalInv'
<1>1. PICK yes : yes = TRUE
  OBVIOUS
<1>2. PICK task : task = [Idle EXCEPT !.kind = "create", !.replay = yes]
  OBVIOUS
<1>3. task \in Tasks /\ task.kind = "create"
  <2>1. yes \in BOOLEAN
    BY <1>1
  <2> QED
    BY <1>2, <2>1, IdleIs DEF Tasks
<1>4. WithClient(k, task)
  BY <1>1, <1>2, Zenon DEF Create
<1>5. Gets(k, task)
  BY <1>3, <1>4, WithClientGets
<1>6. /\ Begins(k) /\ current = 0 /\ requests = 0 /\ open' = open
      /\ UNCHANGED <<shell, shells, row, objs, current, rowless>>
  BY DEF Create, daemonVars, sessionVars
<1> QED
  BY <1>3, <1>5, <1>6, RequestBeginsKeeps

LEMMA AttachKeeps ==
  ASSUME TerminalInv, ~Overlaps, NEW k \in Slots, Attach(k)
  PROVE  TerminalInv'
<1>1. Begins(k) /\ UNCHANGED <<shell, shells, row, current, rowless>>
  BY DEF Attach, daemonVars
<1>2. CASE current = 0
  <2>1. PICK yes : yes = TRUE
    OBVIOUS
  <2>2. row = "active" /\ open' = open \cup {k} /\ objs' = objs
    BY <1>2 DEF Attach, Attachable
  <2>3. PICK replay \in BOOLEAN :
          WithClient(k, [Idle EXCEPT !.kind = "attach", !.adoptOnly = yes, !.replay = replay])
    BY <1>2, <2>1, Zenon DEF Attach
  <2>4. PICK task : task = [Idle EXCEPT !.kind = "attach", !.adoptOnly = yes, !.replay = replay]
    OBVIOUS
  <2>5. task \in Tasks /\ task.kind = "attach"
    <3>1. yes \in BOOLEAN
      BY <2>1
    <3> QED
      BY <2>4, <3>1, IdleIs DEF Tasks
  <2>6. Gets(k, task)
    BY <2>3, <2>4, <2>5, WithClientGets
  <2> QED
    BY <1>1, <1>2, <2>2, <2>5, <2>6, RequestBeginsKeeps
<1>3. CASE current # 0
  <2>1. /\ k \in AllSlots /\ k # Reaper /\ k \notin open
        /\ \A j \in Slots : j \in AllSlots /\ tasks[j].kind = "none" /\ tasks[j].phase = "idle"
        /\ requests' \in Nat /\ requests' # 0 /\ aged' = aged \ {k}
    BY <1>1, BeginsGives
  <2>2. /\ clients' = clients /\ cached' = cached /\ connecting' = connecting /\ tasks' = tasks
        /\ open' = open \cup {k} /\ objs' = [objs EXCEPT ![current].sockets = @ \cup {k}]
    BY <1>3 DEF Attach, Attached, clientVars
  <2>3. /\ objs \in Seq(HostSessions) /\ Len(objs) \in Nat /\ current \in 1..Len(objs)
        /\ open \subseteq Slots
    BY <1>3, InvGives
  <2>4. PICK ss : ss = objs'
    OBVIOUS
  <2>5. PICK r, z : r = objs[current] /\ z = r.sockets \cup {k}
    OBVIOUS
  <2>6. r \in HostSessions /\ z \in SUBSET Slots
    <3>1. r \in HostSessions
      BY <2>3, <2>5
    <3>2. r.sockets \in SUBSET Slots
      BY <3>1 DEF HostSessions
    <3> QED
      BY <2>5, <3>1, <3>2
  <2>7. PICK s : s = [r EXCEPT !.sockets = z]
    OBVIOUS
  <2>8. /\ s \in HostSessions /\ s.client = r.client /\ s.shell = r.shell
        /\ s.unsubscribe = r.unsubscribe /\ s.exited = r.exited /\ s.sockets = z
    BY <2>6, <2>7 DEF HostSessions
  <2>9. ss = [objs EXCEPT ![current] = s]
    BY <2>2, <2>4, <2>5, <2>7
  <2>10. ss \in Seq(HostSessions) /\ Len(ss) = Len(objs) /\ ss[current] = s
    BY <2>3, <2>8, <2>9
  <2>11. Typed'
    BY <1>1, <2>1, <2>2, <2>3, <2>4, <2>10 DEF TerminalInv, Typed
  <2>12. Served(clients, shell, shells, current, ss[current])
    <3>1. Served(clients, shell, shells, current, r)
      BY <2>5 DEF TerminalInv
    <3> QED
      BY <2>8, <2>10, <3>1, ServedSession
  <2>13. Served(clients, shell, shells, current, objs[current])'
    BY <1>1, <2>2, <2>4, <2>12
  <2>14. Tasked(tasks, clients, shells)'
    BY <1>1, <2>2 DEF TerminalInv
  <2>15. OneRequest' /\ Rowed'
    BY <2>1, <2>2 DEF OneRequest, Rowed, InFlight
  <2>16. Reaping'
    BY <1>1, <2>1, <2>2 DEF TerminalInv, Control, Reaping
  <2>17. Patient' /\ Virgin'
    BY <2>1, <2>2 DEF Patient, Virgin
  <2>18. RowOfSession'
    BY <1>1, <2>4, <2>5, <2>8, <2>10 DEF TerminalInv, Control, RowOfSession
  <2>19. Viewing'
    BY <1>1, <1>3, <2>2, <2>4, <2>5, <2>8, <2>10 DEF TerminalInv, Control, Viewing
  <2>20. Control'
    BY <2>15, <2>16, <2>17, <2>18, <2>19 DEF Control
  <2> QED
    BY <2>1, <2>11, <2>13, <2>14, <2>20 DEF TerminalInv
<1> QED
  BY <1>2, <1>3

\* A client's connection is closed, in its table of clients.
Dropped(cs, c) ==
  [cs EXCEPT ![c].state = "down", ![c].subscribed = FALSE,
             ![c].toDaemon = <<>>, ![c].toHost = <<>>]

LEMMA DroppedIs ==
  ASSUME NEW cs \in Seq(HostClients), NEW c \in 1..Len(cs), NEW n, Plumbing(cs, n),
         NEW ds, ds = Dropped(cs, c)
  PROVE  /\ ds \in Seq(HostClients) /\ Len(ds) = Len(cs) /\ Plumbing(ds, n)
         /\ \A i \in 1..Len(cs) : ds[i].callbacks = cs[i].callbacks
         /\ Unopened(cs) => Unopened(ds)
<1>1. PICK no : no = FALSE
  OBVIOUS
<1>2. PICK e : e = cs[c]
  OBVIOUS
<1>3. e \in HostClients
  BY <1>2
<1>4. PICK d : d = [e EXCEPT !.state = "down", !.subscribed = no, !.toDaemon = <<>>, !.toHost = <<>>]
  OBVIOUS
<1>5. /\ d \in HostClients /\ d.state = "down" /\ d.callbacks = e.callbacks
      /\ d.subscribed = no /\ d.toDaemon = <<>> /\ d.toHost = <<>>
  <2>1. no \in BOOLEAN
    BY <1>1
  <2>2. <<>> \in Seq(Messages) /\ <<>> \in Seq(Answers)
    OBVIOUS
  <2> QED
    BY <1>3, <1>4, <2>1, <2>2 DEF HostClients
<1>6. PICK ts : ts = [cs EXCEPT ![c].state = "down", ![c].subscribed = no,
                                ![c].toDaemon = <<>>, ![c].toHost = <<>>]
  OBVIOUS
<1>7. ts = [cs EXCEPT ![c] = d]
  BY <1>2, <1>4, <1>6
<1>8. ds = ts
  BY <1>1, <1>6, Zenon DEF Dropped
<1>9. /\ ds \in Seq(HostClients) /\ Len(ds) = Len(cs) /\ ds[c] = d
      /\ \A i \in 1..Len(cs) : i # c => ds[i] = cs[i]
  BY <1>5, <1>7, <1>8
<1>10. Plumbed(d, n)
  BY <1>1, <1>5 DEF Plumbed
<1>11. Plumbing(ds, n)
  BY <1>9, <1>10 DEF Plumbing
<1>12. \A i \in 1..Len(cs) : ds[i].callbacks = cs[i].callbacks
  BY <1>2, <1>5, <1>9
<1>13. Len(d.toDaemon) = 0
  BY <1>5
<1>14. Unopened(cs) => Unopened(ds)
  BY <1>9, <1>13 DEF Unopened
<1> QED
  BY <1>9, <1>11, <1>12, <1>14

\* Nobody who awaits a client minds that one goes down.
LEMMA QuietTasked ==
  ASSUME TerminalInv, Quiet, NEW ds, Len(ds) = Len(clients)
  PROVE  Tasked(tasks, ds, shells)
<1>1. ASSUME NEW k \in AllSlots PROVE KindOf(tasks[k], k) /\ Addressed(tasks[k], ds, shells)
  <2>1. tasks[k].answer = NoAnswer
    BY DEF Quiet
  <2>2. KindOf(tasks[k], k) /\ Addressed(tasks[k], clients, shells)
    BY InFlightIs
  <2> QED
    BY <2>1, <2>2 DEF Addressed
<1> QED
  BY <1>1 DEF Tasked

LEMMA DropKeeps ==
  ASSUME TerminalInv, NEW c \in DOMAIN clients, Drop(c)
  PROVE  TerminalInv'
<1>1. /\ clients \in Seq(HostClients) /\ c \in 1..Len(clients) /\ Plumbing(clients, shells)
      /\ shells \in Nat /\ shell \in 0..shells /\ tasks \in [AllSlots -> Tasks]
      /\ open \subseteq Slots /\ objs \in Seq(HostSessions) /\ Len(objs) \in Nat
      /\ current \in 0..Len(objs)
      /\ cached \in 0..Len(clients) /\ connecting \in 0..Len(clients)
      /\ requests \in Nat /\ (requests = 0 => shells = 0 /\ Unopened(clients))
  BY InvGives
<1>2. PICK cs : cs = Dropped(clients, c)
  OBVIOUS
<1>3. SessionsCleared(cs)
  BY <1>2, Zenon DEF Drop, Dropped
<1>4. /\ cs \in Seq(HostClients) /\ Len(cs) = Len(clients) /\ Plumbing(cs, shells)
      /\ \A i \in 1..Len(clients) : cs[i].callbacks = clients[i].callbacks
      /\ Unopened(clients) => Unopened(cs)
  BY <1>1, <1>2, DroppedIs
<1>5. /\ Quiet
      /\ UNCHANGED <<shell, shells, connecting, row, aged, rowless, requests>>
      /\ cached' \in {0, cached}
  BY DEF Drop, daemonVars, reaperVars
<1>6. PICK ds, ss, us : ds = clients' /\ ss = objs' /\ us = tasks'
  OBVIOUS
<1>7. /\ ds \in Seq(HostClients) /\ Len(ds) = Len(clients)
      /\ Served(ds, shell, shells, 0, 0)
      /\ ss \in Seq(HostSessions) /\ current' = 0
      /\ open' \subseteq open /\ (current # 0 => open' = open \ objs[current].sockets)
      /\ requests = 0 => Unopened(ds)
  <2>1. CASE current = 0
    <3>1. ds = cs /\ ss = objs /\ open' = open /\ current' = 0
      BY <1>3, <1>6, <2>1 DEF SessionsCleared
    <3>2. \A i \in 1..Len(cs) : Plumbed(cs[i], shells) /\ cs[i].callbacks = {}
      BY <1>4, <2>1 DEF TerminalInv, Served, Plumbing
    <3>3. Served(cs, shell, shells, 0, 0)
      BY <3>2 DEF Served
    <3> QED
      BY <1>1, <1>4, <2>1, <3>1, <3>3
  <2>2. CASE current # 0
    <3>1. Quits(cs)
      BY <1>4, <2>2, SessionQuits
    <3>2. /\ ds = Unsubscribed(cs, current) /\ current' = 0
          /\ open' = open \ objs[current].sockets
      BY <1>3, <1>6, <2>2 DEF SessionsCleared
    <3>3. ss = Forgotten(objs, current)
      BY <1>3, <1>6, <2>2, Zenon DEF SessionsCleared, Forgotten
    <3>4. ss \in Seq(HostSessions)
      <4>1. current \in 1..Len(objs)
        BY <1>1, <2>2
      <4> QED
        BY <1>1, <3>3, <4>1, ForgottenIs
    <3>5. requests # 0
      BY <2>2 DEF TerminalInv, Control, Virgin
    <3> QED
      BY <1>4, <2>2, <3>1, <3>2, <3>4, <3>5 DEF Quits
  <2> QED
    BY <2>1, <2>2
<1>8. PICK a : a = Failure
  OBVIOUS
<1>9. a \in Answers /\ Credible(a, shells) /\ a.is = "failure"
  BY <1>1, <1>8, AnswerIs DEF Credible, Failure
<1>10. PICK X : X = {k \in AllSlots : /\ tasks[k].client = c
                                      /\ tasks[k].phase \in {"list", "open", "close"}}
  OBVIOUS
<1>11. us = [k \in AllSlots |-> IF k \in X THEN [tasks[k] EXCEPT !.answer = a] ELSE tasks[k]]
  BY <1>6, <1>8, <1>10, Zenon DEF Drop
<1>12. Told(tasks, us, ds, shells)
  <2>1. X \in SUBSET AllSlots /\ \A k \in X : tasks[k].phase # "idle"
    BY <1>10
  <2> QED
    BY <1>1, <1>9, <1>11, <2>1, SomeAnswered
<1>13. us \in [AllSlots -> Tasks] /\ Tasked(us, ds, shells)
  <2>1. Tasked(tasks, ds, shells)
    BY <1>5, <1>7, QuietTasked
  <2> QED
    BY <1>12, <2>1, TaskedTold DEF Told
<1>14. \A k \in AllSlots : us[k].kind = tasks[k].kind /\ us[k].phase = tasks[k].phase
  BY <1>12 DEF Told, ToldOne
<1>15. Typed'
  <2>1. row \in {"none", "active", "exited", "disposed"} /\ rowless \in BOOLEAN
    BY DEF TerminalInv, Typed
  <2>2. cached' \in 0..Len(ds) /\ connecting' \in 0..Len(ds) /\ current' \in 0..Len(ss)
    BY <1>1, <1>5, <1>7
  <2> QED
    BY <1>1, <1>5, <1>6, <1>7, <1>13, <2>1, <2>2 DEF Typed
<1>16. Served(clients, shell, shells, current, objs[current])'
  <2>1. Served(ds, shell, shells, 0, ss[0])
    BY <1>7, ServedSession
  <2> QED
    BY <1>5, <1>6, <1>7, <2>1
<1>17. Tasked(tasks, clients, shells)' /\ (requests = 0 => shells = 0 /\ Unopened(clients))'
  BY <1>1, <1>5, <1>6, <1>7, <1>13
<1>18. Reaper \in AllSlots /\ \A k \in Slots : k \in AllSlots
  BY DEF AllSlots
<1>19. OneRequest' /\ Rowed' /\ Reaping'
  BY <1>5, <1>6, <1>7, <1>14, <1>18 DEF TerminalInv, Control, OneRequest, Rowed, Reaping, InFlight
<1>20. Patient' /\ Virgin' /\ RowOfSession'
  BY <1>5, <1>6, <1>7, <1>14, <1>18
     DEF TerminalInv, Control, Patient, Virgin, RowOfSession, InFlight
<1>21. Viewing'
  <2>1. ASSUME NEW k \in open' PROVE us[k].kind = "attach"
    <3>1. k \in open /\ k \in Slots /\ us[k].kind = tasks[k].kind
      BY <1>1, <1>7, <1>14, <1>18
    <3> QED
      BY <1>7, <2>1, <3>1 DEF TerminalInv, Control, Viewing
  <2> QED
    BY <1>6, <2>1 DEF Viewing
<1>22. Control'
  BY <1>19, <1>20, <1>21 DEF Control
<1> QED
  BY <1>15, <1>16, <1>17, <1>22 DEF TerminalInv

-----------------------------------------------------------------------------
\* What an answer releases.

\* A request is over.
Over(k) == tasks' = [tasks EXCEPT ![k] = Idle]

LEMMA OverIs ==
  ASSUME TerminalInv, NEW k \in AllSlots, Over(k), NEW ds, NEW n, Tasked(tasks, ds, n)
  PROVE  /\ tasks' \in [AllSlots -> Tasks] /\ Tasked(tasks', ds, n)
         /\ tasks'[k].kind = "none" /\ tasks'[k].phase = "idle"
         /\ \A j \in AllSlots : j # k => tasks'[j] = tasks[j]
<1>1. PICK t, us : t = Idle /\ us = tasks'
  OBVIOUS
<1>2. t \in Tasks /\ t.kind = "none" /\ t.phase = "idle" /\ t.answer = NoAnswer
  BY <1>1, IdleIs
<1>3. tasks \in [AllSlots -> Tasks]
  BY InvGives
<1>4. us = Replaced(tasks, k, t)
  BY <1>1, Zenon DEF Over, Replaced
<1>5. KindOf(t, k) /\ Addressed(t, ds, n)
  BY <1>2 DEF KindOf, Addressed
<1>6. us \in [AllSlots -> Tasks] /\ Tasked(us, ds, n)
  BY <1>2, <1>3, <1>4, <1>5, TaskedOne
<1>7. us[k] = t /\ \A j \in AllSlots : j # k => us[j] = tasks[j]
  BY <1>3, <1>4 DEF Replaced
<1> QED
  BY <1>1, <1>2, <1>6, <1>7

\* A request of somebody's ends without a session: nobody is at anything then.
LEMMA EndsKeeps ==
  ASSUME TerminalInv, NEW k \in Slots, InFlight(k), Over(k),
         UNCHANGED <<shell, shells, clients, cached, connecting, objs, current, aged, rowless,
                     requests>>,
         row' = row \/ (row # "none" /\ row' = "disposed"),
         open' \subseteq open, k \notin open' \/ tasks[k].kind # "attach"
  PROVE  TerminalInv'
<1>1. k \in AllSlots /\ k # Reaper /\ Reaper \in AllSlots /\ \A j \in Slots : j \in AllSlots
  BY TerminalAssumption DEF AllSlots
<1>2. requests # 0 /\ current = 0 /\ \A j \in Slots : InFlight(j) => j = k
  BY <1>1, InFlightIs
<1>3. PICK us : us = tasks'
  OBVIOUS
<1>4. Tasked(tasks, clients, shells)
  BY DEF TerminalInv
<1>5. /\ us \in [AllSlots -> Tasks] /\ Tasked(us, clients, shells)
      /\ us[k].kind = "none" /\ us[k].phase = "idle"
      /\ \A j \in AllSlots : j # k => us[j] = tasks[j]
  BY <1>1, <1>3, <1>4, OverIs
<1>6. \A j \in Slots : us[j].kind = "none" /\ us[j].phase = "idle"
  <2>1. ASSUME NEW j \in Slots, j # k PROVE tasks[j].kind = "none" /\ tasks[j].phase = "idle"
    <3>1. ~InFlight(j) /\ (InFlight(j) <=> tasks[j].kind # "none")
      BY <1>1, <1>2, <2>1, InFlightIs
    <3> QED
      BY <3>1 DEF InFlight
  <2> QED
    BY <1>1, <1>5, <2>1
<1>7. /\ shells' = shells /\ shell' = shell /\ clients' = clients /\ cached' = cached
      /\ connecting' = connecting /\ objs' = objs /\ current' = current /\ aged' = aged
      /\ rowless' = rowless /\ requests' = requests
  OBVIOUS
<1>8. Typed'
  BY <1>3, <1>5, <1>7 DEF TerminalInv, Typed
<1>9. Served(clients, shell, shells, current, objs[current])'
  BY <1>7 DEF TerminalInv
<1>10. Tasked(tasks, clients, shells)' /\ (requests = 0 => shells = 0 /\ Unopened(clients))'
  BY <1>2, <1>3, <1>5, <1>7
<1>11. OneRequest' /\ Rowed' /\ Patient'
  BY <1>3, <1>6 DEF OneRequest, Rowed, Patient, InFlight
<1>12. Reaping'
  <2>1. us[Reaper] = tasks[Reaper]
    BY <1>1, <1>5
  <2> QED
    BY <1>2, <1>3, <1>6, <1>7, <2>1 DEF TerminalInv, Control, Reaping
<1>13. Virgin' /\ RowOfSession'
  BY <1>2, <1>7 DEF Virgin, RowOfSession
<1>14. Viewing'
  <2>1. ASSUME NEW j \in open' PROVE FALSE
    <3>1. j \in Slots /\ j \in open
      BY InvGives
    <3>2. tasks[j].kind = "attach"
      BY <1>2, <3>1 DEF TerminalInv, Control, Viewing
    <3>3. InFlight(j)
      BY <1>1, <3>1, <3>2, InFlightIs
    <3> QED
      BY <1>2, <2>1, <3>1, <3>2, <3>3
  <2> QED
    BY <2>1 DEF Viewing
<1>15. Control'
  BY <1>11, <1>12, <1>13, <1>14 DEF Control
<1> QED
  BY <1>8, <1>9, <1>10, <1>15 DEF TerminalInv

LEMMA RegisterKeeps ==
  ASSUME TerminalInv, NEW k \in Slots, tasks[k].kind \in {"attach", "create"},
         tasks[k].client \in 1..Len(clients), clients[tasks[k].client].state \in {"up", "cut"},
         NEW gen \in 1..shells, Register(k, gen),
         UNCHANGED <<shell, shells, aged, rowless, requests>>
  PROVE  TerminalInv'
<1>1. /\ clients \in Seq(HostClients) /\ Len(clients) \in Nat /\ Plumbing(clients, shells)
      /\ shells \in Nat /\ shell \in 0..shells /\ tasks \in [AllSlots -> Tasks]
      /\ open \subseteq Slots /\ objs \in Seq(HostSessions) /\ Len(objs) \in Nat
      /\ cached \in 0..Len(clients) /\ connecting \in 0..Len(clients)
  BY InvGives
<1>2. k \in AllSlots /\ k # Reaper /\ Reaper \in AllSlots /\ \A j \in Slots : j \in AllSlots
  BY TerminalAssumption DEF AllSlots
<1>3. InFlight(k) /\ requests # 0 /\ current = 0 /\ \A j \in Slots : InFlight(j) => j = k
  BY <1>2, InFlightIs
<1>4. PICK c, o, ds, ss, us :
        /\ c = tasks[k].client /\ o = Len(objs) + 1 /\ ds = clients' /\ ss = objs' /\ us = tasks'
  OBVIOUS
<1>5. /\ c \in 1..Len(clients) /\ clients[c].state \in {"up", "cut"} /\ c \in Nat
      /\ o \in Nat /\ o # 0
  BY <1>1, <1>4
<1>6. clients[c].callbacks = {}
  BY <1>3, <1>5 DEF TerminalInv, Served
<1>7. PICK yes, no : yes = TRUE /\ no = FALSE
  OBVIOUS
<1>8. PICK z : z = IF tasks[k].kind = "attach" /\ k \in open THEN {k} ELSE {}
  OBVIOUS
<1>9. PICK s : s = [client |-> c, shell |-> gen, unsubscribe |-> yes, exited |-> no, sockets |-> z]
  OBVIOUS
<1>10. ss = Append(objs, s)
  BY <1>4, <1>6, <1>7, <1>8, <1>9, Zenon DEF Register
<1>11. row' = "active" /\ current' = o /\ open' = open /\ Over(k)
       /\ cached' = cached /\ connecting' = connecting
  BY <1>4, <1>6 DEF Register, Over
<1>12. ds = Called(clients, c, {o}, "subscribe")
  <2>1. clients[c].callbacks \cup {o} = {o}
    BY <1>6
  <2>2. ds = Sent([clients EXCEPT ![c].callbacks = clients[c].callbacks \cup {o}], c, "subscribe")
    BY <1>4, <1>6, Zenon DEF Register
  <2> QED
    BY <2>1, <2>2, Zenon DEF Called
<1>13. /\ s \in HostSessions /\ s.client = c /\ s.shell = gen /\ s.unsubscribe = yes
       /\ s.exited = no /\ s.sockets = z
  <2>1. yes \in BOOLEAN /\ no \in BOOLEAN
    BY <1>7
  <2>2. z \in SUBSET Slots /\ gen \in Nat
    BY <1>1, <1>8
  <2> QED
    BY <1>5, <1>9, <2>1, <2>2 DEF HostSessions
<1>14. ss \in Seq(HostSessions) /\ Len(ss) = o /\ ss[o] = s
  BY <1>1, <1>4, <1>10, <1>13
<1>15. /\ ds \in Seq(HostClients) /\ Len(ds) = Len(clients)
       /\ \A i \in 1..Len(clients) : ds[i].state = clients[i].state
       /\ Served(ds, shell, shells, o, s)
  <2>1. Served(clients, shell, shells, 0, objs[current])
    BY <1>3 DEF TerminalInv
  <2>2. s.client = c /\ s.unsubscribe /\ s.shell \in 1..shells
    BY <1>7, <1>13
  <2>3. clients \in Seq(HostClients)
    BY <1>1
  <2> QED
    BY <1>5, <1>12, <2>1, <2>2, <2>3, SessionComes
<1>16. Tasked(tasks, ds, shells)
  <2>1. Lasts(clients, ds)
    BY <1>1, <1>15 DEF Lasts
  <2> QED
    BY <1>1, <1>15, <2>1, SameRequests
<1>17. /\ us \in [AllSlots -> Tasks] /\ Tasked(us, ds, shells)
       /\ us[k].kind = "none" /\ us[k].phase = "idle"
       /\ \A j \in AllSlots : j # k => us[j] = tasks[j]
  BY <1>2, <1>4, <1>11, <1>16, OverIs
<1>18. \A j \in Slots : us[j].kind = "none" /\ us[j].phase = "idle"
  <2>1. ASSUME NEW j \in Slots, j # k PROVE tasks[j].kind = "none" /\ tasks[j].phase = "idle"
    <3>1. ~InFlight(j) /\ (InFlight(j) <=> tasks[j].kind # "none")
      BY <1>2, <1>3, <2>1, InFlightIs
    <3> QED
      BY <3>1 DEF InFlight
  <2> QED
    BY <1>2, <1>17, <2>1
<1>19. Typed'
  <2>1. requests \in Nat /\ rowless \in BOOLEAN
    BY DEF TerminalInv, Typed
  <2>2. o \in 0..Len(ss)
    BY <1>5, <1>14
  <2> QED
    BY <1>1, <1>4, <1>11, <1>14, <1>15, <1>17, <2>1, <2>2 DEF Typed
<1>20. Served(clients, shell, shells, current, objs[current])'
  BY <1>4, <1>11, <1>14, <1>15
<1>21. Tasked(tasks, clients, shells)' /\ (requests = 0 => shells = 0 /\ Unopened(clients))'
  BY <1>3, <1>4, <1>17
<1>22. OneRequest' /\ Rowed' /\ Patient'
  BY <1>4, <1>18 DEF OneRequest, Rowed, Patient, InFlight
<1>23. Reaping'
  <2>1. us[Reaper] = tasks[Reaper]
    BY <1>2, <1>17
  <2>2. tasks[Reaper].phase \notin {"orphan", "foreign", "close"}
    BY DEF TerminalInv, Control, Reaping, Rowed
  <2> QED
    BY <1>4, <2>1, <2>2 DEF Reaping
<1>24. Virgin' /\ RowOfSession'
  BY <1>3, <1>4, <1>7, <1>11, <1>13, <1>14 DEF Virgin, RowOfSession
<1>25. Viewing'
  <2>1. ASSUME NEW j \in open PROVE j \in z
    <3>1. tasks[j].kind = "attach" /\ j \in Slots
      BY <1>1, <1>3, <2>1 DEF TerminalInv, Control, Viewing
    <3>2. InFlight(j)
      BY <1>2, <3>1, InFlightIs
    <3>3. j = k
      BY <1>3, <3>1, <3>2
    <3> QED
      BY <1>8, <2>1, <3>1, <3>3
  <2> QED
    BY <1>4, <1>5, <1>11, <1>13, <1>14, <2>1 DEF Viewing
<1>26. Control'
  BY <1>22, <1>23, <1>24, <1>25 DEF Control
<1> QED
  BY <1>19, <1>20, <1>21, <1>26 DEF TerminalInv

LEMMA FailsKeeps ==
  ASSUME TerminalInv, NEW k \in Slots, tasks[k].kind \in {"attach", "create"}, InFlight(k),
         Fails(k), UNCHANGED <<daemonVars, reaperVars, requests>>
  PROVE  TerminalInv'
<1>1. k \in AllSlots /\ k # Reaper
  BY TerminalAssumption DEF AllSlots
<1>2. current = 0 /\ tasks[k] \in Tasks
  BY <1>1, InFlightIs
<1>3. CASE GivesUp(k)
  <2>1. /\ open' = open \ {k} /\ Over(k)
        /\ UNCHANGED <<shell, shells, clients, cached, connecting, row, objs, current, aged,
                       rowless, requests>>
    BY <1>3 DEF GivesUp, Over, daemonVars, clientVars, reaperVars
  <2> QED
    BY <2>1, EndsKeeps
<1>4. CASE Respawns(k)
  <2>1. PICK yes, no : yes = TRUE /\ no = FALSE
    OBVIOUS
  <2>2. PICK t, u : t = tasks[k] /\ u = [t EXCEPT !.adoptOnly = no, !.replay = yes]
    OBVIOUS
  <2>3. WithClient(k, u) /\ UNCHANGED <<row, objs, current, open>>
    <3>1. u = [tasks[k] EXCEPT !.adoptOnly = FALSE, !.replay = TRUE]
      BY <2>1, <2>2, Zenon
    <3> QED
      BY <1>2, <1>4, <3>1 DEF Respawns
  <2>4. u \in Tasks /\ u.kind = tasks[k].kind
    <3>1. yes \in BOOLEAN /\ no \in BOOLEAN
      BY <2>1
    <3> QED
      BY <1>2, <2>2, <3>1 DEF Tasks
  <2>5. Gets(k, u)
    BY <2>3, <2>4, WithClientGets
  <2>6. UNCHANGED <<shell, shells, sessionVars, reaperVars, requests>>
    BY <2>3 DEF daemonVars, sessionVars
  <2> QED
    BY <1>1, <2>4, <2>5, <2>6, GetsKeeps
<1> QED
  BY <1>3, <1>4 DEF Fails

LEMMA GoesKeeps ==
  ASSUME TerminalInv, NEW k \in Slots, tasks[k].kind \in {"attach", "create"},
         tasks[k].answer # NoAnswer, Goes(k), UNCHANGED <<daemonVars, reaperVars, requests>>
  PROVE  TerminalInv'
<1>1. k \in AllSlots /\ k # Reaper
  BY TerminalAssumption DEF AllSlots
<1>2. PICK t, a : t = tasks[k] /\ a = t.answer
  OBVIOUS
<1>3. t \in Tasks /\ KindOf(t, k) /\ Addressed(t, clients, shells) /\ InFlight(k)
      /\ current = 0 /\ requests # 0
  BY <1>1, <1>2, InFlightIs
<1>4. /\ Credible(a, shells) /\ a \in Answers
      /\ a.is \in {"connected", "list", "opened", "exists"} =>
           t.client \in 1..Len(clients) /\ clients[t.client].state \in {"up", "cut"}
  <2>1. a \in Answers \cup {NoAnswer}
    BY <1>2, <1>3, TaskHas
  <2> QED
    BY <1>2, <1>3, <2>1 DEF Addressed
<1>5. /\ clients \in Seq(HostClients) /\ Plumbing(clients, shells) /\ shells \in Nat
      /\ cached \in 0..Len(clients) /\ connecting \in 0..Len(clients)
  BY InvGives
<1>6. ASSUME a.is = "connected", Ask(k, t, t.client), UNCHANGED <<row, objs, current, open>>
      PROVE  TerminalInv'
  <2>1. Gets(k, t)
    BY <1>3, <1>4, <1>6, AskGets
  <2>2. UNCHANGED <<shell, shells, sessionVars, reaperVars, requests>>
    BY <1>6 DEF daemonVars, sessionVars
  <2> QED
    BY <1>1, <1>2, <1>3, <2>1, <2>2, GetsKeeps
<1>7. ASSUME Register(k, a.shell), a.is = "opened" \/ (a.is = "list" /\ a.shell # 0)
      PROVE  TerminalInv'
  <2>1. a.shell \in Nat
    BY <1>4 DEF Answers
  <2>2. a.shell \in 1..shells
    BY <1>4, <1>5, <1>7, <2>1 DEF Credible
  <2>3. UNCHANGED <<shell, shells, aged, rowless, requests>>
    BY DEF daemonVars, reaperVars
  <2> QED
    BY <1>2, <1>4, <1>7, <2>2, <2>3, RegisterKeeps
<1>8. ASSUME Fails(k) PROVE TerminalInv'
  BY <1>3, <1>8, FailsKeeps
<1>9. ASSUME a.is = "exists", clients' = Sent(clients, t.client, "list"),
             tasks' = [tasks EXCEPT ![k].phase = "list", ![k].answer = NoAnswer],
             UNCHANGED <<cached, connecting, row, objs, current, open>>
      PROVE  TerminalInv'
  <2>1. PICK ds, x, c : ds = clients' /\ x = "list" /\ c = t.client
    OBVIOUS
  <2>2. x \in Messages /\ x # "unsubscribe" /\ c \in 1..Len(clients) /\ ds = Sent(clients, c, x)
    BY <1>4, <1>9, <2>1 DEF Messages
  <2>3. Carries(clients, ds, shell, shell, shells) /\ Len(ds) = Len(clients)
    BY <1>5, <2>2, SentCarries
  <2>4. ds \in Seq(HostClients) /\ Lasts(clients, ds)
    BY <2>3, CarriesLasts DEF Carries
  <2>5. PICK u : u = [t EXCEPT !.phase = "list", !.answer = NoAnswer]
    OBVIOUS
  <2>6. /\ u \in Tasks /\ u.kind = t.kind /\ u.phase = "list" /\ u.client = t.client
        /\ u.answer = NoAnswer
    BY <1>3, <2>5 DEF Tasks
  <2>7. tasks' = Replaced(tasks, k, u)
    <3>1. tasks \in [AllSlots -> Tasks]
      BY InvGives
    <3>2. tasks' = [tasks EXCEPT ![k] = [tasks[k] EXCEPT !.phase = "list", !.answer = NoAnswer]]
      BY <1>1, <1>9, <3>1
    <3> QED
      BY <1>2, <2>5, <3>2 DEF Replaced
  <2>8. /\ KindOf(u, k) /\ Addressed(u, ds, shells) /\ u.kind = tasks[k].kind
        /\ Alike(tasks[k].phase, u.phase)
    BY <1>1, <1>2, <1>3, <2>1, <2>2, <2>3, <2>6 DEF KindOf, Addressed, Alike, InFlight
  <2>9. Requested(tasks', ds, shells)
    BY <1>1, <1>5, <2>4, <2>6, <2>7, <2>8, OneRequests
  <2>10. UNCHANGED <<shell, shells, sessionVars, reaperVars, requests>>
    BY <1>9 DEF daemonVars, sessionVars
  <2>11. /\ Requested(tasks', clients', shells) /\ Carries(clients, clients', shell, shell, shells)
         /\ cached' \in 0..Len(clients') /\ connecting' \in 0..Len(clients')
         /\ requests = 0 => Unopened(clients')
    BY <1>3, <1>5, <1>9, <2>1, <2>3, <2>9
  <2> QED
    BY <2>10, <2>11, RequestedKeeps
<1> QED
  BY <1>2, <1>6, <1>7, <1>8, <1>9 DEF Goes

LEMMA DisposedKeeps ==
  ASSUME TerminalInv, NEW k \in Slots, tasks[k].kind = "dispose",
         tasks[k].answer # NoAnswer, Disposed(k), UNCHANGED <<daemonVars, reaperVars, requests>>
  PROVE  TerminalInv'
<1>1. k \in AllSlots
  BY DEF AllSlots
<1>2. InFlight(k)
  BY <1>1, InFlightIs
<1>3. /\ open' = open /\ Over(k) /\ tasks[k].kind # "attach"
      /\ row' = row \/ (row # "none" /\ row' = "disposed")
      /\ UNCHANGED <<shell, shells, clients, cached, connecting, objs, current, aged,
                     rowless, requests>>
  BY DEF Disposed, Over, daemonVars, clientVars, reaperVars
<1> QED
  BY <1>2, <1>3, EndsKeeps

\* The reaper has looked at the shell, or is through with it.
LEMMA ReaperTurns ==
  ASSUME TerminalInv, NEW t \in Tasks, KindOf(t, Reaper), t.answer = NoAnswer,
         t.phase \in {"idle", "orphan"}, tasks' = Replaced(tasks, Reaper, t),
         UNCHANGED <<shell, shells, clients, cached, connecting, objs, current, open, requests>>,
         row' = row \/ (row \notin {"none", "active"} /\ row' = "disposed" /\ current = 0),
         rowless' \in BOOLEAN, t.phase = "orphan" \/ rowless' => requests # 0,
         t.phase = "orphan" => row' # "active" /\ \A k \in Slots : tasks[k].kind # "create",
         rowless' => \A k \in Slots : tasks[k].kind = "create" => k \in aged'
  PROVE  TerminalInv'
<1>1. Reaper \in AllSlots /\ Reaper \notin Slots /\ \A k \in Slots : k \in AllSlots
  BY TerminalAssumption DEF AllSlots
<1>2. PICK us : us = tasks'
  OBVIOUS
<1>3. tasks \in [AllSlots -> Tasks] /\ Tasked(tasks, clients, shells)
  BY DEF TerminalInv, Typed
<1>4. Addressed(t, clients, shells)
  BY DEF Addressed
<1>5. us \in [AllSlots -> Tasks] /\ Tasked(us, clients, shells)
  BY <1>1, <1>2, <1>3, <1>4, TaskedOne
<1>6. us[Reaper] = t /\ \A k \in Slots : us[k] = tasks[k]
  BY <1>1, <1>2, <1>3 DEF Replaced
<1>7. /\ shells' = shells /\ shell' = shell /\ clients' = clients /\ cached' = cached
      /\ connecting' = connecting /\ objs' = objs /\ current' = current /\ open' = open
      /\ requests' = requests
  OBVIOUS
<1>8. Typed'
  BY <1>2, <1>5, <1>7 DEF TerminalInv, Typed
<1>9. /\ Served(clients, shell, shells, current, objs[current])'
      /\ Tasked(tasks, clients, shells)' /\ (requests = 0 => shells = 0 /\ Unopened(clients))'
  BY <1>2, <1>5, <1>7 DEF TerminalInv
<1>10. OneRequest' /\ Rowed'
  BY <1>2, <1>6, <1>7 DEF TerminalInv, Control, OneRequest, Rowed, InFlight
<1>11. Reaping'
  BY <1>2, <1>6 DEF Reaping
<1>12. Patient'
  <2>1. ASSUME rowless', NEW k \in Slots, us[k].kind = "create"
        PROVE  k \in aged' /\ us[Reaper].phase = "idle"
    BY <1>6, <2>1
  <2> QED
    BY <1>2, <2>1 DEF Patient, InFlight
<1>13. Virgin' /\ RowOfSession'
  BY <1>2, <1>6, <1>7 DEF TerminalInv, Control, Virgin, RowOfSession, InFlight
<1>14. Viewing'
  <2>1. \A k \in open : us[k] = tasks[k]
    BY <1>6, InvGives
  <2> QED
    BY <1>2, <1>7, <2>1 DEF TerminalInv, Control, Viewing
<1>15. Control'
  BY <1>10, <1>11, <1>12, <1>13, <1>14 DEF Control
<1> QED
  BY <1>8, <1>9, <1>15 DEF TerminalInv

LEMMA ReapsKeeps ==
  ASSUME TerminalInv, tasks[Reaper].kind = "reap", tasks[Reaper].answer # NoAnswer, Reaps,
         UNCHANGED <<daemonVars, requests>>
  PROVE  TerminalInv'
<1>1. Reaper \in AllSlots /\ Reaper \notin Slots
  BY TerminalAssumption DEF AllSlots
<1>2. PICK t, a : t = tasks[Reaper] /\ a = t.answer
  OBVIOUS
<1>3. /\ t \in Tasks /\ KindOf(t, Reaper) /\ Addressed(t, clients, shells) /\ InFlight(Reaper)
      /\ t.adoptOnly
  BY <1>1, <1>2, InFlightIs DEF KindOf
<1>4. /\ Credible(a, shells) /\ a \in Answers
      /\ a.is = "connected" => t.client \in 1..Len(clients)
  <2>1. a \in Answers \cup {NoAnswer}
    BY <1>2, <1>3, TaskHas
  <2> QED
    BY <1>2, <1>3, <2>1 DEF Addressed
<1>5. PICK i : i = Idle
  OBVIOUS
<1>6. /\ i \in Tasks /\ KindOf(i, Reaper) /\ i.answer = NoAnswer /\ i.phase = "idle"
  BY <1>5, IdleIs DEF KindOf
<1>7. shell' = shell /\ shells' = shells /\ requests' = requests /\ rowless \in BOOLEAN
      /\ shells \in Nat
  BY DEF daemonVars, TerminalInv, Typed
<1>8. rowless => requests # 0 /\ \A k \in Slots : tasks[k].kind # "create"
  BY <1>3 DEF TerminalInv, Control, Patient, Virgin
<1>9. ASSUME a.is = "connected", Ask(Reaper, t, t.client),
             UNCHANGED <<row, objs, current, open, reaperVars>>
      PROVE  TerminalInv'
  <2>1. Gets(Reaper, t)
    BY <1>3, <1>4, <1>9, AskGets
  <2>2. UNCHANGED <<shell, shells, sessionVars, reaperVars, requests>>
    BY <1>7, <1>9 DEF sessionVars
  <2> QED
    BY <1>1, <1>2, <1>3, <2>1, <2>2, GetsKeeps
<1>10. ASSUME NEW listed, listed = (a.is = "list" /\ a.shell # 0), a.is = "list",
              tasks' = [tasks EXCEPT ![Reaper] =
                IF IsOrphan(listed) THEN [@ EXCEPT !.phase = "orphan", !.answer = NoAnswer]
                                    ELSE Idle],
              rowless' = (listed /\ row = "none"), aged' = {k \in Slots : InFlight(k)},
              UNCHANGED <<clientVars, row, objs, current, open>>
       PROVE  TerminalInv'
  <2>1. PICK u : u = IF IsOrphan(listed) THEN [t EXCEPT !.phase = "orphan", !.answer = NoAnswer]
                     ELSE i
    OBVIOUS
  <2>2. tasks' = Replaced(tasks, Reaper, u)
    BY <1>2, <1>5, <1>10, <2>1, Zenon DEF Replaced
  <2>3. IsOrphan(listed) => requests # 0 /\ row # "active" /\ \A k \in Slots : tasks[k].kind # "create"
    <3>1. IsOrphan(listed) => row \in {"disposed", "exited"} \/ rowless
      BY DEF IsOrphan
    <3>2. row \in {"disposed", "exited"} => /\ requests # 0
                                            /\ \A k \in Slots : tasks[k].kind # "create"
      BY DEF TerminalInv, Control, Virgin, Rowed
    <3>3. IsOrphan(listed) => row # "active"
      BY DEF IsOrphan
    <3> QED
      BY <1>8, <3>1, <3>2, <3>3
  <2>4. a.is = "list" /\ a.shell # 0 => requests # 0
    <3>1. a.shell \in Nat /\ a.shell <= shells /\ (requests = 0 => shells = 0)
      BY <1>4, InvGives DEF Answers, Credible
    <3> QED
      BY <1>7, <3>1
  <2>5. rowless' \in BOOLEAN /\ (rowless' => requests # 0)
    BY <1>10, <2>4
  <2>6. /\ u \in Tasks /\ KindOf(u, Reaper) /\ u.answer = NoAnswer
        /\ u.phase \in {"idle", "orphan"} /\ (u.phase = "orphan" => IsOrphan(listed))
    <3>1. CASE IsOrphan(listed)
      <4>1. u = [t EXCEPT !.phase = "orphan", !.answer = NoAnswer]
        BY <2>1, <3>1
      <4>2. /\ u \in Tasks /\ u.phase = "orphan" /\ u.answer = NoAnswer /\ u.kind = t.kind
            /\ u.adoptOnly = t.adoptOnly
        BY <1>3, <4>1 DEF Tasks
      <4>3. KindOf(u, Reaper)
        BY <1>2, <1>3, <4>2 DEF KindOf
      <4> QED
        BY <3>1, <4>2, <4>3
    <3>2. CASE ~IsOrphan(listed)
      <4>1. u = i
        BY <2>1, <3>2
      <4> QED
        BY <1>6, <4>1
    <3> QED
      BY <3>1, <3>2
  <2>7. ASSUME NEW k \in Slots, tasks[k].kind = "create" PROVE k \in aged'
    <3>1. InFlight(k)
      BY <2>7, InFlightIs DEF AllSlots
    <3> QED
      BY <1>10, <3>1
  <2>8. /\ row' = row
        /\ UNCHANGED <<shell, shells, clients, cached, connecting, objs, current, open, requests>>
    BY <1>7, <1>10 DEF clientVars
  <2> QED
    BY <2>2, <2>3, <2>5, <2>6, <2>7, <2>8, ReaperTurns
<1>11. ASSUME Over(Reaper), UNCHANGED <<clientVars, row, objs, current, open, reaperVars>>
       PROVE  TerminalInv'
  <2>1. tasks' = Replaced(tasks, Reaper, i)
    BY <1>5, <1>11 DEF Over, Replaced
  <2>2. /\ row' = row /\ rowless' = rowless
        /\ UNCHANGED <<shell, shells, clients, cached, connecting, objs, current, open, requests>>
    BY <1>7, <1>11 DEF clientVars, reaperVars
  <2> QED
    BY <1>6, <1>7, <1>8, <2>1, <2>2, ReaperTurns
<1>12. ASSUME t.phase = "close", Disposed(Reaper), rowless' = (rowless /\ a = Failure)
       PROVE  TerminalInv'
  <2>1. tasks' = Replaced(tasks, Reaper, i)
    BY <1>5, <1>12 DEF Disposed, Replaced
  <2>2. row # "active" /\ current = 0
    BY <1>2, <1>12 DEF TerminalInv, Control, Reaping
  <2>3. row' = row \/ (row \notin {"none", "active"} /\ row' = "disposed" /\ current = 0)
    BY <1>12, <2>2 DEF Disposed
  <2>4. rowless' \in BOOLEAN /\ (rowless' => rowless)
    BY <1>12
  <2>5. UNCHANGED <<shell, shells, clients, cached, connecting, objs, current, open, requests>>
    BY <1>7, <1>12 DEF Disposed, clientVars
  <2> QED
    BY <1>6, <1>8, <2>1, <2>3, <2>4, <2>5, ReaperTurns
<1> QED
  BY <1>2, <1>9, <1>10, <1>11, <1>12 DEF Reaps, Over

LEMMA ContinueKeeps ==
  ASSUME TerminalInv, NEW k \in AllSlots, Continue(k)
  PROVE  TerminalInv'
<1>1. k \in Slots \/ k = Reaper
  BY InFlightIs
<1>2. KindOf(tasks[k], k)
  BY InFlightIs
<1>3. tasks[k].answer # NoAnswer /\ UNCHANGED <<daemonVars, requests>>
  BY DEF Continue
<1>4. CASE tasks[k].kind \in {"attach", "create"} /\ Goes(k) /\ UNCHANGED reaperVars
  <2>1. k \in Slots
    BY <1>1, <1>2, <1>4 DEF KindOf
  <2> QED
    BY <1>3, <1>4, <2>1, GoesKeeps
<1>5. CASE tasks[k].kind = "dispose" /\ Disposed(k) /\ UNCHANGED reaperVars
  <2>1. k \in Slots
    BY <1>1, <1>2, <1>5 DEF KindOf
  <2> QED
    BY <1>3, <1>5, <2>1, DisposedKeeps
<1>6. CASE tasks[k].kind = "reap" /\ Reaps
  <2>1. k = Reaper
    BY <1>1, <1>2, <1>6, TerminalAssumption DEF KindOf
  <2> QED
    BY <1>3, <1>6, <2>1, ReapsKeeps
<1> QED
  BY <1>4, <1>5, <1>6 DEF Continue

-----------------------------------------------------------------------------
\* The invariant, and the properties.

LEMMA TerminalStarts == TerminalInit => TerminalInv
<1> SUFFICES ASSUME TerminalInit PROVE TerminalInv
  OBVIOUS
<1>1. /\ shell = 0 /\ shells = 0 /\ row = "none" /\ clients = <<>> /\ cached = 0
      /\ connecting = 0 /\ objs = <<>> /\ current = 0 /\ open = {} /\ rowless = FALSE
      /\ requests = 0
  BY DEF TerminalInit
<1>2. PICK t : t = Idle
  OBVIOUS
<1>3. t \in Tasks /\ t.kind = "none" /\ t.phase = "idle" /\ t.answer = NoAnswer
  BY <1>2, IdleIs
<1>4. tasks \in [AllSlots -> Tasks] /\ \A k \in AllSlots : tasks[k] = t
  <2>1. tasks = [k \in AllSlots |-> t]
    BY <1>2, Zenon DEF TerminalInit
  <2> QED
    BY <1>3, <2>1
<1>5. Reaper \in AllSlots /\ \A k \in Slots : k \in AllSlots
  BY DEF AllSlots
<1>6. Typed
  <2>1. <<>> \in Seq(HostClients) /\ <<>> \in Seq(HostSessions) /\ Len(<<>>) = 0
    OBVIOUS
  <2>2. rowless \in BOOLEAN
    BY <1>1
  <2> QED
    BY <1>1, <1>4, <2>1, <2>2 DEF Typed
<1>7. Served(clients, shell, shells, current, objs[current]) /\ Unopened(clients)
  BY <1>1 DEF Served, Unopened
<1>8. Tasked(tasks, clients, shells)
  BY <1>3, <1>4 DEF Tasked, KindOf, Addressed
<1>9. OneRequest /\ Rowed /\ Reaping /\ Virgin
  BY <1>1, <1>3, <1>4, <1>5 DEF OneRequest, Rowed, Reaping, Virgin, InFlight
<1>10. Patient /\ RowOfSession /\ Viewing
  BY <1>1 DEF Patient, RowOfSession, Viewing
<1> QED
  BY <1>1, <1>6, <1>7, <1>8, <1>9, <1>10 DEF TerminalInv, Control

LEMMA TerminalStutters ==
  ASSUME TerminalInv, UNCHANGED terminalVars
  PROVE  TerminalInv'
<1>1. /\ shell' = shell /\ shells' = shells /\ row' = row /\ clients' = clients
      /\ cached' = cached /\ connecting' = connecting /\ objs' = objs /\ current' = current
      /\ tasks' = tasks /\ open' = open /\ aged' = aged /\ rowless' = rowless
      /\ requests' = requests
  BY DEF terminalVars, daemonVars, clientVars, sessionVars, reaperVars
<1>2. Typed' /\ Served(clients, shell, shells, current, objs[current])'
      /\ Tasked(tasks, clients, shells)'
      /\ (requests = 0 => shells = 0 /\ Unopened(clients))'
  BY <1>1 DEF TerminalInv, Typed
<1>3. Control'
  BY <1>1 DEF TerminalInv, Control, OneRequest, Rowed, Reaping, Patient, Virgin, RowOfSession,
              Viewing, InFlight
<1> QED
  BY <1>2, <1>3 DEF TerminalInv

LEMMA TerminalSteps ==
  ASSUME ~Overlaps, TerminalInv, [TerminalNext]_terminalVars
  PROVE  TerminalInv'
<1>1. CASE Boot \/ ShellEnds \/ ReaperPass \/ Reap \/ DaemonRestarts \/ HostRestarts
  BY <1>1, BootKeeps, ShellEndsKeeps, ReaperPassKeeps, ReapKeeps, DaemonRestartsKeeps,
     HostRestartsKeeps
<1>2. ASSUME NEW k \in Slots, Attach(k) \/ Create(k) \/ Dispose(k) \/ SocketCloses(k)
      PROVE  TerminalInv'
  BY <1>2, AttachKeeps, CreateKeeps, DisposeKeeps, SocketClosesKeeps
<1>3. ASSUME NEW k \in AllSlots, PathKnown(k) \/ ForeignClose(k) \/ Continue(k) \/ TimesOut(k)
      PROVE  TerminalInv'
  BY <1>3, PathKnownKeeps, ForeignCloseKeeps, ContinueKeeps, TimesOutKeeps
<1>4. ASSUME NEW c \in DOMAIN clients,
             \/ Connected(c) \/ ConnectFails(c) \/ Serve(c) \/ Deliver(c) \/ Drop(c)
      PROVE  TerminalInv'
  <2>1. CASE Deliver(c)
    BY <2>1, DeliverExitKeeps, DeliverReplyKeeps
  <2> QED
    BY <1>4, <2>1, ConnectedKeeps, ConnectFailsKeeps, ServeKeeps, DropKeeps
<1>5. CASE UNCHANGED terminalVars
  BY <1>5, TerminalStutters
<1> QED
  BY <1>1, <1>2, <1>3, <1>4, <1>5 DEF TerminalNext

\* While requests do not overlap before there is a session, the invariant below holds
\* of a terminal at the host-service, whatever its shell, its daemon, its connections,
\* its reaper and its sockets do (terminal.ts, DaemonClient.ts, reaper.ts).
THEOREM TerminalSafety ==
  ASSUME ~Overlaps
  PROVE  TerminalSpec => []TerminalInv
<1>1. TerminalInit => TerminalInv
  BY TerminalStarts
<1>2. TerminalInv /\ [TerminalNext]_terminalVars => TerminalInv'
  BY TerminalSteps
<1> QED
  BY <1>1, <1>2, PTL DEF TerminalSpec

\* The invariant says more than the property: `Feeds` looks at the order in which
\* subscribes and unsubscribes are queued, the property only at their presence.
LEMMA ServesViewers ==
  ASSUME TerminalInv
  PROVE  ViewersAreServed
<1>1. LiveSessionIsActive
  BY DEF TerminalInv, Control, RowOfSession, LiveSessionIsActive
<1>2. ASSUME NEW k \in open, ~InFlight(k)
      PROVE  /\ current # 0
             /\ k \in objs[current].sockets
             /\ LET c == objs[current].client IN
                /\ current \in clients[c].callbacks
                /\ clients[c].state \in {"up", "cut"}
                /\ clients[c].state = "up" /\ shell = objs[current].shell
                   => \/ clients[c].subscribed
                      \/ \E i \in DOMAIN clients[c].toDaemon :
                           clients[c].toDaemon[i] = "subscribe"
  <2>1. k \in AllSlots
    BY InvGives DEF AllSlots
  <2>2. current # 0 /\ k \in objs[current].sockets
    <3>1. tasks[k].kind = "none"
      BY <1>2, <2>1, InFlightIs
    <3> QED
      BY <3>1 DEF TerminalInv, Control, Viewing
  <2>3. PICK c : c = objs[current].client
    OBVIOUS
  <2>4. /\ c \in 1..Len(clients) /\ clients[c].callbacks = {current}
        /\ clients[c].state \in {"up", "cut"}
        /\ clients[c].state = "up" /\ shell = objs[current].shell
             => Feeds(clients[c].subscribed, clients[c].toDaemon)
    BY <2>2, <2>3 DEF TerminalInv, Served
  <2>5. PICK q : q = clients[c].toDaemon
    OBVIOUS
  <2>6. DOMAIN q = 1..Len(q)
    <3>1. clients[c] \in HostClients
      BY <2>4, InvGives
    <3>2. q \in Seq(Messages)
      BY <2>5, <3>1, ClientHas
    <3> QED
      BY <3>2
  <2>7. Feeds(clients[c].subscribed, q) =>
          clients[c].subscribed \/ \E i \in DOMAIN q : q[i] = "subscribe"
    BY <2>6 DEF Feeds
  <2> QED
    BY <2>2, <2>3, <2>4, <2>5, <2>7
<1> QED
  BY <1>1, <1>2 DEF ViewersAreServed

\* Whoever views the terminal is attached to the session `sessions` holds, and that
\* session gets what its shell prints as long as the shell lives and its connection is
\* not cut (terminal.ts:1059-1222, 1339-1429).
THEOREM ViewersStayServed ==
  ASSUME ~Overlaps
  PROVE  TerminalSpec => []ViewersAreServed
<1>1. TerminalSpec => []TerminalInv
  BY TerminalSafety
<1>2. TerminalInv => ViewersAreServed
  BY ServesViewers
<1> QED
  BY <1>1, <1>2, PTL

\* A row that says the terminal was disposed of goes on saying so.
LEMMA StaysDisposed ==
  ASSUME TerminalInv, [TerminalNext]_terminalVars, row = "disposed"
  PROVE  row' = "disposed"
<1>1. ASSUME row' = row PROVE row' = "disposed"
  BY <1>1
<1>2. CASE Boot \/ ShellEnds \/ ReaperPass \/ Reap \/ DaemonRestarts \/ HostRestarts
  BY <1>1, <1>2 DEF Boot, ShellEnds, ReaperPass, Reap, DaemonRestarts, HostRestarts, sessionVars
<1>3. ASSUME NEW k \in Slots, Attach(k) \/ Create(k) \/ Dispose(k) \/ SocketCloses(k)
      PROVE  row' = "disposed"
  BY <1>1, <1>3 DEF Attach, Create, Dispose, SocketCloses, sessionVars
<1>4. ASSUME NEW k \in AllSlots, PathKnown(k) \/ ForeignClose(k) \/ TimesOut(k)
      PROVE  row' = "disposed"
  BY <1>1, <1>4 DEF PathKnown, ForeignClose, TimesOut, sessionVars
<1>5. ASSUME NEW k \in AllSlots, Continue(k)
      PROVE  row' = "disposed"
  <2>1. tasks[k].kind \notin {"attach", "create"}
    <3>1. ASSUME tasks[k].kind \in {"attach", "create"} PROVE k \in Slots
      BY <3>1, InFlightIs DEF KindOf
    <3> QED
      BY <3>1 DEF TerminalInv, Control, Rowed
  <2>2. ASSUME NEW j, Disposed(j) PROVE row' = "disposed"
    BY <1>1, <2>2 DEF Disposed
  <2>3. CASE tasks[k].kind = "dispose" /\ Disposed(k)
    BY <2>2, <2>3
  <2>4. CASE Reaps
    BY <1>1, <2>2, <2>4 DEF Reaps
  <2> QED
    BY <1>5, <2>1, <2>3, <2>4 DEF Continue
<1>6. ASSUME NEW c \in DOMAIN clients, Connected(c) \/ ConnectFails(c) \/ Serve(c) \/ Drop(c)
      PROVE  row' = "disposed"
  BY <1>1, <1>6 DEF Connected, ConnectFails, Serve, Drop, sessionVars
<1>7. ASSUME NEW c \in DOMAIN clients, Deliver(c) PROVE row' = "disposed"
  <2>1. current = 0
    BY DEF TerminalInv, Control, RowOfSession
  <2>2. clients[c].callbacks = {}
    <3>1. c \in 1..Len(clients)
      BY InvGives
    <3> QED
      BY <2>1, <3>1 DEF TerminalInv, Served
  <2> QED
    BY <1>1, <1>7, <2>2 DEF Deliver, Exited
<1>8. CASE UNCHANGED terminalVars
  BY <1>1, <1>8 DEF terminalVars, sessionVars
<1> QED
  BY <1>2, <1>3, <1>4, <1>5, <1>6, <1>7, <1>8 DEF TerminalNext

\* A terminal that was disposed of stays so: neither an exit that comes late, nor an
\* attach or a pass of the reaper that was under way, brings its row back
\* (terminal.ts:1059-1222, 1339-1429; reaper.ts).  Without overlapping requests the
\* exception for a terminal that is created anew never applies.
THEOREM DisposalIsFinal ==
  ASSUME ~Overlaps
  PROVE  TerminalSpec => DisposeIsFinal
<1>1. TerminalSpec => []TerminalInv
  BY TerminalSafety
<1>2. TerminalInv /\ [TerminalNext]_terminalVars =>
        [row = "disposed" => \/ row' = "disposed"
                             \/ \E k \in Slots : tasks[k].kind = "create"]_terminalVars
  BY StaysDisposed
<1> QED
  BY <1>1, <1>2, PTL DEF TerminalSpec, DisposeIsFinal

=============================================================================
