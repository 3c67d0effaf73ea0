-------------------------- MODULE RelayTunnelProofs --------------------------
(***************************************************************************)
(* Proofs about RelayTunnel, for any machines and bounds.                  *)
(*                                                                         *)
(* What keeps a host from waiting on a socket that serves nothing is that  *)
(* a register in progress owns its socket (RegistersWait): nobody else     *)
(* ends it, so when the directory answers, the socket is where it was, and *)
(* the tunnel it replaces is the only other one its machine serves.        *)
(***************************************************************************)
EXTENDS RelayTunnel, SequenceTheorems, TLAPS

Stages == {"arriving", "writing", "served", "over"}
Socket == [at : Machines, host : {"open", "gone"}, stage : Stages,
           relay : {"open", "closing", "closed"}]
Call == [op : {"register", "unregister"}, at : Machines, of : Nat]
Write == [is : BOOLEAN, version : Nat, attempt : 1..MaxAttempts]
Timer == [is : BOOLEAN, version : Nat]

SocketTypes ==
  /\ mine \in Nat /\ mine <= Len(sockets)
  /\ sockets \in Seq(Socket)
  /\ tunnel \in [Machines -> Nat]
  /\ machine \in [Machines -> {"up", "draining", "down"}]
  /\ calls \subseteq Call
  /\ \A c \in calls : c.of <= Len(sockets)

DirectoryTypes == dir \in Machines \cup {None} /\ fresh \in BOOLEAN

OnlineTypes ==
  /\ shown \in [Machines -> BOOLEAN]
  /\ timer \in [Machines -> Timer \cup {None}]
  /\ version \in [Machines -> Nat]
  /\ writes \in [Machines -> Seq(Write)]
  /\ online \in BOOLEAN

TunnelsServe ==
  \A m \in Machines :
    tunnel[m] # 0 => /\ tunnel[m] \in Sockets
                     /\ sockets[tunnel[m]].at = m
                     /\ sockets[tunnel[m]].stage = "served"

\* A register in progress owns its socket, and a socket in it has its register.
RegistersWait ==
  /\ \A c \in calls :
       c.op = "register" /\ c.of # 0 =>
         /\ sockets[c.of].stage = "writing"
         /\ sockets[c.of].at = c.at
  /\ \A k \in Sockets :
       sockets[k].stage = "writing" =>
         [op |-> "register", at |-> sockets[k].at, of |-> k] \in calls

Net == SocketTypes /\ TunnelsServe /\ RegistersWait /\ NoDanglingSocket

IInv == Net /\ DirectoryTypes /\ OnlineTypes

-----------------------------------------------------------------------------
\* What the handlers do to a socket.

\* One socket becomes x.
LEMMA Edited ==
  ASSUME NEW ss \in Seq(Socket), NEW k \in DOMAIN ss, NEW x \in Socket,
         NEW tt, tt = [ss EXCEPT ![k] = x]
  PROVE  /\ tt \in Seq(Socket)
         /\ Len(tt) = Len(ss)
         /\ DOMAIN tt = DOMAIN ss
         /\ tt[k] = x
         /\ \A j \in DOMAIN ss : j # k => tt[j] = ss[j]
  OBVIOUS

\* Its register moves on.
Staged(ss, tt, k, st) ==
  /\ tt \in Seq(Socket)
  /\ Len(tt) = Len(ss)
  /\ DOMAIN tt = DOMAIN ss
  /\ tt[k].stage = st
  /\ tt[k].at = ss[k].at
  /\ tt[k].relay = ss[k].relay
  /\ \A j \in DOMAIN ss : j # k => tt[j] = ss[j]

LEMMA StageMoves ==
  ASSUME NEW ss \in Seq(Socket), NEW k \in DOMAIN ss, NEW st \in Stages,
         NEW tt, tt = [ss EXCEPT ![k].stage = st]
  PROVE  Staged(ss, tt, k, st)
<1> DEFINE x == [ss[k] EXCEPT !.stage = st]
<1>1. ss[k] \in Socket
  OBVIOUS
<1>2. x \in Socket /\ x.stage = st /\ x.at = ss[k].at /\ x.relay = ss[k].relay
  BY <1>1 DEF Socket
<1>3. tt = [ss EXCEPT ![k] = x]
  OBVIOUS
<1> HIDE DEF x
<1>4. /\ tt \in Seq(Socket) /\ Len(tt) = Len(ss) /\ DOMAIN tt = DOMAIN ss
      /\ tt[k] = x
      /\ \A j \in DOMAIN ss : j # k => tt[j] = ss[j]
  BY <1>2, <1>3, Edited
<1> QED
  BY <1>2, <1>4 DEF Staged

\* The relay's end moves on.
LEMMA RelayMoves ==
  ASSUME NEW ss \in Seq(Socket), NEW k \in DOMAIN ss, NEW tt,
         \/ tt = [ss EXCEPT ![k].relay = "closing"]
         \/ tt = [ss EXCEPT ![k].relay = "closed"]
  PROVE  /\ tt \in Seq(Socket)
         /\ Len(tt) = Len(ss)
         /\ DOMAIN tt = DOMAIN ss
         /\ tt[k].relay # "open"
         /\ tt[k].at = ss[k].at
         /\ tt[k].stage = ss[k].stage
         /\ \A j \in DOMAIN ss : j # k => tt[j] = ss[j]
<1>0. PICK r \in {"closing", "closed"} : tt = [ss EXCEPT ![k].relay = r]
  OBVIOUS
<1> DEFINE x == [ss[k] EXCEPT !.relay = r]
<1>1. ss[k] \in Socket
  OBVIOUS
<1>2. x \in Socket /\ x.relay = r /\ x.at = ss[k].at /\ x.stage = ss[k].stage
  BY <1>1 DEF Socket
<1>3. tt = [ss EXCEPT ![k] = x]
  BY <1>0
<1> HIDE DEF x
<1>4. /\ tt \in Seq(Socket) /\ Len(tt) = Len(ss) /\ DOMAIN tt = DOMAIN ss
      /\ tt[k] = x
      /\ \A j \in DOMAIN ss : j # k => tt[j] = ss[j]
  BY <1>2, <1>3, Edited
<1> QED
  BY <1>2, <1>4

\* The host's end is gone.
LEMMA HostMoves ==
  ASSUME NEW ss \in Seq(Socket), NEW k \in DOMAIN ss,
         NEW tt, tt = [ss EXCEPT ![k].host = "gone"]
  PROVE  /\ tt \in Seq(Socket)
         /\ Len(tt) = Len(ss)
         /\ DOMAIN tt = DOMAIN ss
         /\ \A j \in DOMAIN ss : /\ tt[j].at = ss[j].at
                                 /\ tt[j].stage = ss[j].stage
                                 /\ tt[j].relay = ss[j].relay
<1> DEFINE x == [ss[k] EXCEPT !.host = "gone"]
<1>1. ss[k] \in Socket
  OBVIOUS
<1>2. x \in Socket /\ x.at = ss[k].at /\ x.stage = ss[k].stage /\ x.relay = ss[k].relay
  BY <1>1 DEF Socket
<1>3. tt = [ss EXCEPT ![k] = x]
  OBVIOUS
<1> HIDE DEF x
<1>4. /\ tt \in Seq(Socket) /\ Len(tt) = Len(ss) /\ DOMAIN tt = DOMAIN ss
      /\ tt[k] = x
      /\ \A j \in DOMAIN ss : j # k => tt[j] = ss[j]
  BY <1>2, <1>3, Edited
<1> QED
  BY <1>2, <1>4

\* A socket that is closed, if any, is not open any more, and the others are
\* what they were.
LEMMA ClosingCloses ==
  ASSUME NEW ss \in Seq(Socket), NEW k \in 0..Len(ss)
  PROVE  LET tt == Closing(ss, k)
         IN  /\ tt \in Seq(Socket)
             /\ Len(tt) = Len(ss)
             /\ DOMAIN tt = DOMAIN ss
             /\ k # 0 => tt[k].relay # "open"
             /\ \A j \in DOMAIN ss : /\ tt[j].at = ss[j].at
                                     /\ tt[j].stage = ss[j].stage
                                     /\ tt[j].relay = "open" => ss[j].relay = "open"
                                     /\ j # k => tt[j] = ss[j]
<1> DEFINE tt == Closing(ss, k)
<1>0. tt = Closing(ss, k)
  OBVIOUS
<1> HIDE DEF tt
<1> SUFFICES /\ tt \in Seq(Socket)
             /\ Len(tt) = Len(ss)
             /\ DOMAIN tt = DOMAIN ss
             /\ k # 0 => tt[k].relay # "open"
             /\ \A j \in DOMAIN ss : /\ tt[j].at = ss[j].at
                                     /\ tt[j].stage = ss[j].stage
                                     /\ tt[j].relay = "open" => ss[j].relay = "open"
                                     /\ j # k => tt[j] = ss[j]
  BY DEF tt
<1>1. CASE k # 0 /\ ss[k].relay = "open"
  <2>1. k \in DOMAIN ss /\ tt = [ss EXCEPT ![k].relay = "closing"]
    BY <1>0, <1>1 DEF Closing
  <2>2. /\ tt \in Seq(Socket) /\ Len(tt) = Len(ss) /\ DOMAIN tt = DOMAIN ss
        /\ tt[k].relay # "open" /\ tt[k].at = ss[k].at /\ tt[k].stage = ss[k].stage
        /\ \A j \in DOMAIN ss : j # k => tt[j] = ss[j]
    BY <2>1, RelayMoves
  <2>3. ASSUME NEW j \in DOMAIN ss
        PROVE  /\ tt[j].at = ss[j].at /\ tt[j].stage = ss[j].stage
               /\ tt[j].relay = "open" => ss[j].relay = "open"
               /\ j # k => tt[j] = ss[j]
    BY <2>2
  <2>4. /\ tt \in Seq(Socket) /\ Len(tt) = Len(ss) /\ DOMAIN tt = DOMAIN ss
        /\ k # 0 => tt[k].relay # "open"
    BY <2>2
  <2> QED
    BY <2>3, <2>4
<1>2. CASE ~(k # 0 /\ ss[k].relay = "open")
  BY <1>0, <1>2 DEF Closing
<1> QED
  BY <1>1, <1>2

\* The register of socket k moves on, and socket r, if any, is closed.
Moved(ss, tt, k, st, r) ==
  /\ tt \in Seq(Socket)
  /\ Len(tt) = Len(ss)
  /\ DOMAIN tt = DOMAIN ss
  /\ tt[k].stage = st
  /\ r # 0 => tt[r].relay # "open"
  /\ \A j \in DOMAIN ss : /\ tt[j].at = ss[j].at
                          /\ j # k => tt[j].stage = ss[j].stage
                          /\ tt[j].relay = "open" => ss[j].relay = "open"

LEMMA MovedByClosing ==
  ASSUME NEW ss \in Seq(Socket), NEW k \in DOMAIN ss, NEW st \in Stages,
         NEW uu, Staged(ss, uu, k, st), NEW r \in 0..Len(ss)
  PROVE  Moved(ss, Closing(uu, r), k, st, r)
<1> DEFINE tt == Closing(uu, r)
<1>1. tt = Closing(uu, r)
  OBVIOUS
<1> SUFFICES Moved(ss, tt, k, st, r)
  OBVIOUS
<1> HIDE DEF tt
<1>2. /\ uu \in Seq(Socket) /\ Len(uu) = Len(ss) /\ DOMAIN uu = DOMAIN ss
      /\ uu[k].stage = st /\ uu[k].at = ss[k].at /\ uu[k].relay = ss[k].relay
      /\ \A j \in DOMAIN ss : j # k => uu[j] = ss[j]
  BY DEF Staged
<1>3. r \in 0..Len(uu)
  BY <1>2
<1>4. /\ tt \in Seq(Socket) /\ Len(tt) = Len(uu) /\ DOMAIN tt = DOMAIN uu
      /\ r # 0 => tt[r].relay # "open"
      /\ \A j \in DOMAIN uu : /\ tt[j].at = uu[j].at
                              /\ tt[j].stage = uu[j].stage
                              /\ tt[j].relay = "open" => uu[j].relay = "open"
  <2>1. uu \in Seq(Socket)
    BY <1>2
  <2>2. tt = Closing(uu, r)
    BY <1>1
  <2> QED
    BY <2>1, <2>2, <1>3, ClosingCloses
<1>5. ASSUME NEW j \in DOMAIN ss
      PROVE  /\ tt[j].at = ss[j].at
             /\ j # k => tt[j].stage = ss[j].stage
             /\ tt[j].relay = "open" => ss[j].relay = "open"
  <2>1. CASE j = k
    BY <1>2, <1>4, <2>1
  <2>2. CASE j # k
    BY <1>2, <1>4, <2>2
  <2> QED
    BY <2>1, <2>2
<1> QED
  BY <1>2, <1>4, <1>5 DEF Moved

-----------------------------------------------------------------------------
\* The online writes.

\* The writes that are left are writes.
LEMMA RemovalTypes ==
  ASSUME NEW S, NEW s \in Seq(S), NEW i \in DOMAIN s
  PROVE  RemoveAt(s, i) \in Seq(S)
<1>1. SubSeq(s, 1, i - 1) \in Seq(S) /\ SubSeq(s, i + 1, Len(s)) \in Seq(S)
  OBVIOUS
<1> QED
  BY <1>1, ConcatProperties DEF RemoveAt

LEMMA ScheduleTypes ==
  ASSUME OnlineTypes, NEW m \in Machines, NEW is \in BOOLEAN, ScheduleOnlineWrite(m, is),
         UNCHANGED <<shown, writes, online>>
  PROVE  OnlineTypes'
<1>1. version[m] \in Nat
  BY DEF OnlineTypes
<1>2. version' \in [Machines -> Nat]
  BY <1>1 DEF OnlineTypes, ScheduleOnlineWrite
<1>3. timer' \in [Machines -> Timer \cup {None}]
  <2>1. [is |-> is, version |-> version[m] + 1] \in Timer
    BY <1>1 DEF Timer
  <2> QED
    BY <2>1 DEF OnlineTypes, ScheduleOnlineWrite
<1> QED
  BY <1>2, <1>3 DEF OnlineTypes

LEMMA TimerTypes ==
  ASSUME OnlineTypes, NEW m \in Machines, OnlineTimer(m)
  PROVE  OnlineTypes'
<1>1. timer[m] \in Timer
  BY DEF OnlineTypes, OnlineTimer
<1>2. timer' \in [Machines -> Timer \cup {None}]
  BY DEF OnlineTypes, OnlineTimer
<1>3. writes' \in [Machines -> Seq(Write)]
  <2> DEFINE w == [is |-> timer[m].is, attempt |-> 1, version |-> version[m]]
  <2>1. w \in Write
    BY <1>1, RelayAssumption DEF Timer, Write, OnlineTypes
  <2>2. writes' = writes \/ writes' = [writes EXCEPT ![m] = Append(writes[m], w)]
    BY DEF OnlineTimer
  <2> HIDE DEF w
  <2>3. Append(writes[m], w) \in Seq(Write)
    BY <2>1 DEF OnlineTypes
  <2> QED
    BY <2>2, <2>3 DEF OnlineTypes
<1> QED
  BY <1>2, <1>3 DEF OnlineTypes, OnlineTimer

LEMMA WriteTypes ==
  ASSUME OnlineTypes, NEW m \in Machines, NEW i \in DOMAIN writes[m],
         OnlineWritten(m, i) \/ OnlineWriteFails(m, i) \/ RetryIsDropped(m, i)
  PROVE  OnlineTypes'
<1>1. writes[m] \in Seq(Write) /\ writes[m][i] \in Write
  BY DEF OnlineTypes
<1>2. writes[m][i].is \in BOOLEAN
  BY <1>1 DEF Write
<1>3. /\ shown' = shown \/ shown' = [shown EXCEPT ![m] = writes[m][i].is]
                        \/ shown' = [shown EXCEPT ![m] = FALSE]
      /\ version' = version \/ version' = [version EXCEPT ![m] = 0]
      /\ online' = online \/ online' = writes[m][i].is
      /\ timer' = timer
  BY DEF OnlineWritten, OnlineWriteFails, RetryIsDropped
<1>4. shown' \in [Machines -> BOOLEAN]
  BY <1>2, <1>3 DEF OnlineTypes
<1>5. version' \in [Machines -> Nat]
  <2>1. version \in [Machines -> Nat]
    BY DEF OnlineTypes
  <2>2. version' = version \/ version' = [version EXCEPT ![m] = 0]
    BY <1>3
  <2> QED
    BY <2>1, <2>2
<1>6. ASSUME Done(m, i) PROVE writes' \in [Machines -> Seq(Write)]
  <2>1. RemoveAt(writes[m], i) \in Seq(Write)
    BY <1>1, RemovalTypes
  <2> QED
    BY <1>6, <2>1 DEF Done, OnlineTypes
<1>7. ASSUME writes' = [writes EXCEPT ![m][i].attempt = @ + 1],
             writes[m][i].attempt < MaxAttempts
      PROVE  writes' \in [Machines -> Seq(Write)]
  <2> DEFINE again == [writes[m][i] EXCEPT !.attempt = writes[m][i].attempt + 1]
  <2>1. again \in Write
    <3>1. writes[m][i].attempt \in 1..MaxAttempts /\ MaxAttempts \in Nat
      BY <1>1, RelayAssumption DEF Write
    <3>2. writes[m][i].attempt + 1 \in 1..MaxAttempts
      BY <1>7, <3>1
    <3> QED
      BY <1>1, <3>2 DEF Write
  <2>2. writes' = [writes EXCEPT ![m] = [writes[m] EXCEPT ![i] = again]]
    BY <1>7
  <2> HIDE DEF again
  <2>3. [writes[m] EXCEPT ![i] = again] \in Seq(Write)
    BY <1>1, <2>1
  <2> QED
    BY <2>2, <2>3 DEF OnlineTypes
<1>8. writes' \in [Machines -> Seq(Write)]
  BY <1>6, <1>7 DEF OnlineWritten, OnlineWriteFails, RetryIsDropped
<1>9. online' \in BOOLEAN /\ timer' \in [Machines -> Timer \cup {None}]
  BY <1>2, <1>3 DEF OnlineTypes
<1> QED
  BY <1>4, <1>5, <1>8, <1>9 DEF OnlineTypes

-----------------------------------------------------------------------------
\* The steps.

\* What Net says of the socket of a tunnel, of a register and of the host.
LEMMA NetFacts ==
  ASSUME Net
  PROVE  /\ Len(sockets) \in Nat /\ Sockets = 1..Len(sockets)
         /\ \A k \in Sockets : sockets[k] \in Socket /\ sockets[k].at \in Machines
         /\ \A m \in Machines : tunnel[m] \in Nat /\ tunnel[m] <= Len(sockets)
         /\ \A c \in calls : c \in Call /\ (c.of # 0 => c.of \in Sockets)
<1>1. Len(sockets) \in Nat /\ Sockets = 1..Len(sockets) /\ sockets \in Seq(Socket)
  BY DEF Net, SocketTypes, Sockets
<1>2. \A k \in Sockets : sockets[k] \in Socket
  BY <1>1
<1>3. \A k \in Sockets : sockets[k].at \in Machines
  BY <1>2 DEF Socket
<1>4. \A m \in Machines : tunnel[m] \in Nat /\ tunnel[m] <= Len(sockets)
  BY <1>1 DEF Net, SocketTypes, TunnelsServe
<1>5. ASSUME NEW c \in calls PROVE c \in Call /\ (c.of # 0 => c.of \in Sockets)
  BY <1>1 DEF Net, SocketTypes, Call
<1> QED
  BY <1>1, <1>2, <1>3, <1>4, <1>5

LEMMA InitIInv == Init => IInv
<1> SUFFICES ASSUME Init PROVE IInv
  OBVIOUS
<1>1. SocketTypes /\ TunnelsServe /\ RegistersWait /\ NoDanglingSocket
  BY DEF Init, SocketTypes, TunnelsServe, RegistersWait, NoDanglingSocket, Sockets
<1>2. DirectoryTypes
  BY DEF Init, DirectoryTypes
<1>3. OnlineTypes
  <2>1. <<>> \in Seq(Write)
    OBVIOUS
  <2> QED
    BY <2>1 DEF Init, OnlineTypes
<1> QED
  BY <1>1, <1>2, <1>3 DEF IInv, Net

\* Nothing about a new socket is promised yet.
LEMMA ConnectKeepsNet ==
  ASSUME Net, NEW m \in Machines, HostConnects(m)
  PROVE  Net'
<1> DEFINE new == [at |-> m, stage |-> "arriving", host |-> "open", relay |-> "open"]
<1>1. new \in Socket /\ new.stage = "arriving"
  BY DEF Socket, Stages
<1>2. /\ sockets' = Append(sockets, new) /\ mine' = Len(sockets')
      /\ UNCHANGED <<tunnel, machine, calls>>
  BY DEF HostConnects, directoryVars
<1> HIDE DEF new
<1>3. /\ sockets \in Seq(Socket) /\ sockets' \in Seq(Socket)
      /\ Len(sockets') = Len(sockets) + 1 /\ Len(sockets) \in Nat
      /\ Sockets = 1..Len(sockets) /\ Sockets' = Sockets \cup {Len(sockets) + 1}
      /\ sockets'[Len(sockets) + 1] = new
      /\ \A k \in Sockets : sockets'[k] = sockets[k]
  BY <1>1, <1>2 DEF Net, SocketTypes, Sockets
<1>4. SocketTypes'
  BY <1>2, <1>3, NetFacts DEF Net, SocketTypes, Call
<1>5. TunnelsServe'
  BY <1>2, <1>3 DEF Net, TunnelsServe
<1>6. RegistersWait'
  BY <1>1, <1>2, <1>3, NetFacts DEF Net, RegistersWait
<1>7. NoDanglingSocket'
  BY <1>1, <1>2, <1>3 DEF Net, NoDanglingSocket
<1> QED
  BY <1>4, <1>5, <1>6, <1>7 DEF Net

\* The host's end is not what the relay goes by.
LEMMA HostLeavesKeepsNet ==
  ASSUME Net, HostDrops \/ HostObeysDrain \/ HostSeesClose
  PROVE  Net'
<1>1. /\ mine # 0 /\ mine' = 0
      /\ sockets' = [sockets EXCEPT ![mine].host = "gone"]
      /\ UNCHANGED <<tunnel, machine, calls>>
  BY DEF HostDrops, HostObeysDrain, HostSeesClose, directoryVars
<1>2. sockets \in Seq(Socket) /\ mine \in DOMAIN sockets
  BY <1>1 DEF Net, SocketTypes
<1>3. /\ sockets' \in Seq(Socket) /\ Len(sockets') = Len(sockets) /\ Sockets' = Sockets
      /\ \A j \in Sockets : /\ sockets'[j].at = sockets[j].at
                            /\ sockets'[j].stage = sockets[j].stage
                            /\ sockets'[j].relay = sockets[j].relay
  <2>1. sockets' = [sockets EXCEPT ![mine].host = "gone"]
    BY <1>1
  <2>2. /\ sockets' \in Seq(Socket) /\ Len(sockets') = Len(sockets)
        /\ DOMAIN sockets' = DOMAIN sockets
        /\ \A j \in DOMAIN sockets : /\ sockets'[j].at = sockets[j].at
                                     /\ sockets'[j].stage = sockets[j].stage
                                     /\ sockets'[j].relay = sockets[j].relay
    BY <1>2, <2>1, HostMoves
  <2> QED
    BY <2>2 DEF Sockets
<1>4. SocketTypes'
  BY <1>1, <1>3 DEF Net, SocketTypes
<1>5. TunnelsServe'
  BY <1>1, <1>3 DEF Net, TunnelsServe
<1>6. RegistersWait'
  BY <1>1, <1>3, NetFacts DEF Net, RegistersWait
<1>7. NoDanglingSocket'
  BY <1>1, <1>3 DEF Net, NoDanglingSocket
<1> QED
  BY <1>4, <1>5, <1>6, <1>7 DEF Net

\* The tunnel that gives way is the only socket its machine served.
LEMMA RegisterKeepsNet ==
  ASSUME Net, NEW k \in Sockets, Register(k)
  PROVE  Net'
<1> DEFINE m == sockets[k].at
           c == [op |-> "register", at |-> m, of |-> k]
<1>1. /\ sockets[k].stage = "arriving"
      /\ sockets' = Closing([sockets EXCEPT ![k].stage = "writing"], tunnel[m])
      /\ tunnel' = [tunnel EXCEPT ![m] = 0]
      /\ calls' = calls \cup {c}
      /\ UNCHANGED <<mine, machine>>
  BY DEF Register, hostVars
<1>2. /\ sockets \in Seq(Socket) /\ k \in DOMAIN sockets /\ m \in Machines
      /\ tunnel[m] \in 0..Len(sockets)
      /\ k \in Nat \ {0} /\ k <= Len(sockets)
  BY NetFacts DEF Net, SocketTypes, Sockets
<1>4. /\ c \in Call /\ c.op = "register" /\ c.of = k /\ c.at = m
  BY <1>2 DEF Call
<1>5. Moved(sockets, sockets', k, "writing", tunnel[m])
  <2> DEFINE ss == [sockets EXCEPT ![k].stage = "writing"]
  <2>1. "writing" \in Stages /\ sockets \in Seq(Socket) /\ sockets' = Closing(ss, tunnel[m])
    BY <1>1, <1>2 DEF Stages
  <2>2. Staged(sockets, ss, k, "writing")
    BY <1>2, <2>1, StageMoves
  <2> HIDE DEF m, ss
  <2> QED
    BY <1>2, <2>1, <2>2, MovedByClosing
<1> HIDE DEF m, c
<1>6. /\ Sockets' = Sockets
      /\ sockets'[k].stage = "writing" /\ sockets'[k].at = m
      /\ \A j \in Sockets : j # k => /\ sockets'[j].at = sockets[j].at
                                     /\ sockets'[j].stage = sockets[j].stage
                                     /\ sockets'[j].relay = "open" => sockets[j].relay = "open"
  BY <1>2, <1>5 DEF Sockets, Moved, m
<1>7. \A n \in Machines : tunnel'[n] = IF n = m THEN 0 ELSE tunnel[n]
  BY <1>1 DEF Net, SocketTypes
<1>8. SocketTypes'
  <2>0. sockets' \in Seq(Socket) /\ Len(sockets') = Len(sockets)
    BY <1>5 DEF Moved
  <2>1. tunnel' \in [Machines -> Nat] /\ calls' \subseteq Call
    BY <1>1, <1>4 DEF Net, SocketTypes
  <2> QED
    BY <1>1, <1>2, <1>4, <2>0, <2>1 DEF Net, SocketTypes
<1>9. TunnelsServe'
  <2> SUFFICES ASSUME NEW n \in Machines, tunnel'[n] # 0
               PROVE  /\ tunnel'[n] \in Sockets
                      /\ sockets'[tunnel'[n]].at = n
                      /\ sockets'[tunnel'[n]].stage = "served"
    BY <1>6 DEF TunnelsServe
  <2>1. tunnel'[n] = tunnel[n] /\ tunnel[n] # 0
    BY <1>7
  <2>2. /\ tunnel[n] \in Sockets /\ tunnel[n] # k
        /\ sockets[tunnel[n]].at = n /\ sockets[tunnel[n]].stage = "served"
    BY <1>1, <2>1 DEF Net, TunnelsServe
  <2> QED
    BY <1>6, <2>1, <2>2
<1>10. RegistersWait'
  <2>1. ASSUME NEW d \in calls', d.op = "register", d.of # 0
        PROVE  sockets'[d.of].stage = "writing" /\ sockets'[d.of].at = d.at
    <3>1. CASE d = c
      BY <1>4, <1>6, <3>1
    <3>2. CASE d \in calls
      <4>1. d.of \in Sockets /\ sockets[d.of].stage = "writing" /\ sockets[d.of].at = d.at
        BY <2>1, <3>2, NetFacts DEF Net, RegistersWait
      <4> QED
        BY <1>1, <1>6, <4>1
    <3> QED
      BY <1>1, <2>1, <3>1, <3>2
  <2>2. ASSUME NEW j \in Sockets, sockets'[j].stage = "writing"
        PROVE  [op |-> "register", at |-> sockets'[j].at, of |-> j] \in calls'
    <3>1. CASE j = k
      BY <1>1, <1>6, <3>1 DEF c
    <3>2. CASE j # k
      BY <1>1, <1>6, <2>2, <3>2 DEF Net, RegistersWait
    <3> QED
      BY <3>1, <3>2
  <2> QED
    BY <1>6, <2>1, <2>2 DEF RegistersWait
<1>11. NoDanglingSocket'
  <2> SUFFICES ASSUME NEW j \in Sockets, sockets'[j].relay = "open",
                      sockets'[j].stage \in {"served", "over"}
               PROVE  tunnel'[sockets'[j].at] = j
    BY <1>6 DEF NoDanglingSocket
  <2>1. j # k /\ sockets'[j].at = sockets[j].at /\ sockets[j].at \in Machines
    BY <1>6, NetFacts
  <2>2. tunnel[sockets[j].at] = j
    BY <1>6, <2>1 DEF Net, NoDanglingSocket
  <2>3. j # 0 /\ sockets[j].at # m
    BY <1>5, <2>1, <2>2, NetFacts DEF Moved
  <2> QED
    BY <1>7, <2>1, <2>2, <2>3
<1> QED
  BY <1>8, <1>9, <1>10, <1>11 DEF Net

\* A socket whose register is over without a tunnel is closed at once.
LEMMA RefusalKeepsNet ==
  ASSUME Net, NEW k \in Sockets, sockets[k].stage \in {"arriving", "writing"},
         sockets' = Refused(k),
         UNCHANGED <<mine, tunnel, machine>>,
         calls' \subseteq Call, \A c \in calls' : c.of <= Len(sockets),
         \A c \in calls' : c.op = "register" => c \in calls /\ c.of # k,
         \A c \in calls : c.op = "register" /\ c.of # k => c \in calls'
  PROVE  Net'
<1>1. sockets \in Seq(Socket) /\ k \in DOMAIN sockets /\ k \in 0..Len(sockets) /\ k # 0
  BY NetFacts DEF Net, SocketTypes, Sockets
<1>2. Moved(sockets, sockets', k, "over", k)
  <2> DEFINE ss == [sockets EXCEPT ![k].stage = "over"]
  <2>1. "over" \in Stages /\ sockets' = Closing(ss, k)
    BY DEF Stages, Refused
  <2>2. Staged(sockets, ss, k, "over")
    BY <1>1, <2>1, StageMoves
  <2> HIDE DEF ss
  <2> QED
    BY <1>1, <2>1, <2>2, MovedByClosing
<1>3. /\ sockets' \in Seq(Socket) /\ Len(sockets') = Len(sockets) /\ Sockets' = Sockets
      /\ sockets'[k].stage = "over" /\ sockets'[k].relay # "open"
      /\ \A j \in Sockets : /\ sockets'[j].at = sockets[j].at
                            /\ j # k => sockets'[j].stage = sockets[j].stage
                            /\ sockets'[j].relay = "open" => sockets[j].relay = "open"
  BY <1>1, <1>2 DEF Moved, Sockets
<1>4. SocketTypes'
  BY <1>3 DEF Net, SocketTypes
<1>5. TunnelsServe'
  <2> SUFFICES ASSUME NEW n \in Machines, tunnel[n] # 0
               PROVE  /\ tunnel[n] \in Sockets
                      /\ sockets'[tunnel[n]].at = n
                      /\ sockets'[tunnel[n]].stage = "served"
    BY <1>3 DEF TunnelsServe
  <2>1. /\ tunnel[n] \in Sockets /\ tunnel[n] # k
        /\ sockets[tunnel[n]].at = n /\ sockets[tunnel[n]].stage = "served"
    BY DEF Net, TunnelsServe
  <2> QED
    BY <1>3, <2>1
<1>6. RegistersWait'
  <2>1. ASSUME NEW c \in calls', c.op = "register", c.of # 0
        PROVE  sockets'[c.of].stage = "writing" /\ sockets'[c.of].at = c.at
    <3>1. /\ c \in calls /\ c.of # k /\ c.of \in Sockets
          /\ sockets[c.of].stage = "writing" /\ sockets[c.of].at = c.at
      BY <2>1, NetFacts DEF Net, RegistersWait
    <3> QED
      BY <1>3, <3>1
  <2>2. ASSUME NEW j \in Sockets, sockets'[j].stage = "writing"
        PROVE  [op |-> "register", at |-> sockets'[j].at, of |-> j] \in calls'
    <3>1. j # k /\ sockets[j].stage = "writing" /\ sockets'[j].at = sockets[j].at
      BY <1>3, <2>2
    <3>2. [op |-> "register", at |-> sockets[j].at, of |-> j] \in calls
      BY <3>1 DEF Net, RegistersWait
    <3> QED
      BY <3>1, <3>2
  <2> QED
    BY <1>3, <2>1, <2>2 DEF RegistersWait
<1>7. NoDanglingSocket'
  <2> SUFFICES ASSUME NEW j \in Sockets, sockets'[j].relay = "open",
                      sockets'[j].stage \in {"served", "over"}
               PROVE  tunnel[sockets'[j].at] = j
    BY <1>3 DEF NoDanglingSocket
  <2>1. j # k
    BY <1>3
  <2> QED
    BY <1>3, <2>1 DEF Net, NoDanglingSocket
<1> QED
  BY <1>4, <1>5, <1>6, <1>7 DEF Net

\* The directory answers a register.
LEMMA RegisteredKeepsNet ==
  ASSUME Net, NEW c \in calls, Registered(c)
  PROVE  Net'
<1> DEFINE m == c.at
           k == c.of
           undo == [op |-> "unregister", at |-> m, of |-> k]
<1>1. /\ c.op = "register" /\ c \in Call /\ m \in Machines /\ k \in Nat /\ k <= Len(sockets)
      /\ UNCHANGED <<mine, machine>>
  BY NetFacts DEF Registered, hostVars, Call, Net, SocketTypes
<1>2. ASSUME k # 0 PROVE k \in Sockets /\ sockets[k].stage = "writing" /\ sockets[k].at = m
  BY <1>1, <1>2, NetFacts DEF Net, RegistersWait
\* Of two registers in progress, each has its own socket.
<1>3. ASSUME NEW d \in calls, d.op = "register", d.of = k, k # 0 PROVE d = c
  <2>1. d \in Call /\ sockets[d.of].at = d.at
    BY <1>3, NetFacts DEF Net, RegistersWait
  <2> QED
    BY <1>1, <1>2, <1>3, <2>1 DEF Call
<1>4. CASE k = 0
  <2>1. sockets' = sockets /\ calls' = calls \ {c} /\ tunnel' = tunnel
    BY <1>4 DEF Registered
  <2>2. SocketTypes' /\ TunnelsServe' /\ NoDanglingSocket'
    BY <1>1, <2>1 DEF Net, SocketTypes, TunnelsServe, NoDanglingSocket, Sockets
  <2>3. RegistersWait'
    <3>1. \A j \in Sockets : [op |-> "register", at |-> sockets[j].at, of |-> j] # c
      BY <1>4, NetFacts
    <3> QED
      BY <2>1, <3>1 DEF Net, RegistersWait, Sockets
  <2> QED
    BY <2>2, <2>3 DEF Net
<1>5. CASE k # 0 /\ MustRollBack(k)
  <2>1. /\ sockets' = Refused(k) /\ calls' = (calls \ {c}) \cup {undo}
        /\ tunnel' = tunnel
    BY <1>5 DEF Registered
  <2>2. undo \in Call /\ undo.op # "register" /\ undo.of = k
    BY <1>1 DEF Call
  <2> HIDE DEF m, undo
  <2>3. /\ calls' \subseteq Call
        /\ \A d \in calls' : d.of <= Len(sockets)
        /\ \A d \in calls' : d.op = "register" => d \in calls /\ d.of # k
        /\ \A d \in calls : d.op = "register" /\ d.of # k => d \in calls'
    BY <1>1, <1>3, <1>5, <2>1, <2>2 DEF Net, SocketTypes
  <2>4. k \in Sockets /\ sockets[k].stage \in {"arriving", "writing"}
    BY <1>2, <1>5
  <2> HIDE DEF k
  <2> QED
    BY <1>1, <2>1, <2>3, <2>4, RefusalKeepsNet
<1>6. CASE k # 0 /\ ~MustRollBack(k)
  <2>1. /\ sockets' = Closing([sockets EXCEPT ![k].stage = "served"], tunnel[m])
        /\ tunnel' = [tunnel EXCEPT ![m] = k]
        /\ calls' = calls \ {c}
    BY <1>6 DEF Registered, Raced
  <2>2. /\ sockets \in Seq(Socket) /\ k \in DOMAIN sockets /\ tunnel[m] \in 0..Len(sockets)
        /\ sockets[k].stage = "writing" /\ sockets[k].at = m
    BY <1>1, <1>2, <1>6, NetFacts DEF Net, SocketTypes, Sockets
  <2>3. Moved(sockets, sockets', k, "served", tunnel[m])
    <3> DEFINE ss == [sockets EXCEPT ![k].stage = "served"]
    <3>1. "served" \in Stages /\ sockets' = Closing(ss, tunnel[m])
      BY <2>1 DEF Stages
    <3>2. Staged(sockets, ss, k, "served")
      BY <2>2, <3>1, StageMoves
    <3> HIDE DEF m, k, ss
    <3> QED
      BY <2>2, <3>1, <3>2, MovedByClosing
  <2>4. /\ sockets' \in Seq(Socket) /\ Len(sockets') = Len(sockets) /\ Sockets' = Sockets
        /\ sockets'[k].stage = "served" /\ sockets'[k].at = m
        /\ tunnel[m] # 0 => sockets'[tunnel[m]].relay # "open"
        /\ \A j \in Sockets : /\ sockets'[j].at = sockets[j].at
                              /\ j # k => sockets'[j].stage = sockets[j].stage
                              /\ sockets'[j].relay = "open" => sockets[j].relay = "open"
    BY <2>2, <2>3 DEF Moved, Sockets
  <2>5. \A n \in Machines : tunnel'[n] = IF n = m THEN k ELSE tunnel[n]
    BY <2>1 DEF Net, SocketTypes
  <2>6. k \in Sockets
    BY <1>2, <1>6
  <2> HIDE DEF m, k
  <2>7. SocketTypes'
    <3>1. tunnel' \in [Machines -> Nat] /\ calls' \subseteq Call
      BY <1>1, <2>1 DEF Net, SocketTypes
    <3> QED
      BY <1>1, <2>1, <2>4, <3>1 DEF Net, SocketTypes
  <2>8. TunnelsServe'
    <3> SUFFICES ASSUME NEW n \in Machines, tunnel'[n] # 0
                 PROVE  /\ tunnel'[n] \in Sockets
                        /\ sockets'[tunnel'[n]].at = n
                        /\ sockets'[tunnel'[n]].stage = "served"
      BY <2>4 DEF TunnelsServe
    <3>1. CASE n = m
      BY <2>4, <2>5, <2>6, <3>1
    <3>2. CASE n # m
      <4>1. tunnel'[n] = tunnel[n] /\ tunnel[n] # 0
        BY <2>5, <3>2
      <4>2. /\ tunnel[n] \in Sockets /\ tunnel[n] # k
            /\ sockets[tunnel[n]].at = n /\ sockets[tunnel[n]].stage = "served"
        BY <2>2, <4>1 DEF Net, TunnelsServe
      <4> QED
        BY <2>4, <4>1, <4>2
    <3> QED
      BY <3>1, <3>2
  <2>9. RegistersWait'
    <3>1. ASSUME NEW d \in calls', d.op = "register", d.of # 0
          PROVE  sockets'[d.of].stage = "writing" /\ sockets'[d.of].at = d.at
      <4>1. /\ d \in calls /\ d.of # k /\ d.of \in Sockets
            /\ sockets[d.of].stage = "writing" /\ sockets[d.of].at = d.at
        BY <1>3, <1>6, <2>1, <3>1, NetFacts DEF Net, RegistersWait
      <4> QED
        BY <2>4, <4>1
    <3>2. ASSUME NEW j \in Sockets, sockets'[j].stage = "writing"
          PROVE  [op |-> "register", at |-> sockets'[j].at, of |-> j] \in calls'
      <4>1. j # k /\ sockets[j].stage = "writing" /\ sockets'[j].at = sockets[j].at
        BY <2>4, <3>2
      <4>2. [op |-> "register", at |-> sockets[j].at, of |-> j] \in calls
        BY <4>1 DEF Net, RegistersWait
      <4>3. [op |-> "register", at |-> sockets[j].at, of |-> j] # c
        BY <4>1 DEF k
      <4> QED
        BY <2>1, <4>1, <4>2, <4>3
    <3> QED
      BY <2>4, <3>1, <3>2 DEF RegistersWait
  <2>10. NoDanglingSocket'
    <3> SUFFICES ASSUME NEW j \in Sockets, sockets'[j].relay = "open",
                        sockets'[j].stage \in {"served", "over"}
                 PROVE  tunnel'[sockets'[j].at] = j
      BY <2>4 DEF NoDanglingSocket
    <3>1. CASE j = k
      BY <1>1, <2>4, <2>5, <3>1
    <3>2. CASE j # k
      <4>1. sockets'[j].at = sockets[j].at /\ sockets[j].at \in Machines /\ j # 0
        BY <2>4, NetFacts
      <4>2. tunnel[sockets[j].at] = j
        BY <2>4, <3>2 DEF Net, NoDanglingSocket
      <4>3. sockets[j].at # m
        BY <2>4, <4>1, <4>2
      <4> QED
        BY <2>5, <4>1, <4>2, <4>3
    <3> QED
      BY <3>1, <3>2
  <2> QED
    BY <2>7, <2>8, <2>9, <2>10 DEF Net
<1> QED
  BY <1>4, <1>5, <1>6

LEMMA RegisterFailsKeepsNet ==
  ASSUME Net, NEW c \in calls, RegisterFails(c)
  PROVE  Net'
<1> DEFINE k == c.of
<1>1. /\ c.op = "register" /\ calls' = calls \ {c}
      /\ UNCHANGED <<mine, tunnel, machine>>
      /\ k = 0 => sockets' = sockets
      /\ k # 0 => sockets' = Refused(k)
  BY DEF RegisterFails, hostVars
<1>2. c \in Call /\ (k # 0 => k \in Sockets /\ sockets[k].stage = "writing"
                              /\ sockets[k].at = c.at)
  BY <1>1, NetFacts DEF Net, RegistersWait
<1>3. CASE k = 0
  <2>1. SocketTypes' /\ TunnelsServe' /\ NoDanglingSocket'
    BY <1>1, <1>3 DEF Net, SocketTypes, TunnelsServe, NoDanglingSocket, Sockets
  <2>2. RegistersWait'
    <3>1. \A j \in Sockets : [op |-> "register", at |-> sockets[j].at, of |-> j] # c
      BY <1>3, NetFacts
    <3> QED
      BY <1>1, <1>3, <3>1 DEF Net, RegistersWait, Sockets
  <2> QED
    BY <2>1, <2>2 DEF Net
<1>4. CASE k # 0
  <2>1. ASSUME NEW d \in calls, d.op = "register", d.of = k PROVE d = c
    <3>1. d \in Call /\ sockets[d.of].at = d.at
      BY <1>4, <2>1, NetFacts DEF Net, RegistersWait
    <3> QED
      BY <1>1, <1>2, <1>4, <2>1, <3>1 DEF Call
  <2>2. /\ calls' \subseteq Call
        /\ \A d \in calls' : d.of <= Len(sockets)
        /\ \A d \in calls' : d.op = "register" => d \in calls /\ d.of # k
        /\ \A d \in calls : d.op = "register" /\ d.of # k => d \in calls'
    BY <1>1, <2>1 DEF Net, SocketTypes
  <2>3. /\ k \in Sockets /\ sockets[k].stage \in {"arriving", "writing"}
        /\ sockets' = Refused(k) /\ UNCHANGED <<mine, tunnel, machine>>
    BY <1>1, <1>2, <1>4
  <2> HIDE DEF k
  <2> QED
    BY <2>2, <2>3, RefusalKeepsNet
<1> QED
  BY <1>3, <1>4

LEMMA RefuseKeepsNet ==
  ASSUME Net, NEW k \in Sockets, RefuseWhileDraining(k)
  PROVE  Net'
<1>1. /\ sockets[k].stage \in {"arriving", "writing"} /\ sockets[k].stage # "writing"
      /\ sockets' = Refused(k) /\ calls' = calls
      /\ UNCHANGED <<mine, tunnel, machine>> /\ k # 0
  BY NetFacts DEF RefuseWhileDraining, hostVars, directoryVars
<1>2. /\ calls' \subseteq Call
      /\ \A d \in calls' : d.of <= Len(sockets)
      /\ \A d \in calls' : d.op = "register" => d \in calls /\ d.of # k
      /\ \A d \in calls : d.op = "register" /\ d.of # k => d \in calls'
  BY <1>1 DEF Net, SocketTypes, RegistersWait
<1> QED
  BY <1>1, <1>2, RefusalKeepsNet

\* The directory answers an unregister, or fails to.
LEMMA UnregisteredKeepsNet ==
  ASSUME Net, NEW c \in calls, Unregistered(c) \/ UnregisterFails(c)
  PROVE  Net'
<1>1. /\ c.op = "unregister" /\ calls' = calls \ {c}
      /\ UNCHANGED <<mine, sockets, tunnel, machine>>
  BY DEF Unregistered, UnregisterFails, hostVars
<1>2. SocketTypes' /\ TunnelsServe' /\ NoDanglingSocket'
  BY <1>1 DEF Net, SocketTypes, TunnelsServe, NoDanglingSocket, Sockets
<1>3. RegistersWait'
  <2>1. \A j \in Sockets : [op |-> "register", at |-> sockets[j].at, of |-> j] # c
    BY <1>1
  <2> QED
    BY <1>1, <2>1 DEF Net, RegistersWait, Sockets
<1> QED
  BY <1>2, <1>3 DEF Net

\* The relay's end of a socket moves on, and the tunnel it served is down.
LEMMA CloseKeepsNet ==
  ASSUME Net, NEW k \in Sockets,
         \/ sockets' = [sockets EXCEPT ![k].relay = "closing"]
         \/ sockets' = [sockets EXCEPT ![k].relay = "closed"],
         tunnel' \in {tunnel, [tunnel EXCEPT ![sockets[k].at] = 0]},
         tunnel' # tunnel => tunnel[sockets[k].at] = k,
         UNCHANGED <<mine, machine>>,
         calls' \subseteq calls \cup {[op |-> "unregister", at |-> sockets[k].at, of |-> k]},
         calls \subseteq calls'
  PROVE  Net'
<1>1. sockets \in Seq(Socket) /\ k \in DOMAIN sockets /\ sockets[k].at \in Machines
  BY NetFacts DEF Net, SocketTypes, Sockets
<1>2. /\ sockets' \in Seq(Socket) /\ Len(sockets') = Len(sockets)
      /\ DOMAIN sockets' = DOMAIN sockets
      /\ sockets'[k].relay # "open"
      /\ sockets'[k].at = sockets[k].at
      /\ sockets'[k].stage = sockets[k].stage
      /\ \A j \in DOMAIN sockets : j # k => sockets'[j] = sockets[j]
  BY <1>1, RelayMoves
<1>3. /\ Sockets' = Sockets
      /\ \A j \in Sockets : /\ sockets'[j].at = sockets[j].at
                            /\ sockets'[j].stage = sockets[j].stage
  BY <1>2 DEF Sockets
<1>4. \A n \in Machines : tunnel'[n] # 0 => tunnel'[n] = tunnel[n]
  BY <1>1 DEF Net, SocketTypes
<1>5. SocketTypes'
  <2>1. calls' \subseteq Call /\ \A c \in calls' : c.of <= Len(sockets)
    <3>1. [op |-> "unregister", at |-> sockets[k].at, of |-> k] \in Call /\ k <= Len(sockets)
      BY <1>1, NetFacts DEF Call
    <3> QED
      BY <3>1 DEF Net, SocketTypes
  <2>2. tunnel' \in [Machines -> Nat]
    BY <1>1 DEF Net, SocketTypes
  <2> QED
    BY <1>2, <2>1, <2>2 DEF Net, SocketTypes
<1>6. TunnelsServe'
  BY <1>3, <1>4 DEF Net, TunnelsServe
<1>7. RegistersWait'
  <2>1. \A c \in calls' : c.op = "register" => c \in calls
    OBVIOUS
  <2> QED
    BY <1>3, <2>1, NetFacts DEF Net, RegistersWait
<1>8. NoDanglingSocket'
  <2> SUFFICES ASSUME NEW j \in Sockets, sockets'[j].relay = "open",
                      sockets'[j].stage \in {"served", "over"}
               PROVE  tunnel'[sockets'[j].at] = j
    BY <1>3 DEF NoDanglingSocket
  <2>1. j # k
    BY <1>2
  <2>2. /\ sockets'[j].at = sockets[j].at /\ sockets[j].at \in Machines /\ j # 0
        /\ tunnel[sockets[j].at] = j
    BY <1>1, <1>2, <2>1, NetFacts DEF Net, NoDanglingSocket, Sockets
  <2>3. tunnel'[sockets[j].at] = tunnel[sockets[j].at]
    BY <1>1, <2>1, <2>2 DEF Net, SocketTypes
  <2> QED
    BY <2>2, <2>3
<1> QED
  BY <1>5, <1>6, <1>7, <1>8 DEF Net

LEMMA SeesGoneKeepsNet ==
  ASSUME Net, NEW k \in Sockets, RelaySeesGone(k)
  PROVE  Net'
<1>1. /\ sockets' = [sockets EXCEPT ![k].relay = "closing"]
      /\ UNCHANGED <<mine, tunnel, machine, calls>>
  BY DEF RelaySeesGone, hostVars, directoryVars
<1> QED
  BY <1>1, CloseKeepsNet

LEMMA OnCloseKeepsNet ==
  ASSUME Net, NEW k \in Sockets, OnClose(k)
  PROVE  Net'
<1> DEFINE m == sockets[k].at
           tears == sockets[k].stage = "served" /\ IsTunnelOf(m, k)
<1>1. /\ sockets[k].relay = "closing" /\ UNCHANGED <<mine, machine>>
      /\ sockets' = [Closing(sockets, IF tears THEN tunnel[m] ELSE 0) EXCEPT ![k].relay = "closed"]
  BY DEF OnClose, hostVars
\* It is closing, so that there is nothing left to close.
<1>2. sockets' = [sockets EXCEPT ![k].relay = "closed"]
  <2>1. Closing(sockets, IF tears THEN tunnel[m] ELSE 0) = sockets
    BY <1>1 DEF Closing, IsTunnelOf
  <2> QED
    BY <1>1, <2>1
<1>3. CASE tears
  <2>1. /\ tunnel' = [tunnel EXCEPT ![sockets[k].at] = 0] /\ tunnel[sockets[k].at] = k
        /\ calls' = calls \cup {[op |-> "unregister", at |-> sockets[k].at, of |-> k]}
    BY <1>3 DEF OnClose, IsTunnelOf
  <2> QED
    BY <1>1, <1>2, <2>1, CloseKeepsNet
<1>4. CASE ~tears
  <2>1. tunnel' = tunnel /\ calls' = calls
    BY <1>4 DEF OnClose
  <2> QED
    BY <1>1, <1>2, <2>1, CloseKeepsNet
<1> QED
  BY <1>3, <1>4

\* A machine's sockets and tunnel end with it, and nobody waits for its registers.
LEMMA GoneKeepsNet ==
  ASSUME Net, NEW m \in Machines, Gone(m), mine' = mine
  PROVE  Net'
<1>1. /\ machine' = [machine EXCEPT ![m] = "down"]
      /\ tunnel' = [tunnel EXCEPT ![m] = 0]
      /\ sockets' = [k \in Sockets |-> IF sockets[k].at = m
                                   THEN [sockets[k] EXCEPT !.relay = "closed", !.stage = "over"]
                                   ELSE sockets[k]]
      /\ calls' = {IF c.at = m THEN [c EXCEPT !.of = 0] ELSE c : c \in calls}
  BY DEF Gone
<1>2. ASSUME NEW k \in Sockets
      PROVE  /\ sockets'[k] \in Socket /\ sockets'[k].at = sockets[k].at
             /\ sockets[k].at = m => /\ sockets'[k].relay = "closed"
                                     /\ sockets'[k].stage = "over"
             /\ sockets[k].at # m => sockets'[k] = sockets[k]
  <2>1. sockets[k] \in Socket
    BY NetFacts
  <2>2. CASE sockets[k].at = m
    <3>1. sockets'[k] = [sockets[k] EXCEPT !.relay = "closed", !.stage = "over"]
      BY <1>1, <2>2
    <3> QED
      BY <2>1, <2>2, <3>1 DEF Socket, Stages
  <2>3. CASE sockets[k].at # m
    <3>1. sockets'[k] = sockets[k]
      BY <1>1, <2>3
    <3> QED
      BY <2>1, <2>3, <3>1
  <2> QED
    BY <2>2, <2>3
<1>3. sockets' \in Seq(Socket) /\ Len(sockets') = Len(sockets) /\ Sockets' = Sockets
  <2>1. Sockets = 1..Len(sockets) /\ Len(sockets) \in Nat
    BY NetFacts
  <2>2. DOMAIN sockets' = 1..Len(sockets) /\ sockets' = [k \in Sockets |-> sockets'[k]]
    BY <1>1, <2>1
  <2>3. sockets' \in [1..Len(sockets) -> Socket]
    BY <1>2, <2>1, <2>2
  <2>4. sockets' \in Seq(Socket)
    BY <2>1, <2>3, IsASeq
  <2>5. Len(sockets') = Len(sockets)
    BY <2>1, <2>2, <2>4
  <2> QED
    BY <2>1, <2>2, <2>4, <2>5 DEF Sockets
<1>4. \A n \in Machines : tunnel'[n] = IF n = m THEN 0 ELSE tunnel[n]
  BY <1>1 DEF Net, SocketTypes
<1>5. ASSUME NEW d \in calls'
      PROVE  /\ d \in Call /\ d.of <= Len(sockets)
             /\ d.of # 0 => d \in calls /\ d.at # m
  <2>1. PICK c \in calls : d = IF c.at = m THEN [c EXCEPT !.of = 0] ELSE c
    BY <1>1
  <2>2. c \in Call /\ c.of <= Len(sockets)
    BY DEF Net, SocketTypes
  <2>3. CASE c.at = m
    <3>1. d = [c EXCEPT !.of = 0]
      BY <2>1, <2>3
    <3> QED
      BY <2>2, <3>1, NetFacts DEF Call
  <2>4. CASE c.at # m
    <3>1. d = c
      BY <2>1, <2>4
    <3> QED
      BY <2>2, <2>4, <3>1
  <2> QED
    BY <2>3, <2>4
<1>6. SocketTypes'
  <2>1. tunnel' \in [Machines -> Nat] /\ machine' \in [Machines -> {"up", "draining", "down"}]
    BY <1>1 DEF Net, SocketTypes
  <2> QED
    BY <1>3, <1>5, <2>1 DEF Net, SocketTypes
<1>7. TunnelsServe'
  <2> SUFFICES ASSUME NEW n \in Machines, tunnel'[n] # 0
               PROVE  /\ tunnel'[n] \in Sockets
                      /\ sockets'[tunnel'[n]].at = n
                      /\ sockets'[tunnel'[n]].stage = "served"
    BY <1>3 DEF TunnelsServe
  <2>1. /\ n # m /\ tunnel'[n] = tunnel[n] /\ tunnel[n] \in Sockets
        /\ sockets[tunnel[n]].at = n /\ sockets[tunnel[n]].stage = "served"
    BY <1>4 DEF Net, TunnelsServe
  <2> QED
    BY <1>2, <2>1
<1>8. RegistersWait'
  <2>1. ASSUME NEW d \in calls', d.op = "register", d.of # 0
        PROVE  sockets'[d.of].stage = "writing" /\ sockets'[d.of].at = d.at
    <3>1. /\ d \in calls /\ d.at # m /\ d.of \in Sockets
          /\ sockets[d.of].stage = "writing" /\ sockets[d.of].at = d.at
      BY <1>5, <2>1, NetFacts DEF Net, RegistersWait
    <3> QED
      BY <1>2, <3>1
  <2>2. ASSUME NEW j \in Sockets, sockets'[j].stage = "writing"
        PROVE  [op |-> "register", at |-> sockets'[j].at, of |-> j] \in calls'
    <3> DEFINE c == [op |-> "register", at |-> sockets[j].at, of |-> j]
    <3>1. sockets[j].at # m /\ sockets'[j] = sockets[j]
      BY <1>2, <2>2
    <3>2. c \in calls /\ c.at # m
      BY <2>2, <3>1 DEF Net, RegistersWait
    <3>3. (IF c.at = m THEN [c EXCEPT !.of = 0] ELSE c) = c
      BY <3>2
    <3> HIDE DEF c
    <3>4. c \in calls'
      BY <1>1, <3>2, <3>3
    <3> QED
      BY <3>1, <3>4 DEF c
  <2> QED
    BY <1>3, <2>1, <2>2 DEF RegistersWait
<1>9. NoDanglingSocket'
  <2> SUFFICES ASSUME NEW j \in Sockets, sockets'[j].relay = "open",
                      sockets'[j].stage \in {"served", "over"}
               PROVE  tunnel'[sockets'[j].at] = j
    BY <1>3 DEF NoDanglingSocket
  <2>1. sockets[j].at # m /\ sockets'[j] = sockets[j] /\ sockets[j].at \in Machines
    BY <1>2, NetFacts
  <2>2. tunnel[sockets[j].at] = j
    BY <2>1 DEF Net, NoDanglingSocket
  <2> QED
    BY <1>4, <2>1, <2>2
<1> QED
  BY <1>6, <1>7, <1>8, <1>9 DEF Net

-----------------------------------------------------------------------------
\* The invariant is inductive.

LEMMA StepNet ==
  ASSUME Net, [Next]_vars
  PROVE  Net'
<1>1. ASSUME NEW m \in Machines, HostConnects(m) PROVE Net'
  BY <1>1, ConnectKeepsNet
<1>2. CASE HostDrops \/ HostObeysDrain \/ HostSeesClose
  BY <1>2, HostLeavesKeepsNet
<1>3. ASSUME NEW k \in Sockets, RegisterStep(k) \/ CloseStep(k) PROVE Net'
  BY <1>3, RegisterKeepsNet, RefuseKeepsNet, SeesGoneKeepsNet, OnCloseKeepsNet
  DEF RegisterStep, CloseStep
<1>4. ASSUME NEW c \in calls, Answered(c) \/ RegisterFails(c) \/ UnregisterFails(c) PROVE Net'
  BY <1>4, RegisteredKeepsNet, RegisterFailsKeepsNet, UnregisteredKeepsNet DEF Answered
<1>5. ASSUME NEW m \in Machines, Crash(m) \/ DrainEnds(m) PROVE Net'
  BY <1>5, GoneKeepsNet DEF Crash, DrainEnds, hostVars
<1>6. ASSUME UNCHANGED <<mine, sockets, tunnel, calls>>,
             machine' \in [Machines -> {"up", "draining", "down"}]
      PROVE  Net'
  BY <1>6 DEF Net, SocketTypes, TunnelsServe, RegistersWait, NoDanglingSocket, Sockets
<1>7. ASSUME NEW m \in Machines, Drain(m) \/ Restart(m) PROVE Net'
  <2>1. machine' \in [Machines -> {"up", "draining", "down"}]
    BY <1>7 DEF Drain, Restart, Net, SocketTypes
  <2>2. UNCHANGED <<mine, sockets, tunnel, calls>>
    BY <1>7 DEF Drain, Restart, hostVars, directoryVars
  <2> QED
    BY <1>6, <2>1, <2>2
<1>8. ASSUME NEW m \in Machines, OnlineTimer(m) PROVE Net'
  BY <1>6, <1>8 DEF OnlineTimer, hostVars, directoryVars, Net, SocketTypes
<1>9. ASSUME NEW m \in Machines, NEW i \in DOMAIN writes[m],
             OnlineWritten(m, i) \/ OnlineWriteFails(m, i) \/ RetryIsDropped(m, i)
      PROVE  Net'
  BY <1>6, <1>9
  DEF OnlineWritten, OnlineWriteFails, RetryIsDropped, hostVars, directoryVars, Net, SocketTypes
<1>10. CASE Expires \/ Sweep
  BY <1>6, <1>10 DEF Expires, Sweep, hostVars, Net, SocketTypes
<1>11. CASE UNCHANGED vars
  BY <1>6, <1>11 DEF vars, hostVars, directoryVars, Net, SocketTypes
<1> QED
  BY <1>1, <1>2, <1>3, <1>4, <1>5, <1>7, <1>8, <1>9, <1>10, <1>11 DEF Next

LEMMA StepDirectory ==
  ASSUME Net, DirectoryTypes, [Next]_vars
  PROVE  DirectoryTypes'
<1>1. ASSUME NEW c \in calls, Registered(c) \/ RegisterFails(c) PROVE DirectoryTypes'
  <2>1. c.at \in Machines
    BY NetFacts DEF Call
  <2> QED
    BY <1>1, <2>1 DEF Registered, RegisterFails, DirectoryTypes
<1>2. ASSUME NEW c \in calls, Unregistered(c) \/ UnregisterFails(c) PROVE DirectoryTypes'
  BY <1>2 DEF Unregistered, UnregisterFails, Unowned, DirectoryTypes
<1>3. ASSUME NEW m \in Machines, Crash(m) \/ Drain(m) \/ DrainEnds(m) \/ Restart(m)
      PROVE  DirectoryTypes'
  BY <1>3 DEF Crash, Drain, DrainEnds, Restart, Cleared, directoryVars, DirectoryTypes
<1>4. CASE Expires \/ Sweep
  BY <1>4 DEF Expires, Sweep, DirectoryTypes
<1>5. ASSUME UNCHANGED <<dir, fresh>> PROVE DirectoryTypes'
  BY <1>5 DEF DirectoryTypes
<1>6. ASSUME NEW m \in Machines, HostConnects(m) \/ OnlineTimer(m) PROVE DirectoryTypes'
  BY <1>5, <1>6 DEF HostConnects, OnlineTimer, directoryVars
<1>7. CASE HostDrops \/ HostObeysDrain \/ HostSeesClose
  BY <1>5, <1>7 DEF HostDrops, HostObeysDrain, HostSeesClose, directoryVars
<1>8. ASSUME NEW m \in Machines, NEW i \in DOMAIN writes[m],
             OnlineWritten(m, i) \/ OnlineWriteFails(m, i) \/ RetryIsDropped(m, i)
      PROVE  DirectoryTypes'
  BY <1>5, <1>8 DEF OnlineWritten, OnlineWriteFails, RetryIsDropped, directoryVars
<1>9. ASSUME NEW k \in Sockets, RegisterStep(k) \/ CloseStep(k) PROVE DirectoryTypes'
  BY <1>5, <1>9
  DEF RegisterStep, CloseStep, Register, RefuseWhileDraining, RelaySeesGone, OnClose, directoryVars
<1>10. CASE UNCHANGED vars
  BY <1>5, <1>10 DEF vars, directoryVars
<1> QED
  BY <1>1, <1>2, <1>3, <1>4, <1>6, <1>7, <1>8, <1>9, <1>10 DEF Next, Answered

LEMMA StepOnline ==
  ASSUME Net, OnlineTypes, [Next]_vars
  PROVE  OnlineTypes'
<1>1. ASSUME UNCHANGED <<shown, timer, version, writes, online>> PROVE OnlineTypes'
  BY <1>1 DEF OnlineTypes
<1>2. ASSUME NEW m \in Machines, OnlineTimer(m) PROVE OnlineTypes'
  BY <1>2, TimerTypes
<1>3. ASSUME NEW m \in Machines, NEW i \in DOMAIN writes[m],
             OnlineWritten(m, i) \/ OnlineWriteFails(m, i) \/ RetryIsDropped(m, i)
      PROVE  OnlineTypes'
  BY <1>3, WriteTypes
<1>4. ASSUME NEW c \in calls, Registered(c) PROVE OnlineTypes'
  <2>1. c.at \in Machines
    BY NetFacts DEF Call
  <2>2. CASE ScheduleOnlineWrite(c.at, TRUE)
    BY <1>4, <2>1, <2>2, ScheduleTypes DEF Registered
  <2>3. CASE UNCHANGED <<timer, version>>
    BY <1>1, <1>4, <2>3 DEF Registered
  <2> QED
    BY <1>4, <2>2, <2>3 DEF Registered
<1>5. ASSUME NEW k \in Sockets, OnClose(k) PROVE OnlineTypes'
  <2>1. sockets[k].at \in Machines
    BY NetFacts
  <2>2. CASE ScheduleOnlineWrite(sockets[k].at, FALSE)
    BY <1>5, <2>1, <2>2, ScheduleTypes DEF OnClose
  <2>3. CASE UNCHANGED <<timer, version>>
    BY <1>1, <1>5, <2>3 DEF OnClose
  <2> QED
    BY <1>5, <2>2, <2>3 DEF OnClose
<1>6. ASSUME NEW m \in Machines, Crash(m) \/ DrainEnds(m) PROVE OnlineTypes'
  <2>1. /\ shown' = [shown EXCEPT ![m] = FALSE] /\ timer' = [timer EXCEPT ![m] = None]
        /\ version' = [version EXCEPT ![m] = 0] /\ writes' = [writes EXCEPT ![m] = <<>>]
        /\ online' = online
    BY <1>6 DEF Crash, DrainEnds, Gone
  <2>2. <<>> \in Seq(Write)
    OBVIOUS
  <2> QED
    BY <2>1, <2>2 DEF OnlineTypes
<1>7. ASSUME NEW m \in Machines, HostConnects(m) \/ Drain(m) \/ Restart(m) PROVE OnlineTypes'
  BY <1>1, <1>7 DEF HostConnects, Drain, Restart, onlineVars
<1>8. CASE HostDrops \/ HostObeysDrain \/ HostSeesClose \/ Expires \/ Sweep
  BY <1>1, <1>8 DEF HostDrops, HostObeysDrain, HostSeesClose, Expires, Sweep, onlineVars
<1>9. ASSUME NEW k \in Sockets, RegisterStep(k) \/ RelaySeesGone(k) PROVE OnlineTypes'
  BY <1>1, <1>9 DEF RegisterStep, Register, RefuseWhileDraining, RelaySeesGone, onlineVars
<1>10. ASSUME NEW c \in calls, Unregistered(c) \/ RegisterFails(c) \/ UnregisterFails(c)
       PROVE  OnlineTypes'
  BY <1>1, <1>10 DEF Unregistered, RegisterFails, UnregisterFails, onlineVars
<1>11. CASE UNCHANGED vars
  BY <1>1, <1>11 DEF vars, onlineVars
<1> QED
  BY <1>2, <1>3, <1>4, <1>5, <1>6, <1>7, <1>8, <1>9, <1>10, <1>11
  DEF Next, CloseStep, Answered

LEMMA Inductive == Spec => []IInv
<1>1. IInv /\ [Next]_vars => IInv'
  BY StepNet, StepDirectory, StepOnline DEF IInv
<1> QED
  BY <1>1, InitIInv, PTL DEF Spec

-----------------------------------------------------------------------------
\* Every variable keeps its type, a tunnel is a served socket of its machine, and
\* exactly the sockets in a register wait for the directory.
THEOREM TypeCorrect == Spec => []TypeOK
<1>1. ASSUME IInv PROVE TypeOK
  <2>1. calls \subseteq [op : {"register", "unregister"}, at : Machines, of : 0..Len(sockets)]
    <3> SUFFICES ASSUME NEW c \in calls
                 PROVE  c \in [op : {"register", "unregister"}, at : Machines,
                               of : 0..Len(sockets)]
      OBVIOUS
    <3>1. c \in Call /\ c.of <= Len(sockets) /\ Len(sockets) \in Nat
      BY <1>1, NetFacts DEF IInv, Net, SocketTypes
    <3> QED
      BY <3>1 DEF Call
  <2>2. ASSUME NEW k \in Sockets
        PROVE  sockets[k].stage = "writing" <=> \E c \in calls : c.op = "register" /\ c.of = k
    <3>1. k # 0
      BY <1>1, NetFacts DEF IInv
    <3> QED
      BY <1>1, <3>1 DEF IInv, Net, RegistersWait
  <2>3. /\ sockets \in Seq([at : Machines, host : {"open", "gone"},
                            stage : {"arriving", "writing", "served", "over"},
                            relay : {"open", "closing", "closed"}])
        /\ mine \in 0..Len(sockets)
    BY <1>1, NetFacts DEF IInv, Net, SocketTypes, Socket, Stages
  <2>4. \A m \in Machines : timer[m] # None => timer[m] \in [is : BOOLEAN, version : Nat]
    BY <1>1 DEF IInv, OnlineTypes, Timer
  <2>5. writes \in [Machines -> Seq([is : BOOLEAN, version : Nat, attempt : 1..MaxAttempts])]
    BY <1>1 DEF IInv, OnlineTypes, Write
  <2> QED
    BY <1>1, <2>1, <2>2, <2>3, <2>4, <2>5
    DEF IInv, Net, SocketTypes, TunnelsServe, DirectoryTypes, OnlineTypes, TypeOK
<1> QED
  BY <1>1, Inductive, PTL

\* A socket whose register came to its end is its machine's tunnel or is being
\* closed, for any number of machines, sockets, crashes and directory failures.
THEOREM NoneDangles == Spec => []NoDanglingSocket
<1>1. IInv => NoDanglingSocket
  BY DEF IInv, Net
<1> QED
  BY <1>1, Inductive, PTL

\* A tunnel that is open at both ends goes only with its machine, or when another
\* socket begins to register or takes its place.
THEOREM LiveTunnelKept == Spec => LiveTunnelIsKept
<1> DEFINE Other(m, j) ==
      /\ sockets[j].at = m
      /\ (sockets[j].stage = "arriving" /\ sockets'[j].stage = "writing") \/ tunnel'[m] = j
<1> DEFINE Kept(m) ==
      LET k == tunnel[m]
      IN  k # 0 /\ tunnel'[m] # k /\ sockets[k].host = "open" /\ sockets[k].relay = "open" =>
            \/ machine'[m] = "down"
            \/ \E j \in Sockets \ {k} : Other(m, j)
<1>1. ASSUME IInv, [Next]_vars, NEW m \in Machines PROVE Kept(m)
  <2> SUFFICES ASSUME tunnel[m] # 0, tunnel'[m] # tunnel[m],
                      sockets[tunnel[m]].host = "open", sockets[tunnel[m]].relay = "open"
               PROVE  machine'[m] = "down" \/ \E j \in Sockets \ {tunnel[m]} : Other(m, j)
    OBVIOUS
  <2>0. /\ Net /\ sockets \in Seq(Socket) /\ tunnel \in [Machines -> Nat]
        /\ machine \in [Machines -> {"up", "draining", "down"}]
    BY <1>1 DEF IInv, Net, SocketTypes
  \* The socket moves on, and it is at this machine.
  <2>1. ASSUME NEW k \in Sockets, Register(k)
        PROVE  sockets[k].at = m /\ sockets'[k].stage = "writing" /\ sockets[k].stage = "arriving"
    <3> DEFINE n  == sockets[k].at
               ss == [sockets EXCEPT ![k].stage = "writing"]
    <3>1. /\ sockets[k].stage = "arriving" /\ tunnel' = [tunnel EXCEPT ![n] = 0]
          /\ sockets' = Closing(ss, tunnel[n])
      BY <2>1 DEF Register
    <3>2. n = m
      BY <2>0, <3>1
    <3>3. /\ "writing" \in Stages /\ k \in DOMAIN sockets /\ tunnel[n] \in 0..Len(sockets)
      BY <2>0, <3>2, NetFacts DEF Stages, Sockets
    <3>4. Staged(sockets, ss, k, "writing")
      BY <2>0, <3>3, StageMoves
    <3> HIDE DEF n, ss
    <3>5. Moved(sockets, sockets', k, "writing", tunnel[n])
      BY <2>0, <3>1, <3>3, <3>4, MovedByClosing
    <3> QED
      BY <3>1, <3>2, <3>5 DEF Moved, n
  <2>2. ASSUME NEW c \in calls, Registered(c)
        PROVE  /\ c.of \in Sockets /\ sockets[c.of].at = m
               /\ tunnel'[m] = c.of
    <3> DEFINE k  == c.of
               n  == c.at
    <3>1. c.op = "register" /\ k # 0 /\ tunnel' = [tunnel EXCEPT ![n] = k]
      BY <2>2 DEF Registered
    <3>2. n = m
      BY <2>0, <3>1
    <3>3. k \in Sockets /\ sockets[k].stage = "writing" /\ sockets[k].at = n
      BY <2>0, <3>1, NetFacts DEF Net, RegistersWait
    <3> QED
      BY <2>0, <3>1, <3>2, <3>3
  \* The late close of another socket leaves it alone, and its own is not open.
  <2>3. ASSUME NEW k \in Sockets, OnClose(k) PROVE FALSE
    <3>1. sockets[k].relay = "closing" /\ k = tunnel[sockets[k].at]
      BY <2>3 DEF OnClose, IsTunnelOf
    <3>2. sockets[k].at # m
      BY <3>1
    <3>3. tunnel' = [tunnel EXCEPT ![sockets[k].at] = 0]
      BY <2>3 DEF OnClose
    <3> QED
      BY <2>0, <3>2, <3>3
  <2>4. ASSUME NEW n \in Machines, Crash(n) \/ DrainEnds(n) PROVE machine'[m] = "down"
    BY <2>0, <2>4 DEF Crash, DrainEnds, Gone
  <2>5. ASSUME tunnel' = tunnel PROVE FALSE
    BY <2>5
  <2>6. ~ UNCHANGED vars /\ ~ Expires /\ ~ Sweep /\ ~ HostDrops /\ ~ HostObeysDrain
        /\ ~ HostSeesClose
    BY <2>5 DEF vars, Expires, Sweep, HostDrops, HostObeysDrain, HostSeesClose
  <2>7. ASSUME NEW n \in Machines
        PROVE  ~ (HostConnects(n) \/ OnlineTimer(n) \/ Drain(n) \/ Restart(n))
    BY <2>5 DEF HostConnects, OnlineTimer, Drain, Restart
  <2>8. ASSUME NEW n \in Machines, NEW i \in DOMAIN writes[n]
        PROVE  ~ (OnlineWritten(n, i) \/ OnlineWriteFails(n, i) \/ RetryIsDropped(n, i))
    BY <2>5 DEF OnlineWritten, OnlineWriteFails, RetryIsDropped
  <2>9. ASSUME NEW k \in Sockets PROVE ~ (RefuseWhileDraining(k) \/ RelaySeesGone(k))
    BY <2>5 DEF RefuseWhileDraining, RelaySeesGone
  <2>10. ASSUME NEW c \in calls
         PROVE  ~ (Unregistered(c) \/ UnregisterFails(c) \/ RegisterFails(c))
    BY <2>5 DEF Unregistered, UnregisterFails, RegisterFails
  <2>11. \/ \E k \in Sockets : Register(k)
         \/ \E c \in calls : Registered(c)
         \/ \E n \in Machines : Crash(n) \/ DrainEnds(n)
    BY <1>1, <2>3, <2>6, <2>7, <2>8, <2>9, <2>10 DEF Next, RegisterStep, CloseStep, Answered
  <2>12. tunnel[m] \in Sockets /\ sockets[tunnel[m]].stage = "served"
    BY <2>0, NetFacts DEF Net, TunnelsServe
  <2>13. ASSUME NEW k \in Sockets, Register(k)
         PROVE  k # tunnel[m] /\ Other(m, k)
    BY <2>1, <2>12, <2>13
  <2>14. ASSUME NEW c \in calls, Registered(c)
         PROVE  c.of \in Sockets \ {tunnel[m]} /\ Other(m, c.of)
    BY <2>2, <2>14
  <2> HIDE DEF Other
  <2> QED
    BY <2>4, <2>11, <2>13, <2>14
<1>2. IInv /\ [Next]_vars => \A m \in Machines : Kept(m)
  BY <1>1
<1> QED
  BY <1>2, Inductive, PTL DEF Spec, LiveTunnelIsKept

\* No machine takes another's entry out of the directory.
THEOREM DirectoryNotStolen == Spec => DirectoryIsNotStolen
<1> DEFINE NotStolen ==
      dir # None /\ dir' # dir =>
        \/ \E c \in calls \ calls' : c.op = "register" \/ c.at = dir
        \/ machine'[dir] # machine[dir]
        \/ ~fresh
<1>1. ASSUME IInv, [Next]_vars PROVE NotStolen
  <2> SUFFICES ASSUME dir # None, dir' # dir
               PROVE  \/ \E c \in calls \ calls' : c.op = "register" \/ c.at = dir
                      \/ machine'[dir] # machine[dir]
                      \/ ~fresh
    OBVIOUS
  <2>1. machine \in [Machines -> {"up", "draining", "down"}] /\ dir \in Machines
    BY <1>1 DEF IInv, Net, SocketTypes, DirectoryTypes
  <2>2. ASSUME NEW c \in calls, Answered(c) \/ RegisterFails(c) \/ UnregisterFails(c)
        PROVE  c \notin calls' /\ (c.op = "register" \/ c.at = dir)
    <3>1. CASE Registered(c)
      <4>1. c.op = "register" /\ c \notin {[op |-> "unregister", at |-> c.at, of |-> c.of]}
        BY <3>1 DEF Registered
      <4>2. \/ calls' = calls \ {c}
            \/ calls' = (calls \ {c}) \cup {}
            \/ calls' = (calls \ {c}) \cup {[op |-> "unregister", at |-> c.at, of |-> c.of]}
        BY <3>1 DEF Registered
      <4> QED
        BY <4>1, <4>2
    <3>2. CASE RegisterFails(c)
      BY <3>2 DEF RegisterFails
    <3>3. CASE Unregistered(c)
      BY <3>3 DEF Unregistered, Unowned
    <3>4. CASE UnregisterFails(c)
      BY <3>4 DEF UnregisterFails
    <3> QED
      BY <2>2, <3>1, <3>2, <3>3, <3>4 DEF Answered
  <2>3. ASSUME NEW m \in Machines, Crash(m) \/ Drain(m) \/ DrainEnds(m) \/ Restart(m)
        PROVE  machine'[dir] # machine[dir]
    <3>1. CASE Crash(m) \/ Drain(m)
      BY <3>1 DEF Crash, Drain, directoryVars
    <3>2. CASE DrainEnds(m)
      <4>1. dir = m /\ machine[m] = "draining" /\ machine' = [machine EXCEPT ![m] = "down"]
        BY <3>2 DEF DrainEnds, Cleared, Gone
      <4> QED
        BY <2>1, <4>1
    <3>3. CASE Restart(m)
      <4>1. dir = m /\ machine[m] = "down" /\ machine' = [machine EXCEPT ![m] = "up"]
        BY <3>3 DEF Restart, Cleared
      <4> QED
        BY <2>1, <4>1
    <3> QED
      BY <2>3, <3>1, <3>2, <3>3
  <2>4. CASE Sweep
    BY <2>4 DEF Sweep
  <2>5. ~ UNCHANGED vars /\ ~ Expires /\ ~ HostDrops /\ ~ HostObeysDrain /\ ~ HostSeesClose
    BY DEF vars, Expires, HostDrops, HostObeysDrain, HostSeesClose, directoryVars
  <2>6. ASSUME NEW n \in Machines PROVE ~ (HostConnects(n) \/ OnlineTimer(n))
    BY DEF HostConnects, OnlineTimer, directoryVars
  <2>7. ASSUME NEW n \in Machines, NEW i \in DOMAIN writes[n]
        PROVE  ~ (OnlineWritten(n, i) \/ OnlineWriteFails(n, i) \/ RetryIsDropped(n, i))
    BY DEF OnlineWritten, OnlineWriteFails, RetryIsDropped, directoryVars
  <2>8. ASSUME NEW k \in Sockets PROVE ~ (RegisterStep(k) \/ CloseStep(k))
    BY DEF RegisterStep, CloseStep, Register, RefuseWhileDraining, RelaySeesGone, OnClose,
           directoryVars
  <2> QED
    BY <1>1, <2>2, <2>3, <2>4, <2>5, <2>6, <2>7, <2>8 DEF Next
<1>2. IInv /\ [Next]_vars => NotStolen
  BY <1>1
<1> QED
  BY <1>2, Inductive, PTL DEF Spec, DirectoryIsNotStolen
=============================================================================
