---------------------------- MODULE AcpTurnProofs ----------------------------
(***************************************************************************)
(* Proofs about AcpTurn, for any users, prompts, tools, requests, forms of *)
(* any length and bound on the pipe.                                       *)
(*                                                                         *)
(* What a runtime owes whatever happens around it is Sound: a card waits   *)
(* once, unsettled, with nothing settled after it in its form, and the     *)
(* rows show as open what is.  Park, Settle and TerminalizeOpenToolCalls   *)
(* are described by the fields they change, and keep that.  Around it, a   *)
(* request that was not made or not read yet is Fresh, so that no card is  *)
(* put twice, a card somebody won is settled for them, and an update is    *)
(* read before the last turn ends.  A card opens the row of its tool call  *)
(* again: that the tool call is in flight then is Tidy, which follows each *)
(* request through the pipe, from the tool call it is about to the         *)
(* withdrawal ahead of its end.                                            *)
(***************************************************************************)
EXTENDS AcpTurn, SequenceTheorems, FiniteSetTheorems, TLAPS

Status == {"idle", "running", "awaiting_permission", "dead"}

Runtime ==
  [dead : BOOLEAN, status : Status, pending : SUBSET Cards, resolvers : SUBSET Cards,
   openTools : SUBSET Tools, active : Int,
   shown : [status : Status, pending : SUBSET Cards],
   rows : [Rows -> {"none", "open", "ended"}],
   resolution : [Cards -> Outcomes \cup {Nil}],
   answer : [Requests -> Outcomes \cup {"accept", "cancel", Nil}]]

Message ==
  [kind : {"update"}, of : Tools, is : {"open", "ended"}]
    \cup [kind : {"request"}, of : Requests, is : {"asked"}]
    \cup [kind : {"abort"}, of : Requests, is : {"withdrawn"}]
    \cup [kind : {"response"}, of : Prompts, is : {"over"}]

\* A request has at most one card that waits.  It is not settled, and neither are
\* the later questions of its form.
CardsOnce(h) ==
  \A c \in h.pending :
    /\ h.answer[c[1]] = Nil
    /\ \A d \in Cards : d[1] = c[1] =>
         /\ d \in h.pending => d = c
         /\ c[2] <= d[2] => h.resolution[d] = Nil

\* The adapter reports on its tools only during a turn, asks about the ones it has
\* reported, and keeps them open while it asks.
Orderly == ~LateUpdates /\ ~Unreported

\* What is shown as running is, with the requests shown in the rows ab.
RowsTrue(h, ab, forms) ==
  /\ Orderly => \A t \in Tools : h.rows[t] = "open" => t \in h.openTools
  /\ \A f \in forms :
       h.rows[f] = "open" <=> ab[f] = f /\ \E c \in h.pending : c[1] = f

AboutType(ab) == \A r \in Requests : ab[r] \in Tools \cup ({r} \cap Forms) \cup {Nil}

\* The tool call a request is about is in flight.
Grounded(h, ab, r) == Orderly /\ ab[r] \in Tools => ab[r] \in h.openTools

Kept(h) == h \in Runtime /\ h.resolvers = h.pending /\ CardsOnce(h)

Sound(h, ab) == Kept(h) /\ RowsTrue(h, ab, Forms)

Current(h) ==
  /\ h.status = ComputeStatus(h)
  /\ h.shown = [status |-> h.status, pending |-> h.pending]

\* Nothing waits for an answer on a dead session.
Live(h, ab) == Sound(h, ab) /\ Current(h) /\ (h.dead => h.pending = {})

-----------------------------------------------------------------------------
\* The invariant.

Types ==
  /\ proc \in {"up", "gone"}
  /\ pipe \in Seq(Message)
  /\ prompts \in [Prompts -> {"new", "asked", "answered", "over"}]
  /\ cancelled \subseteq Prompts
  /\ tool \in [Tools -> {"none", "open", "left", "ended"}]
  /\ AboutType(about)
  /\ about \in [Requests -> Rows \cup {Nil}]
  /\ asking \in [Requests -> Prompts \cup {Nil}]
  /\ IsFiniteSet({r \in Requests : asking[r] # Nil})
  /\ winners \in [Cards -> SUBSET Users]

InFlight(status) == {p \in Prompts : status[p] \in {"asked", "answered"}}

Active ==
  /\ IsFiniteSet(InFlight(prompts))
  /\ rt.active = Cardinality(InFlight(prompts))

Untouched(h, won, r) ==
  /\ h.answer[r] = Nil
  /\ \A c \in Cards : c[1] = r => /\ c \notin h.pending
                                  /\ h.resolution[c] = Nil
                                  /\ won[c] = {}

Unread(messages, r) ==
  {i \in DOMAIN messages : messages[i].kind = "request" /\ messages[i].of = r}

\* A request is written once, and until it is read nothing is known of it.
Fresh ==
  \A r \in Requests :
    /\ asking[r] = Nil => Unread(pipe, r) = {}
    /\ \A i, j \in Unread(pipe, r) : i = j
    /\ asking[r] = Nil \/ Unread(pipe, r) # {} => Untouched(rt, winners, r)

\* A card was won once, and is settled for who won it.
Won ==
  \A c \in Cards :
    \/ winners[c] = {}
    \/ \E u \in Users :
         /\ winners[c] = {u}
         /\ rt.resolution[c] = u
         /\ c[1] \in Permissions => rt.answer[c[1]] = u

Responses(messages, p) ==
  {i \in DOMAIN messages : messages[i].kind = "response" /\ messages[i].of = p}

Answered ==
  \A p \in Prompts :
    /\ Responses(pipe, p) # {} => prompts[p] = "answered"
    /\ \A i, j \in Responses(pipe, p) : i = j

\* An update is read before the turn it belongs to is over.
Covered ==
  \A i \in DOMAIN pipe :
    pipe[i].kind = "update" =>
      \/ \E p \in Prompts : prompts[p] = "asked"
      \/ \E j \in DOMAIN pipe : i < j /\ pipe[j].kind = "response"

ToolsEnd == rt.active = 0 => rt.openTools = {}

InTurn == ~LateUpdates => Covered /\ ToolsEnd

\* A request waits to be read, or a card of it for an answer.
Engaged(h, messages, r) == Unread(messages, r) # {} \/ \E c \in h.pending : c[1] = r

WithdrawnBy(messages, r, n) == \E a \in DOMAIN messages : a < n /\ messages[a] = Abort(r)

\* A request is withdrawn after it is made.
Withdrawals ==
  \A r \in Requests : \A a \in DOMAIN pipe : pipe[a] = Abort(r) =>
    asking[r] # Nil /\ \A k \in Unread(pipe, r) : k < a

\* A request about a tool call is of a turn in flight, and withdrawn before that turn
\* or the tool call ends; the tool call starts before it.
BackedFor(r) ==
  /\ prompts[asking[r]] \in {"asked", "answered"}
  /\ prompts[asking[r]] = "answered" => WithdrawnBy(pipe, r, Len(pipe) + 1)
  /\ \A n \in DOMAIN pipe :
       pipe[n] \in {Update(about[r], "ended"), Response(asking[r])} => WithdrawnBy(pipe, r, n)
  /\ \/ about[r] \in rt.openTools
     \/ \E k \in Unread(pipe, r), j \in DOMAIN pipe :
          j < k /\ pipe[j] = Update(about[r], "open")

Backed ==
  \A r \in Requests : Engaged(rt, pipe, r) /\ about[r] \in Tools => BackedFor(r)

\* A tool call that is open at the adapter is in flight, or about to be.
Reported ==
  \A t \in Tools :
    /\ tool[t] # "ended" => \A i \in DOMAIN pipe : pipe[i] # Update(t, "ended")
    /\ tool[t] = "open" =>
         /\ \E p \in Prompts : prompts[p] = "asked"
         /\ \/ t \in rt.openTools
            \/ \E j \in DOMAIN pipe : pipe[j] = Update(t, "open")

Tidy == Orderly /\ ~rt.dead => Withdrawals /\ Backed /\ Reported

IInv ==
  Types /\ Live(rt, about) /\ Active /\ Fresh /\ Won /\ Answered /\ InTurn /\ Tidy

-----------------------------------------------------------------------------
\* Cards.

LEMMA CardType ==
  ASSUME NEW c \in Cards
  PROVE  /\ c[1] \in Requests
         /\ c[2] \in Nat
         /\ c[1] \in Permissions => c[2] = 1
         /\ c[1] \in Forms <=> c[1] \notin Permissions
BY TurnAssumption DEF Cards, Requests

LEMMA CardKey ==
  \A c, d \in Cards : c[1] = d[1] /\ c[2] = d[2] => c = d
BY DEF Cards

LEMMA FirstCard ==
  ASSUME NEW r \in Requests
  PROVE  /\ Card(r) \in Cards
         /\ Card(r)[1] = r
         /\ Card(r)[2] = 1
         /\ \A d \in Cards : Card(r)[2] <= d[2]
         /\ r \in Permissions => \A d \in Cards : d[1] = r => d = Card(r)
<1>1. Card(r) = <<r, 1>>
  BY DEF Card
<1>2. 1 \in 1..Questions
  BY TurnAssumption
<1>3. Card(r) \in Cards
  BY <1>1, <1>2 DEF Cards, Requests
<1>4. \A d \in Cards : 1 <= d[2]
  BY TurnAssumption DEF Cards
<1>5. r \in Permissions => \A d \in Cards : d[1] = r => d[2] = 1
  BY CardType
<1> QED
  BY <1>1, <1>3, <1>4, <1>5, CardKey

LEMMA NextCard ==
  ASSUME NEW c \in Cards, c[1] \in Forms, c[2] # Questions
  PROVE  /\ <<c[1], c[2] + 1>> \in Cards
         /\ <<c[1], c[2] + 1>>[1] = c[1]
         /\ <<c[1], c[2] + 1>>[2] = c[2] + 1
<1>1. c[1] \notin Permissions
  BY CardType
<1>2. c \in Forms \X (1..Questions)
  BY <1>1 DEF Cards
<1>3. c[2] \in 1..Questions
  BY <1>2
<1>4. c[2] + 1 \in 1..Questions
  BY <1>3, TurnAssumption
<1> QED
  BY <1>4 DEF Cards

\* The rows of tools and of forms are apart.
LEMMA RowFacts ==
  /\ Tools \subseteq Rows
  /\ Forms \subseteq Rows
  /\ \A t \in Tools : t \notin Requests /\ t \notin Forms
  /\ Forms \subseteq Requests
  /\ Nil \notin Rows
BY TurnAssumption DEF Rows, Requests

\* A request is shown in no other form's row.
LEMMA OtherForms ==
  ASSUME AboutType(about), NEW r \in Requests, NEW f \in Forms, about[r] = f
  PROVE  f = r
BY RowFacts DEF AboutType

-----------------------------------------------------------------------------
\* The runtime.

\* What a state frame does not change.
Agree(g, h) ==
  /\ g.dead = h.dead
  /\ g.pending = h.pending
  /\ g.resolvers = h.resolvers
  /\ g.openTools = h.openTools
  /\ g.active = h.active
  /\ g.rows = h.rows
  /\ g.resolution = h.resolution
  /\ g.answer = h.answer

LEMMA SyncStatusAgrees ==
  ASSUME NEW h \in Runtime
  PROVE  /\ SyncStatus(h) \in Runtime
         /\ Current(SyncStatus(h))
         /\ Agree(SyncStatus(h), h)
<1>1. ComputeStatus(h) \in Status
  BY DEF ComputeStatus, Status, Runtime
<1>2. SyncStatus(h) \in Runtime
  BY <1>1 DEF SyncStatus, Runtime
<1>3. Agree(SyncStatus(h), h)
  BY DEF SyncStatus, Runtime, Agree
<1>4. /\ SyncStatus(h).status = ComputeStatus(h)
      /\ SyncStatus(h).shown = [status |-> ComputeStatus(h), pending |-> h.pending]
  BY DEF SyncStatus, Runtime
<1>5. ComputeStatus(SyncStatus(h)) = ComputeStatus(h)
  BY <1>3 DEF ComputeStatus, Agree
<1> QED
  BY <1>2, <1>3, <1>4, <1>5 DEF Current, Agree

\* What parking a card changes, the status, state frame and rows left to Sound
\* and Current.
Parked(g, h, c) ==
  /\ g.dead = h.dead
  /\ g.pending = h.pending \cup {c}
  /\ g.openTools = h.openTools
  /\ g.active = h.active
  /\ g.resolution = h.resolution
  /\ g.answer = h.answer

LEMMA ParkSound ==
  ASSUME NEW h, Kept(h), AboutType(about), NEW c \in Cards,
         RowsTrue(h, about, Forms \ {c[1]}), Grounded(h, about, c[1]),
         c[1] \in Forms /\ h.rows[c[1]] = "open" => about[c[1]] = c[1],
         h.answer[c[1]] = Nil,
         \A d \in Cards : d[1] = c[1] =>
           /\ d \notin h.pending
           /\ c[2] <= d[2] => h.resolution[d] = Nil
  PROVE  /\ Sound(Park(h, c), about)
         /\ Current(Park(h, c))
         /\ Parked(Park(h, c), h, c)
<1> DEFINE g == [h EXCEPT !.pending = @ \cup {c}, !.resolvers = @ \cup {c},
                          !.rows[about[c[1]]] = "open"]
           w == about[c[1]]
<1>1. h \in Runtime /\ h.resolvers = h.pending
  BY DEF Kept
<1>2. /\ g \in Runtime
      /\ g.resolvers = g.pending
      /\ Parked(g, h, c)
      /\ g.rows = [h.rows EXCEPT ![w] = "open"]
  <2>1. /\ h.rows \in [Rows -> {"none", "open", "ended"}]
        /\ h.pending \in SUBSET Cards /\ h.resolvers \in SUBSET Cards
    BY <1>1 DEF Runtime
  <2>2. [h.rows EXCEPT ![w] = "open"] \in [Rows -> {"none", "open", "ended"}]
    BY <2>1
  <2>3. h.pending \cup {c} \in SUBSET Cards /\ h.resolvers \cup {c} \in SUBSET Cards
    BY <2>1
  <2>4. g \in Runtime
    BY <1>1, <2>2, <2>3 DEF Runtime
  <2>5. /\ g.resolvers = h.resolvers \cup {c}
        /\ Parked(g, h, c)
        /\ g.rows = [h.rows EXCEPT ![w] = "open"]
    BY <1>1 DEF Runtime, Parked
  <2> QED
    BY <1>1, <2>4, <2>5 DEF Parked
<1> HIDE DEF g
<1>0. c[1] \in Requests
  BY CardType
<1>3. CardsOnce(g)
  <2>1. h.pending \subseteq Cards
    BY <1>1 DEF Runtime
  <2>2. c[2] \in Nat
    BY CardType
  <2> QED
    BY <1>2, <2>1, <2>2 DEF CardsOnce, Kept, Parked
<1>4. RowsTrue(g, about, Forms)
  <2>1. h.rows \in [Rows -> {"none", "open", "ended"}]
    BY <1>1 DEF Runtime
  <2>2. \A x \in Rows : g.rows[x] = IF x = w THEN "open" ELSE h.rows[x]
    BY <1>2, <2>1
  <2> HIDE DEF w
  <2>3. ASSUME Orderly, NEW t \in Tools, g.rows[t] = "open"
        PROVE  t \in g.openTools
    <3>1. h.rows[t] = "open" \/ w = t
      BY <2>2, <2>3, RowFacts
    <3> QED
      BY <1>2, <2>3, <3>1 DEF RowsTrue, Parked, Grounded, w
  <2>4. ASSUME NEW f \in Forms, f # c[1]
        PROVE  g.rows[f] = "open" <=> about[f] = f /\ \E d \in g.pending : d[1] = f
    <3>1. w # f
      BY <1>0, <2>4, OtherForms DEF w
    <3>2. g.rows[f] = h.rows[f]
      BY <2>2, <3>1, RowFacts
    <3>3. f \in Forms \ {c[1]}
      BY <2>4
    <3>4. h.rows[f] = "open" <=> about[f] = f /\ \E d \in h.pending : d[1] = f
      BY <3>3 DEF RowsTrue
    <3>5. g.pending = h.pending \cup {c}
      BY <1>2 DEF Parked
    <3> QED
      BY <2>4, <3>2, <3>4, <3>5
  <2>5. ASSUME NEW f \in Forms, f = c[1]
        PROVE  g.rows[f] = "open" <=> about[f] = f /\ \E d \in g.pending : d[1] = f
    <3>1. c \in g.pending
      BY <1>2 DEF Parked
    <3>2. g.rows[f] = "open" <=> about[f] = f
      BY <2>2, <2>5, RowFacts DEF w
    <3> QED
      BY <2>5, <3>1, <3>2
  <2> QED
    BY <2>3, <2>4, <2>5 DEF RowsTrue
<1>5. Park(h, c) = SyncStatus(g)
  BY DEF Park, g
<1>6. SyncStatus(g) \in Runtime /\ Current(SyncStatus(g)) /\ Agree(SyncStatus(g), g)
  BY <1>2, SyncStatusAgrees
<1>7. Sound(SyncStatus(g), about)
  BY <1>2, <1>3, <1>4, <1>6 DEF Sound, Kept, CardsOnce, RowsTrue, Agree
<1> QED
  BY <1>2, <1>5, <1>6, <1>7 DEF Parked, Agree

LEMMA ReplyFacts ==
  ASSUME NEW c \in Cards, NEW outcome \in Outcomes
  PROVE  /\ Reply(c, outcome) \in Outcomes \cup {"accept", "cancel", Nil}
         /\ c[1] \in Permissions => Reply(c, outcome) = outcome
         /\ outcome = "cancelled" => Reply(c, outcome) # Nil
         /\ Reply(c, outcome) = Nil => c[1] \in Forms /\ c[2] # Questions
<1>0. c[1] \in Forms <=> c[1] \notin Permissions
  BY CardType
<1>1. outcome # Nil
  BY TurnAssumption DEF Outcomes
<1>2. CASE c[1] \in Permissions
  <2>1. Reply(c, outcome) = outcome
    BY <1>2, <1>0 DEF Reply
  <2> QED
    BY <1>1, <1>2, <2>1
<1>3. CASE c[1] \in Forms /\ outcome = "cancelled"
  <2>1. Reply(c, outcome) = "cancel"
    BY <1>3, <1>0 DEF Reply
  <2> QED
    BY <1>3, <2>1, <1>0, TurnAssumption
<1>4. CASE c[1] \in Forms /\ outcome # "cancelled" /\ c[2] = Questions
  <2>1. Reply(c, outcome) = "accept"
    BY <1>4, <1>0 DEF Reply
  <2> QED
    BY <1>4, <2>1, <1>0, TurnAssumption
<1>5. CASE c[1] \in Forms /\ outcome # "cancelled" /\ c[2] # Questions
  <2>1. Reply(c, outcome) = Nil
    BY <1>5, <1>0 DEF Reply
  <2> QED
    BY <1>5, <2>1, <1>0
<1> QED
  BY <1>2, <1>3, <1>4, <1>5, <1>0 DEF Requests

\* What settling the cards of now changes, and who is still asked for an answer.
Settled(g, h, now, outcome) ==
  /\ g.dead = h.dead
  /\ g.openTools = h.openTools
  /\ g.active = h.active
  /\ \A c \in Cards : g.resolution[c] = IF c \in now THEN outcome ELSE h.resolution[c]
  /\ \A d \in g.pending : d \in h.pending \ now \/ \E c \in now : d[1] = c[1]
  /\ outcome = "cancelled" => g.pending = h.pending \ now
  /\ \A r \in Requests : (\A c \in now : c[1] # r) => g.answer[r] = h.answer[r]
  /\ \A c \in now : c[1] \in Permissions => g.answer[c[1]] = outcome

\* Only what waits is settled; the next question is put in the same step.
LEMMA SettleSound ==
  ASSUME NEW h, Sound(h, about), AboutType(about), NEW cs, NEW outcome \in Outcomes,
         outcome # "cancelled" => /\ \E c \in Cards : cs = {c}
                                  /\ \A c \in h.pending : Grounded(h, about, c[1])
  PROVE  LET g == Settle(h, cs, outcome)
             now == Unsettled(h, cs)
         IN  /\ Sound(g, about)
             /\ Settled(g, h, now, outcome)
             /\ now = {} => g = h
             /\ now # {} => Current(g)
<1> DEFINE now == Unsettled(h, cs)
           Of(r) == CHOOSE c \in now : c[1] = r
           over == {c[1] : c \in {d \in now : Reply(d, outcome) # Nil}}
           next == {<<c[1], c[2] + 1>> : c \in {d \in now : Reply(d, outcome) = Nil}}
           resolution == [c \in Cards |-> IF c \in now THEN outcome ELSE h.resolution[c]]
           answer == [r \in Requests |->
                       IF r \in over THEN Reply(Of(r), outcome) ELSE h.answer[r]]
           rows == [w \in Rows |-> IF w \in over /\ Own(w) THEN "ended" ELSE h.rows[w]]
           k == [h EXCEPT !.pending = h.pending \ now, !.resolvers = h.resolvers \ now,
                          !.resolution = resolution, !.answer = answer, !.rows = rows]
           told == SyncStatus(k)
           g == Settle(h, cs, outcome)
<1>1. /\ h \in Runtime /\ h.resolvers = h.pending /\ CardsOnce(h) /\ RowsTrue(h, about, Forms)
      /\ now \subseteq h.pending /\ now \subseteq Cards /\ h.pending \subseteq Cards
  BY DEF Sound, Kept, Unsettled, Runtime
<1>2. g = CASE now = {} -> h
            [] now # {} /\ next = {} -> told
            [] OTHER -> Park(told, CHOOSE c \in next : TRUE)
  BY DEF Settle
<1>3. \A c \in now : Of(c[1]) = c
  BY <1>1 DEF CardsOnce
<1>4. answer \in [Requests -> Outcomes \cup {"accept", "cancel", Nil}]
  <2>1. h.answer \in [Requests -> Outcomes \cup {"accept", "cancel", Nil}]
    BY <1>1 DEF Runtime
  <2>2. \A r \in over : Reply(Of(r), outcome) \in Outcomes \cup {"accept", "cancel", Nil}
    BY <1>1, <1>3, ReplyFacts
  <2> QED
    BY <2>1, <2>2
<1>5. \A c \in now : c[1] \in Permissions => answer[c[1]] = outcome
  <2> SUFFICES ASSUME NEW c \in now, c[1] \in Permissions
               PROVE  answer[c[1]] = outcome
    OBVIOUS
  <2>1. c \in Cards /\ Reply(c, outcome) = outcome /\ outcome # Nil
    BY <1>1, ReplyFacts, TurnAssumption DEF Outcomes
  <2>2. c[1] \in over /\ c[1] \in Requests
    BY <2>1 DEF Requests
  <2> QED
    BY <1>3, <2>1, <2>2
<1>6. \A r \in Requests : (\A c \in now : c[1] # r) => answer[r] = h.answer[r]
  OBVIOUS
<1>7. rows \in [Rows -> {"none", "open", "ended"}]
  BY <1>1 DEF Runtime
<1>8. resolution \in [Cards -> Outcomes \cup {Nil}]
  BY <1>1 DEF Runtime
<1>9. \A r \in over : \E c \in now : c[1] = r
  OBVIOUS
<1>10. now = {} \/ next = {} \/ \E c \in now : now = {c} /\ Reply(c, outcome) = Nil
  <2>1. CASE outcome = "cancelled"
    BY <1>1, <2>1, ReplyFacts
  <2>2. CASE outcome # "cancelled"
    BY <2>2 DEF Unsettled
  <2> QED
    BY <2>1, <2>2
<1>11. \A c \in now : Reply(c, outcome) # Nil => c[1] \in over
  OBVIOUS
<1>12. next = {} => \A c \in now : Reply(c, outcome) # Nil
  OBVIOUS
<1>13. \A c \in now : now = {c} /\ Reply(c, outcome) = Nil =>
         next = {<<c[1], c[2] + 1>>} /\ over = {}
  OBVIOUS
<1>14. /\ k \in Runtime
       /\ k.pending = h.pending \ now /\ k.resolvers = h.resolvers \ now
       /\ k.resolution = resolution /\ k.answer = answer /\ k.rows = rows
       /\ k.dead = h.dead /\ k.openTools = h.openTools /\ k.active = h.active
  BY <1>1, <1>4, <1>7, <1>8 DEF Runtime
<1> HIDE DEF now, Of, over, next, resolution, answer, rows, k, told, g
<1>15. \A c \in Cards : k.resolution[c] = IF c \in now THEN outcome ELSE h.resolution[c]
  BY <1>14 DEF resolution
<1>16. Kept(k)
  <2>1. ASSUME NEW c \in k.pending, NEW d \in Cards, d[1] = c[1]
        PROVE  /\ d \in k.pending => d = c
               /\ c[2] <= d[2] => k.resolution[d] = Nil
    <3>1. c \in h.pending /\ c \notin now
      BY <1>14, <2>1
    <3>2. d \in h.pending => d = c
      BY <1>1, <2>1, <3>1 DEF CardsOnce
    <3>3. d \notin now
      BY <1>1, <3>1, <3>2
    <3>4. k.resolution[d] = h.resolution[d]
      BY <1>15, <3>3
    <3> QED
      BY <1>1, <1>14, <2>1, <3>1, <3>2, <3>4 DEF CardsOnce
  <2>2. ASSUME NEW c \in k.pending
        PROVE  k.answer[c[1]] = Nil
    <3>1. c \in h.pending /\ c \notin now /\ c \in Cards
      BY <1>1, <1>14, <2>2
    <3>2. \A d \in now : d[1] # c[1]
      BY <1>1, <3>1 DEF CardsOnce
    <3>3. c[1] \in Requests
      BY <3>1, CardType
    <3> QED
      BY <1>1, <1>6, <1>14, <3>1, <3>2, <3>3 DEF CardsOnce
  <2> QED
    BY <1>1, <1>14, <2>1, <2>2 DEF Kept, CardsOnce
<1>17. told \in Runtime /\ Current(told) /\ Agree(told, k)
  BY <1>14, SyncStatusAgrees DEF told
<1>18. Kept(told)
  BY <1>16, <1>17 DEF Kept, CardsOnce, Agree
<1>19. ASSUME Orderly, NEW t \in Tools, k.rows[t] = "open"
       PROVE  t \in k.openTools
  <2>1. h.rows[t] = "open"
    BY <1>14, <1>19, RowFacts DEF rows
  <2> QED
    BY <1>1, <1>14, <1>19, <2>1 DEF RowsTrue
<1>20. ASSUME NEW f \in Forms, \A c \in now : c[1] # f
       PROVE  k.rows[f] = "open" <=> about[f] = f /\ \E c \in k.pending : c[1] = f
  <2>1. k.rows[f] = h.rows[f]
    BY <1>9, <1>14, <1>20, RowFacts DEF rows
  <2> QED
    BY <1>1, <1>14, <1>20, <2>1 DEF RowsTrue
<1>21. \A r \in Requests : (\A c \in now : c[1] # r) => told.answer[r] = h.answer[r]
  BY <1>6, <1>14, <1>17 DEF Agree
<1>22. \A c \in now : c[1] \in Permissions => told.answer[c[1]] = outcome
  BY <1>5, <1>14, <1>17 DEF Agree
<1>23. CASE now = {}
  <2>1. g = h
    BY <1>2, <1>23
  <2>2. Settled(h, h, now, outcome)
    BY <1>23 DEF Settled
  <2> QED
    BY <1>23, <2>1, <2>2 DEF g, now
<1>24. CASE now # {} /\ next = {}
  <2>1. g = told
    BY <1>2, <1>24
  <2>2. ASSUME NEW f \in Forms, NEW c \in now, c[1] = f
        PROVE  k.rows[f] = "open" <=> about[f] = f /\ \E d \in k.pending : d[1] = f
    <3>1. about[f] = f => k.rows[f] = "ended"
      BY <1>11, <1>12, <1>14, <1>24, <2>2, RowFacts DEF rows, Own
    <3>3. about[f] # f => k.rows[f] # "open"
      <4>1. ASSUME about[f] # f
            PROVE  k.rows[f] = h.rows[f]
        BY <1>14, <4>1, RowFacts DEF rows, Own
      <4> QED
        BY <1>1, <4>1 DEF RowsTrue
    <3>2. \A d \in h.pending : d[1] = f => d = c
      BY <1>1, <2>2 DEF CardsOnce
    <3> QED
      BY <1>14, <2>2, <3>1, <3>2, <3>3
  <2>3. RowsTrue(k, about, Forms)
    BY <1>19, <1>20, <2>2 DEF RowsTrue
  <2>4. Sound(told, about)
    BY <1>17, <1>18, <2>3 DEF Sound, RowsTrue, Agree
  <2>5. Settled(told, h, now, outcome)
    BY <1>14, <1>15, <1>17, <1>21, <1>22 DEF Settled, Agree
  <2> QED
    BY <1>17, <1>24, <2>1, <2>4, <2>5 DEF g, now
<1>25. CASE now # {} /\ next # {}
  <2> PICK c \in now : now = {c} /\ Reply(c, outcome) = Nil
    BY <1>10, <1>25
  <2> DEFINE n == <<c[1], c[2] + 1>>
  <2>1. next = {n} /\ over = {}
    BY <1>13
  <2>2. c \in Cards /\ c[1] \in Forms /\ c[2] # Questions /\ c[2] \in Nat
    BY <1>1, ReplyFacts, CardType
  <2>3. n \in Cards /\ n[1] = c[1] /\ n[2] = c[2] + 1
    BY <2>2, NextCard
  <2> HIDE DEF n
  <2>4. g = Park(told, n)
    BY <1>2, <1>25, <2>1
  <2>5. RowsTrue(told, about, Forms \ {n[1]})
    BY <1>17, <1>19, <1>20, <2>3 DEF RowsTrue, Agree
  <2>6. ASSUME NEW d \in Cards, d[1] = n[1]
        PROVE  /\ d \notin told.pending
               /\ n[2] <= d[2] => told.resolution[d] = Nil
    <3>1. d \in h.pending => d = c
      BY <1>1, <2>2, <2>3, <2>6 DEF CardsOnce
    <3>2. d \notin told.pending
      BY <1>14, <1>17, <3>1 DEF Agree
    <3>3. ASSUME n[2] <= d[2]
          PROVE  told.resolution[d] = Nil
      <4>1. d[2] \in Nat
        BY CardType
      <4>2. c[2] <= d[2] /\ d # c
        BY <2>2, <2>3, <3>3, <4>1
      <4>3. h.resolution[d] = Nil
        BY <1>1, <2>2, <2>3, <2>6, <4>2 DEF CardsOnce
      <4> QED
        BY <1>15, <1>17, <4>2, <4>3 DEF Agree
    <3> QED
      BY <3>2, <3>3
  <2>10. told.answer[n[1]] = Nil
    <3>1. c \in h.pending /\ c[1] \in Requests
      BY <1>1, <2>2, CardType
    <3>2. h.answer[c[1]] = Nil
      BY <1>1, <3>1 DEF CardsOnce
    <3>3. answer[c[1]] = h.answer[c[1]]
      BY <2>1, <3>1 DEF answer
    <3> QED
      BY <1>14, <1>17, <2>3, <3>2, <3>3 DEF Agree
  <2>11. ASSUME n[1] \in Forms, told.rows[n[1]] = "open"
         PROVE  about[n[1]] = n[1]
    <3>1. k.rows[n[1]] = "open"
      BY <1>17, <2>11 DEF Agree
    <3>2. k.rows[n[1]] = h.rows[n[1]]
      BY <1>14, <2>1, <2>11, RowFacts DEF rows
    <3> QED
      BY <1>1, <2>11, <3>1, <3>2 DEF RowsTrue
  <2>8. outcome # "cancelled"
    BY <2>2, ReplyFacts
  <2>12. Grounded(told, about, n[1])
    <3>1. Grounded(h, about, c[1])
      BY <1>1, <2>8
    <3>2. told.openTools = h.openTools
      BY <1>14, <1>17 DEF Agree
    <3> QED
      BY <2>3, <3>1, <3>2 DEF Grounded
  <2>7. Sound(g, about) /\ Current(g) /\ Parked(g, told, n)
    BY <1>18, <2>3, <2>4, <2>5, <2>6, <2>10, <2>11, <2>12, ParkSound
  <2>9. Settled(g, h, now, outcome)
    BY <1>14, <1>15, <1>17, <1>21, <1>22, <2>3, <2>7, <2>8 DEF Settled, Agree, Parked
  <2> QED
    BY <1>25, <2>7, <2>9 DEF g, now
<1> QED
  BY <1>23, <1>24, <1>25

\* What a step keeps of the cards and requests outside q: what is settled, and
\* what has not been asked.
Keeps(g, h, q) ==
  /\ \A c \in Cards : c[1] \notin q /\ h.resolution[c] # Nil =>
       g.resolution[c] = h.resolution[c]
  /\ \A r \in Requests \ q : (\A c \in h.pending : c[1] # r) =>
       /\ g.answer[r] = h.answer[r]
       /\ \A c \in g.pending : c[1] # r
       /\ \A c \in Cards : c[1] = r => g.resolution[c] = h.resolution[c]

LEMMA KeepsAgain ==
  ASSUME NEW h, NEW g, NEW k, NEW q, Keeps(g, h, q), Keeps(k, g, {})
  PROVE  Keeps(k, h, q)
BY DEF Keeps

LEMMA SettleKeeps ==
  ASSUME NEW h, Sound(h, about), NEW cs, NEW outcome, NEW g,
         Settled(g, h, Unsettled(h, cs), outcome)
  PROVE  Keeps(g, h, {})
<1>1. /\ Unsettled(h, cs) \subseteq h.pending
      /\ h.pending \subseteq Cards
      /\ CardsOnce(h)
  BY DEF Sound, Kept, Unsettled, Runtime
<1>2. \A c \in Unsettled(h, cs) : h.resolution[c] = Nil /\ c[2] <= c[2]
  <2> SUFFICES ASSUME NEW c \in Unsettled(h, cs)
               PROVE  h.resolution[c] = Nil /\ c[2] <= c[2]
    OBVIOUS
  <2>1. c \in Cards /\ c \in h.pending
    BY <1>1
  <2>2. c[2] <= c[2]
    BY <2>1, CardType
  <2> QED
    BY <1>1, <2>1, <2>2 DEF CardsOnce
<1> QED
  BY <1>1, <1>2 DEF Settled, Keeps

\* A card that is settled does not wait.
LEMMA SettledIsOver ==
  ASSUME NEW h, Sound(h, about), NEW c \in Cards, h.resolution[c] # Nil
  PROVE  c \notin h.pending
<1>1. c[2] <= c[2]
  BY CardType
<1> QED
  BY <1>1 DEF Sound, Kept, CardsOnce

LEMMA SettleLive ==
  ASSUME NEW h, Live(h, about), AboutType(about), NEW cs, NEW outcome \in Outcomes,
         outcome # "cancelled" => /\ \E c \in Cards : cs = {c}
                                  /\ \A c \in h.pending : Grounded(h, about, c[1])
  PROVE  /\ Live(Settle(h, cs, outcome), about)
         /\ Settled(Settle(h, cs, outcome), h, Unsettled(h, cs), outcome)
         /\ Keeps(Settle(h, cs, outcome), h, {})
         /\ Unsettled(h, cs) = {} => Settle(h, cs, outcome) = h
<1> DEFINE g == Settle(h, cs, outcome)
           now == Unsettled(h, cs)
<1>1. /\ Sound(g, about)
      /\ Settled(g, h, now, outcome)
      /\ now = {} => g = h
      /\ now # {} => Current(g)
  BY SettleSound DEF Live
<1>2. Current(g)
  BY <1>1 DEF Live
<1>3. now \subseteq h.pending
  BY DEF Unsettled, Live, Sound, Kept
<1> HIDE DEF g, now
<1>4. g.dead => g.pending = {}
  BY <1>1, <1>3 DEF Live, Settled
<1>5. Keeps(g, h, {})
  BY <1>1, SettleKeeps DEF Live, now
<1> QED
  BY <1>1, <1>2, <1>4, <1>5 DEF Live, g, now

LEMMA TerminalizeSound ==
  ASSUME NEW h, Sound(h, about)
  PROVE  LET g == TerminalizeOpenToolCalls(h)
         IN  /\ Sound(g, about)
             /\ g.openTools = {}
             /\ g.dead = h.dead /\ g.active = h.active
             /\ g.pending = h.pending /\ g.resolution = h.resolution
             /\ g.answer = h.answer
<1> DEFINE g == TerminalizeOpenToolCalls(h)
           rows == [w \in Rows |-> IF w \in h.openTools THEN "ended" ELSE h.rows[w]]
<1>1. h \in Runtime
  BY DEF Sound, Kept
<1>2. rows \in [Rows -> {"none", "open", "ended"}] /\ h.openTools \subseteq Tools
  BY <1>1 DEF Runtime
<1>3. /\ \A t \in Tools : rows[t] = "open" => h.rows[t] = "open" /\ t \notin h.openTools
      /\ \A f \in Forms : rows[f] = h.rows[f]
  BY <1>2, RowFacts
<1> HIDE DEF rows
<1>4. /\ g \in Runtime /\ g.openTools = {} /\ g.rows = rows
      /\ g.dead = h.dead /\ g.active = h.active
      /\ g.pending = h.pending /\ g.resolvers = h.resolvers
      /\ g.resolution = h.resolution /\ g.answer = h.answer
  BY <1>1, <1>2 DEF TerminalizeOpenToolCalls, Runtime, rows
<1> HIDE DEF g
<1>5. Kept(g)
  BY <1>4 DEF Sound, Kept, CardsOnce
<1>6. RowsTrue(g, about, Forms)
  BY <1>3, <1>4 DEF Sound, RowsTrue
<1> QED
  BY <1>4, <1>5, <1>6 DEF Sound, g

\* A state frame of a runtime that is sound is current.
LEMMA SyncStatusSound ==
  ASSUME NEW h, Sound(h, about)
  PROVE  /\ Sound(SyncStatus(h), about)
         /\ Current(SyncStatus(h))
         /\ Agree(SyncStatus(h), h)
<1>1. SyncStatus(h) \in Runtime /\ Current(SyncStatus(h)) /\ Agree(SyncStatus(h), h)
  BY SyncStatusAgrees DEF Sound, Kept
<1> QED
  BY <1>1 DEF Sound, Kept, CardsOnce, RowsTrue, Agree

LEMMA MarkDeadLive ==
  ASSUME NEW h, Live(h, about), AboutType(about)
  PROVE  LET g == MarkDead(h)
         IN  /\ Live(g, about)
             /\ Keeps(g, h, {})
             /\ g.dead /\ g.active = h.active
             /\ g.openTools = {} \/ g.openTools = h.openTools
<1> DEFINE d == [h EXCEPT !.dead = TRUE]
           k == Settle(d, h.resolvers, "cancelled")
           m == TerminalizeOpenToolCalls(k)
           g == MarkDead(h)
<1>1. CASE h.dead
  <2>1. g = h
    BY <1>1 DEF MarkDead
  <2> QED
    BY <1>1, <2>1 DEF Keeps
<1>2. CASE ~h.dead
  <2>1. g = SyncStatus(m)
    BY <1>2 DEF MarkDead
  <2>2. /\ d \in Runtime /\ d.dead = TRUE
        /\ d.pending = h.pending /\ d.resolvers = h.resolvers
        /\ d.openTools = h.openTools /\ d.active = h.active
        /\ d.rows = h.rows /\ d.resolution = h.resolution /\ d.answer = h.answer
    BY DEF Live, Sound, Kept, Runtime
  <2> HIDE DEF d
  <2>3. Sound(d, about)
    BY <2>2 DEF Live, Sound, Kept, CardsOnce, RowsTrue
  <2>4. "cancelled" \in Outcomes
    BY DEF Outcomes
  <2>5. Sound(k, about) /\ Settled(k, d, Unsettled(d, h.resolvers), "cancelled")
    BY <2>3, <2>4, SettleSound
  <2>6. Unsettled(d, h.resolvers) = d.pending
    BY <2>2, <2>3 DEF Unsettled, Sound, Kept
  <2>7. k.pending = {} /\ k.dead = TRUE /\ k.active = h.active
    BY <2>2, <2>5, <2>6 DEF Settled
  <2>8. Keeps(k, d, {})
    BY <2>3, <2>5, SettleKeeps
  <2> HIDE DEF k
  <2>9. /\ Sound(m, about) /\ m.openTools = {} /\ m.dead = k.dead /\ m.active = k.active
        /\ m.pending = k.pending /\ m.resolution = k.resolution /\ m.answer = k.answer
    BY <2>5, TerminalizeSound
  <2> HIDE DEF m
  <2>10. Sound(g, about) /\ Current(g) /\ Agree(g, m)
    BY <2>1, <2>9, SyncStatusSound
  <2> HIDE DEF g
  <2>11. Live(g, about) /\ g.dead /\ g.active = h.active /\ g.openTools = {}
    BY <2>7, <2>9, <2>10 DEF Live, Agree
  <2>12. Keeps(g, h, {})
    BY <2>2, <2>8, <2>9, <2>10 DEF Keeps, Agree
  <2> QED
    BY <2>11, <2>12 DEF g
<1> QED
  BY <1>1, <1>2

LEMMA TurnEndsLive ==
  ASSUME NEW h, Live(h, about)
  PROVE  LET g == TurnEnds(h)
         IN  /\ Live(g, about)
             /\ Keeps(g, h, {})
             /\ g.dead = h.dead /\ g.active = h.active - 1
             /\ g.pending = h.pending
             /\ g.openTools = IF g.active = 0 THEN {} ELSE h.openTools
<1> DEFINE ended == [h EXCEPT !.active = @ - 1]
           m == IF ended.active = 0 THEN TerminalizeOpenToolCalls(ended) ELSE ended
           g == TurnEnds(h)
<1>1. g = SyncStatus(m)
  BY DEF TurnEnds
<1>2. /\ ended \in Runtime /\ ended.active = h.active - 1 /\ ended.dead = h.dead
      /\ ended.pending = h.pending /\ ended.resolvers = h.resolvers
      /\ ended.openTools = h.openTools
      /\ ended.rows = h.rows /\ ended.resolution = h.resolution
      /\ ended.answer = h.answer
  BY DEF Live, Sound, Kept, Runtime
<1> HIDE DEF ended
<1>3. Sound(ended, about)
  BY <1>2 DEF Live, Sound, Kept, CardsOnce, RowsTrue
<1>4. /\ Sound(m, about) /\ m.active = ended.active /\ m.dead = ended.dead
      /\ m.openTools = IF m.active = 0 THEN {} ELSE ended.openTools
      /\ m.pending = ended.pending /\ m.resolution = ended.resolution
      /\ m.answer = ended.answer
  BY <1>3, TerminalizeSound
<1> HIDE DEF m
<1>5. Sound(g, about) /\ Current(g) /\ Agree(g, m)
  BY <1>1, <1>4, SyncStatusSound
<1> HIDE DEF g
<1>6. /\ Live(g, about) /\ g.dead = h.dead /\ g.active = h.active - 1
      /\ g.pending = h.pending
      /\ g.openTools = IF g.active = 0 THEN {} ELSE h.openTools
  BY <1>2, <1>4, <1>5 DEF Live, Agree
<1>7. Keeps(g, h, {})
  BY <1>2, <1>4, <1>5 DEF Keeps, Agree
<1> QED
  BY <1>6, <1>7 DEF g

LEMMA AskedLive ==
  ASSUME NEW h, Live(h, about), AboutType(about), NEW r \in Requests,
         h.answer[r] = Nil, ~h.dead => Grounded(h, about, r),
         \A c \in Cards : c[1] = r => c \notin h.pending /\ h.resolution[c] = Nil
  PROVE  LET g == Asked(h, r)
         IN  /\ Live(g, about)
             /\ Keeps(g, h, {r})
             /\ g.dead = h.dead /\ g.active = h.active /\ g.openTools = h.openTools
             /\ ~h.dead => g.pending = h.pending \cup {Card(r)}
<1> DEFINE g == Asked(h, r)
<1>1. Card(r) \in Cards /\ Card(r)[1] = r
  BY FirstCard
<1>2. CASE h.dead
  <2>1. g = [h EXCEPT !.answer[r] = Reply(Card(r), "cancelled")]
    BY <1>2 DEF Asked
  <2>2. Reply(Card(r), "cancelled") \in Outcomes \cup {"accept", "cancel", Nil}
    BY <1>1, ReplyFacts DEF Outcomes
  <2>3. /\ g \in Runtime /\ g.dead = h.dead
        /\ g.pending = h.pending /\ g.resolvers = h.resolvers
        /\ g.openTools = h.openTools /\ g.active = h.active
        /\ g.rows = h.rows /\ g.resolution = h.resolution
        /\ g.status = h.status /\ g.shown = h.shown
        /\ \A q \in Requests \ {r} : g.answer[q] = h.answer[q]
    BY <2>1, <2>2 DEF Live, Sound, Kept, Runtime
  <2> HIDE DEF g
  <2>4. Sound(g, about)
    BY <1>2, <2>3 DEF Live, Sound, Kept, CardsOnce, RowsTrue
  <2>5. Current(g)
    BY <2>3 DEF Live, Current, ComputeStatus
  <2>6. Keeps(g, h, {r})
    BY <2>3 DEF Keeps
  <2> QED
    BY <1>2, <2>3, <2>4, <2>5, <2>6 DEF Live, g
<1>3. CASE ~h.dead
  <2>1. g = Park(h, Card(r))
    BY <1>3 DEF Asked
  <2>2. /\ Kept(h) /\ RowsTrue(h, about, Forms \ {r})
        /\ r \in Forms /\ h.rows[r] = "open" => about[r] = r
    BY DEF Live, Sound, RowsTrue
  <2>3. Sound(g, about) /\ Current(g) /\ Parked(g, h, Card(r))
    BY <1>1, <1>3, <2>1, <2>2, ParkSound
  <2> HIDE DEF g
  <2>4. Keeps(g, h, {r})
    BY <1>1, <2>3 DEF Keeps, Parked
  <2> QED
    BY <1>3, <2>3, <2>4 DEF Live, Parked, g
<1> QED
  BY <1>2, <1>3

LEMMA UpdateLive ==
  ASSUME NEW h, Live(h, about), NEW t \in Tools, NEW is \in {"open", "ended"}
  PROVE  LET g == [h EXCEPT !.rows[t] = is,
                            !.openTools = IF is = "open" THEN @ \cup {t} ELSE @ \ {t}]
         IN  /\ Live(g, about) /\ Keeps(g, h, {})
             /\ g.dead = h.dead /\ g.active = h.active /\ g.pending = h.pending
             /\ g.openTools = IF is = "open" THEN h.openTools \cup {t}
                              ELSE h.openTools \ {t}
<1> DEFINE g == [h EXCEPT !.rows[t] = is,
                          !.openTools = IF is = "open" THEN @ \cup {t} ELSE @ \ {t}]
           rows == [h.rows EXCEPT ![t] = is]
           open == IF is = "open" THEN h.openTools \cup {t} ELSE h.openTools \ {t}
<1>1. h \in Runtime
  BY DEF Live, Sound, Kept
<1>2. h.rows \in [Rows -> {"none", "open", "ended"}] /\ h.openTools \in SUBSET Tools
  BY <1>1 DEF Runtime
<1>3. rows \in [Rows -> {"none", "open", "ended"}] /\ open \in SUBSET Tools
  BY <1>2
<1>4. /\ g \in Runtime /\ g.rows = rows /\ g.openTools = open
      /\ g.dead = h.dead /\ g.status = h.status /\ g.shown = h.shown
      /\ g.pending = h.pending /\ g.resolvers = h.resolvers
      /\ g.active = h.active /\ g.resolution = h.resolution /\ g.answer = h.answer
  BY <1>1, <1>3 DEF Runtime
<1>5. Orderly => \A s \in Tools : rows[s] = "open" => s \in open
  <2>1. Orderly => \A s \in Tools : h.rows[s] = "open" => s \in h.openTools
    BY DEF Live, Sound, RowsTrue
  <2> QED
    BY <1>2, <2>1, RowFacts
<1>6. \A f \in Forms : rows[f] = h.rows[f]
  BY <1>2, RowFacts
<1>11. open = IF is = "open" THEN h.openTools \cup {t} ELSE h.openTools \ {t}
  OBVIOUS
<1> HIDE DEF g, rows, open
<1>7. Kept(g)
  BY <1>4 DEF Live, Sound, Kept, CardsOnce
<1>8. RowsTrue(g, about, Forms)
  BY <1>4, <1>5, <1>6 DEF Live, Sound, RowsTrue
<1>9. Current(g)
  BY <1>4 DEF Live, Current, ComputeStatus
<1>10. Keeps(g, h, {})
  BY <1>4 DEF Keeps
<1> QED
  BY <1>4, <1>7, <1>8, <1>9, <1>10, <1>11 DEF Live, Sound, g

-----------------------------------------------------------------------------
\* The pipe.

\* rest is what is left of messages after the first n.
Rest(rest, messages, n) ==
  /\ rest \in Seq(Message)
  /\ \A i \in DOMAIN rest : /\ i \in Nat \ {0}
                            /\ i + n \in DOMAIN messages
                            /\ rest[i] = messages[i + n]
  /\ \A j \in DOMAIN messages : /\ j \in Nat
                                /\ n < j => /\ j - n \in DOMAIN rest
                                           /\ rest[j - n] = messages[j]

LEMMA DropFirst ==
  ASSUME NEW messages \in Seq(Message), NEW n \in Nat, n <= Len(messages)
  PROVE  Rest(SubSeq(messages, n + 1, Len(messages)), messages, n)
<1> DEFINE rest == SubSeq(messages, n + 1, Len(messages))
<1>1. Len(messages) \in Nat /\ DOMAIN messages = 1..Len(messages)
  OBVIOUS
<1>2. /\ rest \in Seq(Message)
      /\ DOMAIN rest = 1..(Len(messages) - n)
      /\ \A i \in 1..(Len(messages) - n) : rest[i] = messages[i + n]
  BY <1>1
<1> HIDE DEF rest
<1>3. \A j \in 1..Len(messages) : n < j =>
        j - n \in 1..(Len(messages) - n) /\ (j - n) + n = j
  BY <1>1
<1>4. Rest(rest, messages, n)
  BY <1>1, <1>2, <1>3 DEF Rest
<1> QED
  BY <1>4 DEF rest

LEMMA ReadFirst ==
  ASSUME NEW messages \in Seq(Message), messages # <<>>
  PROVE  /\ Rest(Tail(messages), messages, 1)
         /\ 1 \in DOMAIN messages
         /\ Head(messages) = messages[1]
         /\ messages[1] \in Message
<1>1. /\ 1 <= Len(messages)
      /\ 1 \in DOMAIN messages
      /\ Head(messages) = messages[1]
      /\ messages[1] \in Message
  OBVIOUS
<1>2. Tail(messages) = SubSeq(messages, 1 + 1, Len(messages))
  <2>1. Tail(messages) = SubSeq(messages, 2, Len(messages))
    BY TailIsSubSeq
  <2> QED
    BY <2>1
<1>3. Rest(SubSeq(messages, 1 + 1, Len(messages)), messages, 1)
  BY <1>1, DropFirst
<1> QED
  BY <1>1, <1>2, <1>3

\* A message is of one kind, and says of whom.
LEMMA MessageFacts ==
  ASSUME NEW m \in Message
  PROVE  /\ m.kind = "update" => m.of \in Tools /\ m.is \in {"open", "ended"}
         /\ m.kind = "request" => m.of \in Requests
         /\ m.kind = "abort" => m.of \in Requests
         /\ m.kind = "response" => m.of \in Prompts /\ m.is = "over"
         /\ m.kind \in {"update", "request", "abort", "response"}
         /\ m.of \in Tools \cup Requests \cup Prompts
BY DEF Message

\* What is written comes after everything that is unread.
LEMMA WriteAfter ==
  ASSUME NEW messages \in Seq(Message), NEW more \in Seq(Message)
  PROVE  LET all == messages \o more
         IN  /\ all \in Seq(Message)
             /\ \A i \in DOMAIN messages : i \in DOMAIN all /\ all[i] = messages[i]
             /\ \A i \in DOMAIN more : /\ Len(messages) + i \in DOMAIN all
                                       /\ all[Len(messages) + i] = more[i]
             /\ \A i \in DOMAIN all : i \in DOMAIN messages
                                        \/ /\ Len(messages) < i
                                           /\ i - Len(messages) \in DOMAIN more
                                           /\ all[i] = more[i - Len(messages)]
<1> DEFINE all == messages \o more
<1>1. /\ Len(messages) \in Nat /\ DOMAIN messages = 1..Len(messages)
      /\ Len(more) \in Nat /\ DOMAIN more = 1..Len(more)
  OBVIOUS
<1>2. /\ all \in Seq(Message)
      /\ Len(all) = Len(messages) + Len(more)
      /\ \A i \in 1..(Len(messages) + Len(more)) :
           all[i] = IF i <= Len(messages) THEN messages[i] ELSE more[i - Len(messages)]
  BY ConcatProperties
<1>3. DOMAIN all = 1..(Len(messages) + Len(more))
  BY <1>2
<1> HIDE DEF all
<1>4. \A i \in DOMAIN messages : i \in DOMAIN all /\ all[i] = messages[i]
  BY <1>1, <1>2, <1>3
<1>5. ASSUME NEW i \in DOMAIN more
      PROVE  Len(messages) + i \in DOMAIN all /\ all[Len(messages) + i] = more[i]
  <2>1. /\ Len(messages) + i \in 1..(Len(messages) + Len(more))
        /\ ~(Len(messages) + i <= Len(messages))
        /\ (Len(messages) + i) - Len(messages) = i
    BY <1>1
  <2> QED
    BY <1>2, <1>3, <2>1
<1>6. \A i \in DOMAIN all : i \in DOMAIN messages
        \/ /\ Len(messages) < i
           /\ i - Len(messages) \in DOMAIN more
           /\ all[i] = more[i - Len(messages)]
  BY <1>1, <1>2, <1>3
<1> QED
  BY <1>2, <1>4, <1>5, <1>6 DEF all

-----------------------------------------------------------------------------
\* The parts of the invariant, over a step.

\* The runtime changes by what it keeps outside q, whose requests were read.
LEMMA FreshAndWonKept ==
  ASSUME Live(rt, about), Fresh, Won, NEW q, Keeps(rt', rt, q),
         UNCHANGED <<asking, winners>>,
         \A r \in Requests :
           /\ Unread(pipe', r) # {} => Unread(pipe, r) # {}
           /\ \A i, j \in Unread(pipe', r) : i = j
           /\ r \in q => Unread(pipe, r) # {} /\ Unread(pipe', r) = {}
  PROVE  Fresh' /\ Won'
<1>1. ASSUME NEW r \in Requests, asking[r] = Nil \/ Unread(pipe', r) # {}
      PROVE  Untouched(rt', winners, r)
  <2>1. r \notin q /\ Untouched(rt, winners, r)
    BY <1>1 DEF Fresh
  <2>2. rt.pending \subseteq Cards
    BY DEF Live, Sound, Kept, Runtime
  <2>3. \A c \in rt.pending : c[1] # r
    BY <2>1, <2>2 DEF Untouched
  <2> QED
    BY <2>1, <2>3 DEF Keeps, Untouched
<1>2. Fresh'
  BY <1>1 DEF Fresh
<1>3. ASSUME NEW c \in Cards, winners[c] # {}
      PROVE  \E u \in Users : /\ winners[c] = {u}
                              /\ rt'.resolution[c] = u
                              /\ c[1] \in Permissions => rt'.answer[c[1]] = u
  <2> PICK u \in Users : /\ winners[c] = {u}
                         /\ rt.resolution[c] = u
                         /\ c[1] \in Permissions => rt.answer[c[1]] = u
    BY <1>3 DEF Won
  <2>1. c[1] \in Requests /\ u # Nil
    BY CardType, TurnAssumption
  <2>2. c[1] \notin q
    BY <1>3, <2>1 DEF Fresh, Untouched
  <2>3. rt'.resolution[c] = u
    BY <2>1, <2>2 DEF Keeps
  <2>4. ASSUME c[1] \in Permissions
        PROVE  rt'.answer[c[1]] = u
    <3>1. c \notin rt.pending
      BY <2>1, SettledIsOver DEF Live
    <3>2. c = Card(c[1])
      BY <2>1, <2>4, FirstCard
    <3>3. \A d \in Cards : d[1] = c[1] => d = c
      BY <2>1, <2>4, <3>2, FirstCard
    <3>4. rt.pending \subseteq Cards
      BY DEF Live, Sound, Kept, Runtime
    <3>5. \A d \in rt.pending : d[1] # c[1]
      BY <3>1, <3>3, <3>4
    <3> QED
      BY <2>1, <2>2, <2>4, <3>5 DEF Keeps
  <2> QED
    BY <2>3, <2>4
<1>4. Won'
  BY <1>3 DEF Won
<1> QED
  BY <1>2, <1>4

\* A message is read, with what it says of a request that becomes known by it.
LEMMA FreshAndWonRead ==
  ASSUME Live(rt, about), Fresh, Won, NEW n \in Nat \ {0}, Rest(pipe', pipe, n), NEW q,
         Keeps(rt', rt, q), \A r \in Requests \cap q : 1 \in Unread(pipe, r),
         UNCHANGED <<asking, winners>>
  PROVE  Fresh' /\ Won'
<1>1. \A r : \A i \in Unread(pipe', r) : i + n \in Unread(pipe, r) /\ i \in Nat \ {0}
  BY DEF Rest, Unread
<1>2. ASSUME NEW r \in Requests
      PROVE  \A i, j \in Unread(pipe', r) : i = j
  <2>1. \A i, j \in Unread(pipe, r) : i = j
    BY DEF Fresh
  <2> SUFFICES ASSUME NEW i \in Unread(pipe', r), NEW j \in Unread(pipe', r)
               PROVE  i = j
    OBVIOUS
  <2>2. i + n = j + n /\ i \in Nat /\ j \in Nat
    BY <1>1, <2>1
  <2> QED
    BY <2>2
<1>3. ASSUME NEW r \in Requests, r \in q
      PROVE  Unread(pipe, r) # {} /\ Unread(pipe', r) = {}
  <2>1. 1 \in Unread(pipe, r)
    BY <1>3
  <2>2. ASSUME NEW i \in Unread(pipe', r)
        PROVE  FALSE
    <3>1. i + n = 1 /\ i \in Nat \ {0}
      BY <1>1, <2>1 DEF Fresh
    <3> QED
      BY <3>1
  <2> QED
    BY <2>1, <2>2
<1>4. \A r \in Requests : Unread(pipe', r) # {} => Unread(pipe, r) # {}
  BY <1>1
<1> QED
  BY <1>2, <1>3, <1>4, FreshAndWonKept

\* Nothing of the requests is written.
LEMMA FreshAndWonSame ==
  ASSUME Live(rt, about), Fresh, Won, Keeps(rt', rt, {}), UNCHANGED <<asking, winners>>,
         \A r \in Requests : Unread(pipe', r) = Unread(pipe, r)
  PROVE  Fresh' /\ Won'
<1>1. \A r \in Requests : \A i, j \in Unread(pipe', r) : i = j
  BY DEF Fresh
<1> QED
  BY <1>1, FreshAndWonKept

LEMMA ReadKeepsAnswered ==
  ASSUME Answered, NEW n \in Nat, Rest(pipe', pipe, n),
         \A p \in Prompts : Responses(pipe', p) # {} => prompts'[p] = prompts[p]
  PROVE  Answered'
<1>1. \A p : \A i \in Responses(pipe', p) : i + n \in Responses(pipe, p) /\ i \in Nat
  BY DEF Rest, Responses
<1>2. ASSUME NEW p \in Prompts
      PROVE  \A i, j \in Responses(pipe', p) : i = j
  <2> SUFFICES ASSUME NEW i \in Responses(pipe', p), NEW j \in Responses(pipe', p)
               PROVE  i = j
    OBVIOUS
  <2>1. i + n = j + n /\ i \in Nat /\ j \in Nat
    BY <1>1 DEF Answered
  <2> QED
    BY <2>1
<1>3. \A p \in Prompts : Responses(pipe', p) # {} => prompts'[p] = "answered"
  BY <1>1 DEF Answered
<1> QED
  BY <1>2, <1>3 DEF Answered

LEMMA ReadKeepsCovered ==
  ASSUME Covered, NEW n \in Nat, Rest(pipe', pipe, n),
         \A p \in Prompts : prompts[p] = "asked" => prompts'[p] = "asked"
  PROVE  Covered'
<1> SUFFICES ASSUME NEW i \in DOMAIN pipe', pipe'[i].kind = "update",
                    ~ \E p \in Prompts : prompts'[p] = "asked"
             PROVE  \E j \in DOMAIN pipe' : i < j /\ pipe'[j].kind = "response"
  BY DEF Covered
<1>1. i + n \in DOMAIN pipe /\ pipe[i + n].kind = "update" /\ i \in Nat \ {0}
  BY DEF Rest
<1> PICK j \in DOMAIN pipe : i + n < j /\ pipe[j].kind = "response"
  BY <1>1 DEF Covered
<1>2. j \in Nat
  BY DEF Rest
<1>3. n < j /\ i < j - n
  BY <1>1, <1>2
<1>4. j - n \in DOMAIN pipe' /\ pipe'[j - n] = pipe[j]
  BY <1>3 DEF Rest
<1> QED
  BY <1>3, <1>4

LEMMA ActiveFacts ==
  ASSUME Active
  PROVE  /\ rt.active \in Nat
         /\ rt.active > 0 <=> \E p \in Prompts : prompts[p] \in {"asked", "answered"}
<1>1. IsFiniteSet(InFlight(prompts)) /\ rt.active = Cardinality(InFlight(prompts))
  BY DEF Active
<1>2. rt.active \in Nat
  BY <1>1, FS_CardinalityType
<1>3. rt.active = 0 <=> InFlight(prompts) = {}
  BY <1>1, FS_EmptySet
<1> QED
  BY <1>2, <1>3 DEF InFlight

\* Prompts in flight are counted as they start and end.
LEMMA ActiveCounts ==
  ASSUME Types, Active, NEW p \in Prompts, NEW is \in {"asked", "answered", "over"},
         prompts' = [prompts EXCEPT ![p] = is],
         \/ prompts[p] = "new" /\ is = "asked" /\ rt'.active = rt.active + 1
         \/ prompts[p] = "asked" /\ is = "answered" /\ rt'.active = rt.active
         \/ /\ prompts[p] \in {"asked", "answered"} /\ is = "over"
            /\ rt'.active = rt.active - 1
  PROVE  Active'
<1>1. IsFiniteSet(InFlight(prompts)) /\ rt.active = Cardinality(InFlight(prompts))
  BY DEF Active
<1>2. CASE prompts[p] = "new" /\ is = "asked"
  <2>1. InFlight(prompts') = InFlight(prompts) \cup {p} /\ p \notin InFlight(prompts)
    BY <1>2 DEF Types, InFlight
  <2>2. rt'.active = rt.active + 1
    BY <1>2
  <2>3. /\ IsFiniteSet(InFlight(prompts) \cup {p})
        /\ Cardinality(InFlight(prompts) \cup {p}) = Cardinality(InFlight(prompts)) + 1
    BY <1>1, <2>1, FS_AddElement
  <2> QED
    BY <1>1, <2>1, <2>2, <2>3 DEF Active
<1>3. CASE prompts[p] = "asked" /\ is = "answered"
  <2>1. InFlight(prompts') = InFlight(prompts)
    BY <1>3 DEF Types, InFlight
  <2>2. rt'.active = rt.active
    BY <1>3
  <2> QED
    BY <1>1, <2>1, <2>2 DEF Active
<1>4. CASE prompts[p] \in {"asked", "answered"} /\ is = "over"
  <2>1. InFlight(prompts') = InFlight(prompts) \ {p} /\ p \in InFlight(prompts)
    BY <1>4 DEF Types, InFlight
  <2>2. rt'.active = rt.active - 1
    BY <1>4
  <2>3. /\ IsFiniteSet(InFlight(prompts) \ {p})
        /\ Cardinality(InFlight(prompts) \ {p}) = Cardinality(InFlight(prompts)) - 1
    BY <1>1, <2>1, FS_RemoveElement
  <2> QED
    BY <1>1, <2>1, <2>2, <2>3 DEF Active
<1> QED
  BY <1>2, <1>3, <1>4

-----------------------------------------------------------------------------
\* The tool calls that requests are about.

\* A request that is engaged was made for a prompt, and is not answered.
LEMMA EngagedFacts ==
  ASSUME Types, Live(rt, about), Fresh, NEW r \in Requests, Engaged(rt, pipe, r)
  PROVE  asking[r] \in Prompts /\ rt.answer[r] = Nil
<1>1. rt.pending \subseteq Cards
  BY DEF Live, Sound, Kept, Runtime
<1>2. CASE Unread(pipe, r) # {}
  BY <1>2 DEF Types, Fresh, Untouched
<1>3. CASE \E c \in rt.pending : c[1] = r
  <2> PICK c \in rt.pending : c[1] = r
    BY <1>3
  <2>1. rt.answer[r] = Nil
    BY DEF Live, Sound, Kept, CardsOnce
  <2>2. asking[r] # Nil
    BY <1>1 DEF Fresh, Untouched
  <2> QED
    BY <2>1, <2>2 DEF Types
<1> QED
  BY <1>2, <1>3 DEF Engaged

\* What waits for an answer is about a tool call in flight.
LEMMA PendingIsGrounded ==
  ASSUME IInv, ~rt.dead, NEW c \in rt.pending
  PROVE  Grounded(rt, about, c[1])
<1>1. rt.pending \subseteq Cards
  BY DEF IInv, Live, Sound, Kept, Runtime
<1>2. c[1] \in Requests /\ c \in Cards
  BY <1>1, CardType
<1>3. Unread(pipe, c[1]) = {}
  BY <1>2 DEF IInv, Fresh, Untouched
<1>4. Engaged(rt, pipe, c[1])
  BY DEF Engaged
<1> QED
  BY <1>2, <1>3, <1>4 DEF IInv, Tidy, Backed, BackedFor, Grounded

\* The messages 1 to Len(pipe) stay where they are.
Grows == \A i \in DOMAIN pipe : i \in DOMAIN pipe' /\ pipe'[i] = pipe[i]

\* What is written keeps what a request is backed by.
LEMMA BackedWritten ==
  ASSUME NEW r \in Requests, BackedFor(r), Grows, UNCHANGED rt,
         pipe \in Seq(Message), pipe' \in Seq(Message),
         about'[r] = about[r], asking'[r] = asking[r], Unread(pipe', r) = Unread(pipe, r),
         prompts'[asking[r]] \in {"asked", "answered"},
         prompts'[asking[r]] = "answered" =>
           prompts[asking[r]] = "answered" \/ WithdrawnBy(pipe', r, Len(pipe') + 1),
         \A n \in DOMAIN pipe' :
           /\ n \notin DOMAIN pipe
           /\ pipe'[n] \in {Update(about[r], "ended"), Response(asking[r])}
           => WithdrawnBy(pipe', r, n)
  PROVE  BackedFor(r)'
<1>1. /\ DOMAIN pipe = 1..Len(pipe) /\ DOMAIN pipe' = 1..Len(pipe')
      /\ Len(pipe) \in Nat /\ Len(pipe') \in Nat
  OBVIOUS
<1>2. \A n : WithdrawnBy(pipe, r, n) => WithdrawnBy(pipe', r, n)
  BY DEF WithdrawnBy, Grows
<1>3. ASSUME prompts'[asking[r]] = "answered"
      PROVE  WithdrawnBy(pipe', r, Len(pipe') + 1)
  <2>1. CASE WithdrawnBy(pipe, r, Len(pipe) + 1)
    <3> PICK a \in DOMAIN pipe : pipe[a] = Abort(r)
      BY <2>1 DEF WithdrawnBy
    <3>1. a \in DOMAIN pipe' /\ pipe'[a] = Abort(r)
      BY DEF Grows
    <3>2. a < Len(pipe') + 1
      BY <1>1, <3>1
    <3> QED
      BY <3>1, <3>2 DEF WithdrawnBy
  <2> QED
    BY <1>3, <2>1 DEF BackedFor
<1>4. ASSUME NEW n \in DOMAIN pipe',
             pipe'[n] \in {Update(about[r], "ended"), Response(asking[r])}
      PROVE  WithdrawnBy(pipe', r, n)
  <2>1. CASE n \in DOMAIN pipe
    BY <1>2, <1>4, <2>1 DEF BackedFor, Grows
  <2> QED
    BY <1>4, <2>1
<1>5. \/ about[r] \in rt.openTools
      \/ \E k \in Unread(pipe', r), j \in DOMAIN pipe' :
           j < k /\ pipe'[j] = Update(about[r], "open")
  BY DEF BackedFor, Grows
<1> QED
  BY <1>3, <1>4, <1>5 DEF BackedFor

\* A step that neither reads nor writes keeps the tool calls of the requests.
LEMMA TidyKept ==
  ASSUME IInv, rt.dead => rt'.dead, rt'.openTools = rt.openTools,
         \A d \in rt'.pending : \E c \in rt.pending : c[1] = d[1],
         UNCHANGED <<pipe, tool, asking, about>>,
         \A p \in Prompts : prompts[p] \in {"asked", "answered"} => prompts'[p] = prompts[p]
  PROVE  Tidy'
<1> SUFFICES ASSUME Orderly, ~rt'.dead
             PROVE  Withdrawals' /\ Backed' /\ Reported'
  BY DEF Tidy, Orderly
<1>1. Withdrawals /\ Backed /\ Reported
  BY DEF IInv, Tidy
<1>2. ASSUME NEW r \in Requests, Engaged(rt', pipe', r), about'[r] \in Tools
      PROVE  BackedFor(r)'
  <2>1. Engaged(rt, pipe, r)
    BY <1>2 DEF Engaged
  <2>2. BackedFor(r) /\ asking[r] \in Prompts
    BY <1>1, <1>2, <2>1, EngagedFacts DEF Backed, IInv
  <2> QED
    BY <2>2 DEF BackedFor
<1>3. Withdrawals'
  BY <1>1 DEF Withdrawals
<1>4. Reported'
  BY <1>1 DEF Reported
<1> QED
  BY <1>2, <1>3, <1>4 DEF Backed

\* What is read is not unread, and what is behind it moves up.
LEMMA UnreadMoves ==
  ASSUME NEW n \in Nat, Rest(pipe', pipe, n), NEW r
  PROVE  \A k \in Unread(pipe', r) : k \in Nat \ {0} /\ k + n \in Unread(pipe, r)
BY DEF Rest, Unread

LEMMA WithdrawnMoves ==
  ASSUME NEW n \in Nat, Rest(pipe', pipe, n), NEW r, NEW m, WithdrawnBy(pipe, r, m),
         \A a \in DOMAIN pipe : a <= n => pipe[a] # Abort(r)
  PROVE  \E a \in DOMAIN pipe' : a \in Nat /\ a + n < m /\ pipe'[a] = Abort(r)
<1> PICK b \in DOMAIN pipe : b < m /\ pipe[b] = Abort(r)
  BY DEF WithdrawnBy
<1>1. b \in Nat /\ n < b
  BY DEF Rest
<1>2. b - n \in DOMAIN pipe' /\ pipe'[b - n] = Abort(r) /\ b - n \in Nat /\ (b - n) + n = b
  BY <1>1 DEF Rest
<1> QED
  BY <1>2

\* A step that reads keeps the tool calls of the requests that stay engaged, and those
\* open at the adapter, in flight.
LEMMA TidyRead ==
  ASSUME IInv, Orderly, ~rt.dead, NEW n \in Nat \ {0}, Rest(pipe', pipe, n),
         UNCHANGED <<tool, asking, about>>,
         \A r \in Requests : Engaged(rt', pipe', r) /\ about[r] \in Tools =>
           /\ Engaged(rt, pipe, r)
           /\ \A a \in DOMAIN pipe : a <= n => pipe[a] # Abort(r)
           /\ prompts'[asking[r]] = prompts[asking[r]]
           /\ about[r] \in rt.openTools => about[r] \in rt'.openTools,
         \A p \in Prompts : prompts[p] = "asked" => prompts'[p] = "asked",
         \A t \in Tools : tool[t] = "open" /\ t \in rt.openTools => t \in rt'.openTools,
         \A t \in Tools, j \in DOMAIN pipe :
           j <= n /\ pipe[j] = Update(t, "open") => t \in rt'.openTools
  PROVE  Tidy'
<1>1. Withdrawals /\ Backed /\ Reported
  BY DEF IInv, Tidy
<1>2. /\ pipe' \in Seq(Message) /\ DOMAIN pipe' = 1..Len(pipe') /\ Len(pipe') \in Nat
      /\ \A i \in DOMAIN pipe' : i + n \in DOMAIN pipe /\ pipe'[i] = pipe[i + n] /\ i \in Nat
      /\ \A j \in DOMAIN pipe : j \in Nat /\ (n < j => /\ j - n \in DOMAIN pipe'
                                                      /\ pipe'[j - n] = pipe[j])
  BY DEF Rest
<1>3. Withdrawals'
  <2> SUFFICES ASSUME NEW r \in Requests, NEW a \in DOMAIN pipe', pipe'[a] = Abort(r)
               PROVE  asking[r] # Nil /\ \A k \in Unread(pipe', r) : k < a
    BY DEF Withdrawals
  <2>1. a + n \in DOMAIN pipe /\ pipe[a + n] = Abort(r) /\ a \in Nat
    BY <1>2
  <2>2. asking[r] # Nil /\ \A k \in Unread(pipe, r) : k < a + n
    BY <1>1, <2>1 DEF Withdrawals
  <2>3. \A k \in Unread(pipe', r) : k \in Nat /\ k + n < a + n
    BY <2>2, UnreadMoves
  <2> QED
    BY <2>1, <2>2, <2>3
<1>4. ASSUME NEW r \in Requests, Engaged(rt', pipe', r), about[r] \in Tools
      PROVE  BackedFor(r)'
  <2>1. BackedFor(r)
    BY <1>1, <1>4 DEF Backed
  <2>2. \A m : WithdrawnBy(pipe, r, m) =>
          \E a \in DOMAIN pipe' : a \in Nat /\ a + n < m /\ pipe'[a] = Abort(r)
    BY <1>4, WithdrawnMoves
  <2>3. ASSUME prompts'[asking[r]] = "answered"
        PROVE  WithdrawnBy(pipe', r, Len(pipe') + 1)
    <3>1. WithdrawnBy(pipe, r, Len(pipe) + 1)
      BY <1>4, <2>1, <2>3 DEF BackedFor
    <3> PICK a \in DOMAIN pipe' : pipe'[a] = Abort(r)
      BY <2>2, <3>1
    <3>2. a < Len(pipe') + 1
      BY <1>2
    <3> QED
      BY <3>2 DEF WithdrawnBy
  <2>4. ASSUME NEW i \in DOMAIN pipe',
               pipe'[i] \in {Update(about[r], "ended"), Response(asking[r])}
        PROVE  WithdrawnBy(pipe', r, i)
    <3>1. i + n \in DOMAIN pipe /\ pipe[i + n] = pipe'[i] /\ i \in Nat
      BY <1>2
    <3>2. WithdrawnBy(pipe, r, i + n)
      BY <2>1, <2>4, <3>1 DEF BackedFor
    <3> PICK a \in DOMAIN pipe' : a \in Nat /\ a + n < i + n /\ pipe'[a] = Abort(r)
      BY <2>2, <3>2
    <3>3. a < i
      BY <3>1
    <3> QED
      BY <3>3 DEF WithdrawnBy
  <2>5. ASSUME about[r] \notin rt'.openTools
        PROVE  \E k \in Unread(pipe', r), j \in DOMAIN pipe' :
                 j < k /\ pipe'[j] = Update(about[r], "open")
    <3>1. about[r] \notin rt.openTools
      BY <1>4, <2>5
    <3> PICK k \in Unread(pipe, r), j \in DOMAIN pipe :
               j < k /\ pipe[j] = Update(about[r], "open")
      BY <2>1, <3>1 DEF BackedFor
    <3>2. k \in Nat /\ j \in Nat /\ k \in DOMAIN pipe
      BY <1>2 DEF Unread
    <3>3. n < j
      BY <1>4, <2>5, <3>2
    <3>4. j - n \in DOMAIN pipe' /\ pipe'[j - n] = pipe[j]
      BY <1>2, <3>3
    <3>5. n < k /\ k - n \in DOMAIN pipe' /\ pipe'[k - n] = pipe[k]
      BY <1>2, <3>2, <3>3
    <3>6. k - n \in Unread(pipe', r)
      BY <3>5 DEF Unread
    <3>7. j - n < k - n
      BY <3>2
    <3> QED
      BY <3>4, <3>6, <3>7
  <2>6. prompts'[asking[r]] \in {"asked", "answered"}
    BY <1>4, <2>1 DEF BackedFor
  <2> QED
    BY <2>3, <2>4, <2>5, <2>6 DEF BackedFor
<1>5. Backed'
  BY <1>4 DEF Backed
<1>6. Reported'
  <2> SUFFICES ASSUME NEW t \in Tools
               PROVE  /\ tool[t] # "ended" =>
                           \A i \in DOMAIN pipe' : pipe'[i] # Update(t, "ended")
                      /\ tool[t] = "open" =>
                           /\ \E p \in Prompts : prompts'[p] = "asked"
                           /\ \/ t \in rt'.openTools
                              \/ \E j \in DOMAIN pipe' : pipe'[j] = Update(t, "open")
    BY DEF Reported
  <2>1. tool[t] # "ended" => \A i \in DOMAIN pipe' : pipe'[i] # Update(t, "ended")
    BY <1>1, <1>2 DEF Reported
  <2>2. ASSUME tool[t] = "open"
        PROVE  /\ \E p \in Prompts : prompts'[p] = "asked"
               /\ \/ t \in rt'.openTools
                  \/ \E j \in DOMAIN pipe' : pipe'[j] = Update(t, "open")
    <3>1. \E p \in Prompts : prompts[p] = "asked"
      BY <1>1, <2>2 DEF Reported
    <3>2. ASSUME NEW j \in DOMAIN pipe, pipe[j] = Update(t, "open"), t \notin rt'.openTools
          PROVE  \E i \in DOMAIN pipe' : pipe'[i] = Update(t, "open")
      <4>1. j \in Nat /\ n < j
        BY <1>2, <3>2
      <4> QED
        BY <1>2, <3>2, <4>1
    <3>3. t \in rt.openTools \/ \E j \in DOMAIN pipe : pipe[j] = Update(t, "open")
      BY <1>1, <2>2 DEF Reported
    <3> QED
      BY <2>2, <3>1, <3>2, <3>3
  <2> QED
    BY <2>1, <2>2
<1> QED
  BY <1>3, <1>5, <1>6 DEF Tidy

-----------------------------------------------------------------------------
\* The steps.

LEMMA InitHolds == Init => IInv
<1> SUFFICES ASSUME Init PROVE IInv
  OBVIOUS
<1>1. DOMAIN pipe = {} /\ pipe \in Seq(Message)
  BY DEF Init
<1>2. Types
  <2>1. {r \in Requests : asking[r] # Nil} = {}
    BY DEF Init
  <2>2. IsFiniteSet({r \in Requests : asking[r] # Nil})
    BY <2>1, FS_EmptySet
  <2>3. AboutType(about) /\ about \in [Requests -> Rows \cup {Nil}]
    BY DEF Init, AboutType
  <2> QED
    BY <1>1, <2>2, <2>3 DEF Init, Types
<1>3. /\ rt.dead = FALSE /\ rt.status = "idle" /\ rt.pending = {} /\ rt.resolvers = {}
      /\ rt.openTools = {} /\ rt.active = 0
      /\ rt.shown = [status |-> "idle", pending |-> {}]
      /\ rt.rows = [w \in Rows |-> "none"]
      /\ rt.resolution = [c \in Cards |-> Nil]
      /\ rt.answer = [r \in Requests |-> Nil]
  BY DEF Init
<1>4. Live(rt, about)
  <2>1. rt \in Runtime
    BY DEF Init, Runtime, Status
  <2>2. Kept(rt)
    BY <1>3, <2>1 DEF Kept, CardsOnce
  <2>3. RowsTrue(rt, about, Forms)
    BY <1>3, RowFacts DEF RowsTrue
  <2>4. ComputeStatus(rt) = "idle"
    BY <1>3 DEF ComputeStatus
  <2> QED
    BY <1>3, <2>2, <2>3, <2>4 DEF Live, Sound, Current
<1>5. Active
  <2>1. InFlight(prompts) = {}
    BY DEF Init, InFlight
  <2> QED
    BY <1>3, <2>1, FS_EmptySet DEF Active
<1>6. Fresh
  BY <1>1, <1>3 DEF Init, Fresh, Untouched, Unread
<1>7. Won
  BY DEF Init, Won
<1>8. Answered /\ InTurn
  BY <1>1, <1>3 DEF Answered, Responses, InTurn, Covered, ToolsEnd
<1>9. Tidy
  <2>1. \A r \in Requests : ~Engaged(rt, pipe, r)
    BY <1>1, <1>3 DEF Engaged, Unread
  <2>2. \A t \in Tools : tool[t] = "none"
    BY DEF Init
  <2> QED
    BY <1>1, <2>1, <2>2 DEF Tidy, Withdrawals, Backed, Reported
<1> QED
  BY <1>2, <1>4, <1>5, <1>6, <1>7, <1>8, <1>9 DEF IInv

LEMMA PromptStep ==
  ASSUME IInv, NEW p \in Prompts, Prompt(p)
  PROVE  IInv'
<1> DEFINE k == [rt EXCEPT !.active = @ + 1]
<1>1. /\ prompts[p] = "new" /\ ~rt.dead
      /\ prompts' = [prompts EXCEPT ![p] = "asked"]
      /\ rt' = SyncStatus(k)
      /\ UNCHANGED <<proc, pipe, cancelled, tool, asking, about, winners>>
  BY DEF Prompt, adapterVars, userVars
<1>2. /\ k \in Runtime /\ k.active = rt.active + 1 /\ k.dead = rt.dead
      /\ k.pending = rt.pending /\ k.resolvers = rt.resolvers
      /\ k.openTools = rt.openTools /\ k.rows = rt.rows
      /\ k.resolution = rt.resolution /\ k.answer = rt.answer
  BY DEF IInv, Live, Sound, Kept, Runtime
<1> HIDE DEF k
<1>3. Sound(k, about)
  BY <1>2 DEF IInv, Live, Sound, Kept, CardsOnce, RowsTrue
<1>4. Sound(rt', about) /\ Current(rt') /\ Agree(rt', k)
  BY <1>1, <1>3, SyncStatusSound
<1>5. /\ Live(rt', about) /\ Keeps(rt', rt, {}) /\ rt'.active = rt.active + 1
      /\ rt'.dead = rt.dead /\ rt'.openTools = rt.openTools /\ rt'.pending = rt.pending
  BY <1>2, <1>4 DEF IInv, Live, Keeps, Agree
<1>6. Types'
  BY <1>1 DEF IInv, Types
<1>7. Active'
  BY <1>1, <1>5, ActiveCounts DEF IInv
<1>8. Fresh' /\ Won'
  BY <1>1, <1>5, FreshAndWonSame DEF IInv
<1>9. Answered'
  BY <1>1 DEF IInv, Types, Answered
<1>10. InTurn'
  <2>1. prompts'[p] = "asked"
    BY <1>1 DEF IInv, Types
  <2>2. Covered'
    BY <2>1 DEF Covered
  <2>3. rt'.active # 0
    BY <1>5, ActiveFacts DEF IInv
  <2> QED
    BY <2>2, <2>3 DEF InTurn, ToolsEnd
<1>11. Tidy'
  <2>1. \A q \in Prompts : prompts[q] \in {"asked", "answered"} => prompts'[q] = prompts[q]
    BY <1>1 DEF IInv, Types
  <2> QED
    BY <1>1, <1>5, <2>1, TidyKept
<1> QED
  BY <1>1, <1>5, <1>6, <1>7, <1>8, <1>9, <1>10, <1>11 DEF IInv

\* A step of the runtime alone that ends no turn.
LEMMA RuntimeStep ==
  ASSUME IInv, Live(rt', about), rt'.active = rt.active,
         rt'.openTools \in {{}, rt.openTools},
         Fresh', Won', Tidy', cancelled' \subseteq Prompts, winners' \in [Cards -> SUBSET Users],
         UNCHANGED <<proc, pipe, prompts, tool, asking, about>>
  PROVE  IInv'
<1>1. Types'
  BY DEF IInv, Types
<1>2. Active' /\ Answered' /\ InTurn'
  BY DEF IInv, Active, Answered, InTurn, Covered, ToolsEnd
<1> QED
  BY <1>1, <1>2 DEF IInv

LEMMA RespondStep ==
  ASSUME IInv, NEW u \in Users, NEW c \in Cards, Respond(u, c)
  PROVE  IInv'
<1>1. /\ ~rt.dead
      /\ c \in rt.pending \/ rt.resolution[c] # Nil
      /\ rt' = Settle(rt, {c}, u)
      /\ winners' = IF rt' = rt THEN winners ELSE [winners EXCEPT ![c] = @ \cup {u}]
      /\ UNCHANGED <<proc, tool, asking, about, cancelled, pipe, prompts>>
  BY DEF Respond, adapterVars
<1>2. /\ Live(rt, about) /\ Fresh /\ Won /\ Types /\ u \in Outcomes
      /\ rt.resolvers = rt.pending
  BY DEF IInv, Live, Sound, Kept, Outcomes
<1> DEFINE now == Unsettled(rt, {c})
<1>9. AboutType(about) /\ \A d \in rt.pending : Grounded(rt, about, d[1])
  BY <1>1, <1>2, PendingIsGrounded DEF Types
<1>3. Live(rt', about) /\ Settled(rt', rt, now, u) /\ Keeps(rt', rt, {})
  BY <1>1, <1>2, <1>9, SettleLive
<1>4. now = {} => rt' = rt
  BY <1>1, <1>2, <1>9, SettleLive
<1>10. now \subseteq rt.pending
  BY <1>2 DEF Unsettled
<1>11. Tidy'
  <2>1. \A d \in rt'.pending : \E e \in rt.pending : e[1] = d[1]
    BY <1>3, <1>10 DEF Settled
  <2>2. rt'.dead = rt.dead /\ rt'.openTools = rt.openTools
    BY <1>3 DEF Settled
  <2> QED
    BY <1>1, <2>1, <2>2, TidyKept
<1>5. now = {c} \/ now = {}
  BY DEF Unsettled
<1>6. now = {c} => c \in rt.pending
  BY <1>2 DEF Unsettled
<1> HIDE DEF now
<1>7. CASE winners' = winners
  <2>1. Fresh' /\ Won'
    BY <1>1, <1>2, <1>3, <1>7, FreshAndWonSame
  <2> QED
    BY <1>1, <1>2, <1>3, <1>7, <1>11, <2>1, RuntimeStep DEF Settled, Types
<1>8. CASE winners' # winners
  <2>1. winners' = [winners EXCEPT ![c] = @ \cup {u}] /\ now = {c}
    BY <1>1, <1>4, <1>5, <1>8
  <2>2. c \in rt.pending /\ c[1] \in Requests /\ c[2] <= c[2]
    BY <1>6, <2>1, CardType
  <2>3. rt.resolution[c] = Nil
    BY <1>2, <2>2 DEF Live, Sound, Kept, CardsOnce
  <2>4. winners[c] = {}
    BY <1>2, <2>3, TurnAssumption DEF Won
  <2>5. winners' \in [Cards -> SUBSET Users]
    BY <1>2, <2>1 DEF Types
  <2>6. winners'[c] = {u} /\ \A d \in Cards : d # c => winners'[d] = winners[d]
    BY <1>2, <2>1, <2>4 DEF Types
  <2>7. ASSUME NEW r \in Requests, Untouched(rt, winners, r)
        PROVE  Untouched(rt', winners', r)
    <3>1. r # c[1]
      BY <2>2, <2>7 DEF Untouched
    <3>2. rt.pending \subseteq Cards
      BY <1>2 DEF Live, Sound, Kept, Runtime
    <3>3. \A d \in rt.pending : d[1] # r
      BY <2>7, <3>2 DEF Untouched
    <3> QED
      BY <1>3, <2>6, <2>7, <3>1, <3>3 DEF Untouched, Keeps
  <2>8. Fresh'
    BY <1>1, <1>2, <2>7 DEF Fresh
  <2>9. Won'
    <3>1. rt'.resolution[c] = u /\ (c[1] \in Permissions => rt'.answer[c[1]] = u)
      BY <1>3, <2>1 DEF Settled
    <3>2. ASSUME NEW d \in Cards, d # c, winners[d] # {}
          PROVE  \E w \in Users : /\ winners[d] = {w}
                                  /\ rt'.resolution[d] = w
                                  /\ d[1] \in Permissions => rt'.answer[d[1]] = w
      <4> PICK w \in Users : /\ winners[d] = {w}
                             /\ rt.resolution[d] = w
                             /\ d[1] \in Permissions => rt.answer[d[1]] = w
        BY <1>2, <3>2 DEF Won
      <4>1. rt'.resolution[d] = w
        BY <1>3, <2>1, <3>2 DEF Settled
      <4>2. ASSUME d[1] \in Permissions
            PROVE  rt'.answer[d[1]] = w
        <5>1. d[1] \in Requests /\ d = Card(d[1])
          BY <4>2, CardType, FirstCard
        <5>2. c[1] # d[1]
          BY <3>2, <4>2, <5>1, FirstCard
        <5> QED
          BY <1>3, <2>1, <4>2, <5>1, <5>2 DEF Settled
      <4> QED
        BY <4>1, <4>2
    <3>3. \A d \in Cards : d = c \/ winners'[d] = winners[d]
      BY <2>6
    <3> QED
      BY <2>6, <3>1, <3>2, <3>3 DEF Won
  <2> QED
    BY <1>1, <1>2, <1>3, <1>11, <2>5, <2>8, <2>9, RuntimeStep DEF Settled, Types
<1> QED
  BY <1>7, <1>8

LEMMA CancelStep ==
  ASSUME IInv, Cancel
  PROVE  IInv'
<1>1. /\ rt' = Settle(rt, rt.resolvers, "cancelled")
      /\ cancelled' = cancelled \cup {p \in Prompts : prompts[p] = "asked"}
      /\ UNCHANGED <<proc, tool, asking, about, winners, pipe, prompts>>
  BY DEF Cancel, adapterVars
<1>2. Live(rt, about) /\ Fresh /\ Won /\ Types /\ "cancelled" \in Outcomes
  BY DEF IInv, Outcomes
<1>3. /\ Live(rt', about)
      /\ Settled(rt', rt, Unsettled(rt, rt.resolvers), "cancelled")
      /\ Keeps(rt', rt, {})
  BY <1>1, <1>2, SettleLive DEF Types
<1>4. Fresh' /\ Won'
  BY <1>1, <1>2, <1>3, FreshAndWonSame
<1>5. cancelled' \subseteq Prompts
  BY <1>1, <1>2 DEF Types
<1>6. Tidy'
  <2>1. rt'.dead = rt.dead /\ rt'.openTools = rt.openTools /\ rt'.pending \subseteq rt.pending
    BY <1>3 DEF Settled
  <2> QED
    BY <1>1, <2>1, TidyKept
<1> QED
  BY <1>1, <1>2, <1>3, <1>4, <1>5, <1>6, RuntimeStep DEF Settled, Types

\* What the adapter writes changes neither the runtime nor what is in flight.
LEMMA WriteStep ==
  ASSUME IInv, pipe' \in Seq(Message), Fresh', Won', Answered',
         prompts' \in [Prompts -> {"new", "asked", "answered", "over"}],
         InFlight(prompts') = InFlight(prompts),
         ~LateUpdates => Covered',
         tool' \in [Tools -> {"none", "open", "left", "ended"}],
         AboutType(about'), about' \in [Requests -> Rows \cup {Nil}], Live(rt, about'), Tidy',
         asking' \in [Requests -> Prompts \cup {Nil}],
         IsFiniteSet({r \in Requests : asking'[r] # Nil}),
         UNCHANGED <<proc, cancelled, winners, rt>>
  PROVE  IInv'
<1>1. Types'
  BY DEF IInv, Types
<1>2. Active' /\ InTurn'
  BY DEF IInv, Active, InTurn, ToolsEnd
<1> QED
  BY <1>1, <1>2 DEF IInv

LEMMA ReportStep ==
  ASSUME IInv, NEW t \in Tools, AdapterReports(t)
  PROVE  IInv'
<1> PICK status \in {"open", "ended"} :
           /\ <<tool[t], status>> \in
                {<<"none", "open">>, <<"open", "ended">>, <<"left", "ended">>}
           /\ status = "ended" /\ ~Unreported => ~AskedAbout(t)
           /\ tool' = [tool EXCEPT ![t] = status]
           /\ Write(<<Update(t, status)>>)
  BY DEF AdapterReports
<1>1. Busy /\ UNCHANGED <<proc, asking, about, cancelled, winners, rt, prompts>>
  BY DEF AdapterReports, userVars
<1> DEFINE more == <<Update(t, status)>>
<1>2. /\ Update(t, status) \in Message /\ Update(t, status).kind = "update"
      /\ Update(t, status).of = t /\ Update(t, status).is = status
  BY DEF Update, Message
<1>3. /\ more \in Seq(Message)
      /\ \A i \in DOMAIN more : more[i] = Update(t, status)
      /\ 1 \in DOMAIN more
  BY <1>2
<1>4. pipe' = pipe \o more
  BY DEF Write
<1> HIDE DEF more
<1>5. Types /\ Live(rt, about) /\ Fresh /\ Won /\ Answered
  BY DEF IInv
<1>6. /\ pipe' \in Seq(Message)
      /\ \A i \in DOMAIN pipe : i \in DOMAIN pipe' /\ pipe'[i] = pipe[i]
      /\ \A i \in DOMAIN pipe' :
           i \notin DOMAIN pipe => pipe'[i] = Update(t, status) /\ Len(pipe) < i
      /\ \E i \in DOMAIN pipe' : pipe'[i] = Update(t, status)
  BY <1>3, <1>4, <1>5, WriteAfter DEF Types
<1>7. \A r : Unread(pipe', r) = Unread(pipe, r)
  BY <1>2, <1>6 DEF Unread
<1>8. \A p : Responses(pipe', p) = Responses(pipe, p)
  BY <1>2, <1>6 DEF Responses
<1>9. Keeps(rt', rt, {})
  BY <1>1 DEF Keeps
<1>10. Fresh' /\ Won'
  BY <1>1, <1>5, <1>7, <1>9, FreshAndWonSame
<1>11. Answered'
  BY <1>1, <1>5, <1>8 DEF Answered
<1>12. ~LateUpdates => Covered'
  BY <1>1 DEF Busy, Covered
<1>13. tool' \in [Tools -> {"none", "open", "left", "ended"}]
  BY <1>5 DEF Types
<1>14. ASSUME Orderly, ~rt.dead
       PROVE  Withdrawals' /\ Backed' /\ Reported'
  <2>1. Withdrawals /\ Backed /\ Reported
    BY <1>14 DEF IInv, Tidy
  <2>2. Withdrawals'
    <3>1. \A r : Update(t, status) # Abort(r)
      BY <1>2 DEF Abort
    <3> QED
      BY <1>1, <1>6, <1>7, <2>1, <3>1 DEF Withdrawals
  <2>3. ASSUME NEW r \in Requests, Engaged(rt', pipe', r), about'[r] \in Tools
        PROVE  BackedFor(r)'
    <3>1. Engaged(rt, pipe, r)
      BY <1>1, <1>7, <2>3 DEF Engaged
    <3>2. BackedFor(r) /\ asking[r] \in Prompts /\ rt.answer[r] = Nil
      BY <1>1, <1>5, <2>1, <2>3, <3>1, EngagedFacts DEF Backed
    <3>3. ASSUME NEW n \in DOMAIN pipe', n \notin DOMAIN pipe,
                 pipe'[n] \in {Update(about[r], "ended"), Response(asking[r])}
          PROVE  WithdrawnBy(pipe', r, n)
      <4>1. pipe'[n] = Update(t, status) /\ Len(pipe) < n
        BY <1>6, <3>3
      <4>2. Update(t, status) = Update(about[r], "ended")
        BY <1>2, <3>3, <4>1 DEF Response
      <4>3. about[r] = t /\ status = "ended"
        BY <1>2, <4>2 DEF Update
      <4>4. prompts[asking[r]] # "asked"
        BY <1>14, <3>2, <4>3 DEF Orderly, AskedAbout
      <4>5. WithdrawnBy(pipe, r, Len(pipe) + 1)
        BY <3>2, <4>4 DEF BackedFor
      <4> PICK a \in DOMAIN pipe : pipe[a] = Abort(r)
        BY <4>5 DEF WithdrawnBy
      <4>6. a < n
        <5>1. pipe \in Seq(Message) /\ n \in Nat
          BY <1>5, <1>6 DEF Types
        <5> QED
          BY <4>1, <5>1
      <4> QED
        BY <1>6, <4>6 DEF WithdrawnBy
    <3>4. Grows
      BY <1>6 DEF Grows
    <3>5. pipe \in Seq(Message) /\ pipe' \in Seq(Message)
      BY <1>5, <1>6 DEF Types
    <3>6. prompts'[asking[r]] = prompts[asking[r]] /\ prompts[asking[r]] \in {"asked", "answered"}
      BY <1>1, <3>2 DEF BackedFor
    <3> QED
      BY <1>1, <1>7, <3>2, <3>3, <3>4, <3>5, <3>6, BackedWritten
  <2>4. Reported'
    <3> SUFFICES ASSUME NEW s \in Tools
                 PROVE  /\ tool'[s] # "ended" =>
                             \A i \in DOMAIN pipe' : pipe'[i] # Update(s, "ended")
                        /\ tool'[s] = "open" =>
                             /\ \E p \in Prompts : prompts'[p] = "asked"
                             /\ \/ s \in rt'.openTools
                                \/ \E j \in DOMAIN pipe' : pipe'[j] = Update(s, "open")
      BY DEF Reported
    <3>1. tool'[t] = status /\ (s # t => tool'[s] = tool[s])
      BY <1>5 DEF Types
    <3>2. Update(t, status) = Update(s, "ended") => s = t /\ status = "ended"
      BY DEF Update
    <3>3. status = "open" => tool[t] = "none"
      OBVIOUS
    <3>4. tool'[s] # "ended" => \A i \in DOMAIN pipe' : pipe'[i] # Update(s, "ended")
      BY <1>6, <2>1, <3>1, <3>2, <3>3 DEF Reported
    <3>5. \E p \in Prompts : prompts'[p] = "asked"
      BY <1>1, <1>14 DEF Busy, Orderly
    <3>6. ASSUME tool'[s] = "open", s \notin rt'.openTools
          PROVE  \E j \in DOMAIN pipe' : pipe'[j] = Update(s, "open")
      BY <1>1, <1>6, <2>1, <3>1, <3>6 DEF Reported
    <3> QED
      BY <3>4, <3>5, <3>6
  <2>5. Backed'
    BY <2>3 DEF Backed
  <2> QED
    BY <2>2, <2>4, <2>5
<1>15. Tidy'
  BY <1>1, <1>14 DEF Tidy, Orderly
<1>16. /\ AboutType(about') /\ about' \in [Requests -> Rows \cup {Nil}] /\ Live(rt, about')
      /\ asking' \in [Requests -> Prompts \cup {Nil}]
      /\ IsFiniteSet({r \in Requests : asking'[r] # Nil})
      /\ prompts' \in [Prompts -> {"new", "asked", "answered", "over"}]
  BY <1>1, <1>5 DEF Types
<1> QED
  BY <1>1, <1>6, <1>10, <1>11, <1>12, <1>13, <1>15, <1>16, WriteStep

LEMMA AskStep ==
  ASSUME IInv, NEW r \in Requests, NEW p \in Prompts, AdapterAsks(r, p)
  PROVE  IInv'
<1>1. /\ asking[r] = Nil /\ prompts[p] = "asked"
      /\ asking' = [asking EXCEPT ![r] = p]
      /\ \E w \in Named(r) : about' = [about EXCEPT ![r] = w]
      /\ Write(<<Request(r)>>)
      /\ UNCHANGED <<proc, tool, cancelled, winners, rt, prompts>>
  BY DEF AdapterAsks, userVars
<1> DEFINE more == <<Request(r)>>
<1>2. Request(r) \in Message /\ Request(r).kind = "request" /\ Request(r).of = r
  BY DEF Request, Message
<1>3. more \in Seq(Message) /\ DOMAIN more = {1} /\ more[1] = Request(r)
  BY <1>2
<1>4. pipe' = pipe \o more
  BY <1>1 DEF Write
<1> HIDE DEF more
<1>5. Types /\ Live(rt, about) /\ Fresh /\ Won /\ Answered
  BY DEF IInv
<1>6. /\ pipe' \in Seq(Message)
      /\ \A i \in DOMAIN pipe : i \in DOMAIN pipe' /\ pipe'[i] = pipe[i]
      /\ \A i \in DOMAIN pipe' : i \notin DOMAIN pipe =>
           i - Len(pipe) = 1 /\ pipe'[i] = Request(r)
      /\ DOMAIN pipe' \subseteq Nat /\ Len(pipe) \in Nat
      /\ DOMAIN pipe = 1..Len(pipe)
      /\ Len(pipe) + 1 \in DOMAIN pipe' /\ pipe'[Len(pipe) + 1] = Request(r)
  <2>1. pipe \in Seq(Message)
    BY <1>5 DEF Types
  <2>2. pipe' \in Seq(Message)
    BY <1>3, <1>4, <2>1, WriteAfter
  <2>3. \A i \in DOMAIN pipe : i \in DOMAIN pipe' /\ pipe'[i] = pipe[i]
    BY <1>3, <1>4, <2>1, WriteAfter
  <2>4. \A i \in DOMAIN pipe' : i \in DOMAIN pipe
           \/ /\ Len(pipe) < i
              /\ i - Len(pipe) \in DOMAIN more
              /\ pipe'[i] = more[i - Len(pipe)]
    BY <1>3, <1>4, <2>1, WriteAfter
  <2>5. DOMAIN pipe' \subseteq Nat /\ Len(pipe) \in Nat /\ DOMAIN pipe = 1..Len(pipe)
    BY <2>1, <2>2
  <2>7. Len(pipe) + 1 \in DOMAIN pipe' /\ pipe'[Len(pipe) + 1] = Request(r)
    BY <1>3, <1>4, <2>1, WriteAfter
  <2>6. ASSUME NEW i \in DOMAIN pipe', i \notin DOMAIN pipe
        PROVE  i - Len(pipe) = 1 /\ pipe'[i] = Request(r)
    <3>1. i - Len(pipe) \in DOMAIN more /\ pipe'[i] = more[i - Len(pipe)]
      BY <2>4, <2>6
    <3>2. i - Len(pipe) = 1
      BY <1>3, <3>1
    <3> QED
      BY <1>3, <3>1, <3>2
  <2> QED
    BY <2>2, <2>3, <2>5, <2>6, <2>7
<1>7. \A q \in Requests : q # r => Unread(pipe', q) = Unread(pipe, q)
  BY <1>2, <1>6 DEF Unread
<1>8. \A i, j \in Unread(pipe', r) : i = j
  <2>1. Unread(pipe, r) = {}
    BY <1>1, <1>5 DEF Fresh
  <2>2. \A i \in Unread(pipe', r) : i - Len(pipe) = 1 /\ i \in Nat
    BY <1>6, <2>1 DEF Unread
  <2> SUFFICES ASSUME NEW i \in Unread(pipe', r), NEW j \in Unread(pipe', r)
               PROVE  i = j
    OBVIOUS
  <2>3. i - Len(pipe) = 1 /\ j - Len(pipe) = 1 /\ i \in Nat /\ j \in Nat
    BY <2>2
  <2> QED
    BY <1>6, <2>3
<1>9. asking'[r] # Nil /\ \A q \in Requests : q # r => asking'[q] = asking[q]
  BY <1>1, <1>5, TurnAssumption DEF Types
<1>10. Fresh'
  BY <1>1, <1>5, <1>7, <1>8, <1>9 DEF Fresh, Untouched
<1>11. Won'
  BY <1>1, <1>5 DEF Won
<1>12. Answered'
  <2>1. \A q : Responses(pipe', q) = Responses(pipe, q)
    BY <1>2, <1>6 DEF Responses
  <2> QED
    BY <1>1, <1>5, <2>1 DEF Answered
<1>13. Covered'
  BY <1>1 DEF Covered
<1>14. /\ asking' \in [Requests -> Prompts \cup {Nil}]
       /\ IsFiniteSet({q \in Requests : asking'[q] # Nil})
  <2> DEFINE asked == {q \in Requests : asking[q] # Nil}
  <2>1. {q \in Requests : asking'[q] # Nil} = asked \cup {r}
    BY <1>9
  <2>2. IsFiniteSet(asked)
    BY <1>5 DEF Types
  <2> HIDE DEF asked
  <2>3. IsFiniteSet(asked \cup {r})
    BY <2>2, FS_AddElement
  <2>4. asking' \in [Requests -> Prompts \cup {Nil}]
    BY <1>1, <1>5 DEF Types
  <2> QED
    BY <2>1, <2>3, <2>4
<1> PICK w \in Named(r) : about' = [about EXCEPT ![r] = w]
  BY <1>1
<1>15. w \in Tools \cup ({r} \cap Forms) /\ w \in Rows
  BY RowFacts DEF Named
<1>16. /\ AboutType(about') /\ about' \in [Requests -> Rows \cup {Nil}]
       /\ about'[r] = w /\ \A q \in Requests : q # r => about'[q] = about[q]
  BY <1>5, <1>15 DEF Types, AboutType
<1>17. Untouched(rt, winners, r)
  BY <1>1, <1>5 DEF Fresh
<1>18. rt.pending \subseteq Cards
  BY <1>5 DEF Live, Sound, Kept, Runtime
<1>19. \A c \in rt.pending : c[1] # r
  BY <1>17, <1>18 DEF Untouched
<1>20. Live(rt, about')
  <2>1. ASSUME NEW f \in Forms
        PROVE  rt.rows[f] = "open" <=> about'[f] = f /\ \E c \in rt.pending : c[1] = f
    <3>1. rt.rows[f] = "open" <=> about[f] = f /\ \E c \in rt.pending : c[1] = f
      BY <1>5 DEF Live, Sound, RowsTrue
    <3>2. f \in Requests
      BY RowFacts
    <3>3. CASE f = r
      BY <1>19, <3>1, <3>3
    <3>4. CASE f # r
      BY <1>16, <3>1, <3>2, <3>4
    <3> QED
      BY <3>3, <3>4
  <2>2. RowsTrue(rt, about', Forms)
    BY <1>5, <2>1 DEF Live, Sound, RowsTrue
  <2> QED
    BY <1>5, <2>2 DEF Live, Sound
<1>21. ASSUME Orderly, ~rt.dead
       PROVE  Withdrawals' /\ Backed' /\ Reported'
  <2>1. Withdrawals /\ Backed /\ Reported
    BY <1>21 DEF IInv, Tidy
  <2>2. Grows /\ pipe \in Seq(Message) /\ pipe' \in Seq(Message)
    BY <1>5, <1>6 DEF Grows, Types
  <2>3. \A x : Request(r) # Abort(x) /\ Request(r) # Response(x)
    BY DEF Request, Abort, Response
  <2>4. \A x, y : Request(r) # Update(x, y)
    BY DEF Request, Update
  <2>5. Withdrawals'
    <3> SUFFICES ASSUME NEW q \in Requests, NEW a \in DOMAIN pipe', pipe'[a] = Abort(q)
                 PROVE  asking'[q] # Nil /\ \A k \in Unread(pipe', q) : k < a
      BY DEF Withdrawals
    <3>1. a \in DOMAIN pipe /\ pipe[a] = Abort(q)
      BY <1>6, <2>3
    <3>2. asking[q] # Nil /\ \A k \in Unread(pipe, q) : k < a
      BY <2>1, <3>1 DEF Withdrawals
    <3>3. q # r
      BY <1>1, <3>2
    <3> QED
      BY <1>7, <1>9, <3>2, <3>3
  <2>6. Reported'
    BY <1>1, <1>6, <2>1, <2>4 DEF Reported
  <2>7. ASSUME NEW q \in Requests, Engaged(rt', pipe', q), about'[q] \in Tools, q # r
        PROVE  BackedFor(q)'
    <3>1. Engaged(rt, pipe, q) /\ about[q] \in Tools
      BY <1>1, <1>7, <1>16, <2>7 DEF Engaged
    <3>2. BackedFor(q) /\ asking[q] \in Prompts
      BY <1>5, <2>1, <3>1, EngagedFacts DEF Backed
    <3>3. \A n \in DOMAIN pipe' :
            n \notin DOMAIN pipe =>
              pipe'[n] \notin {Update(about[q], "ended"), Response(asking[q])}
      BY <1>6, <2>3, <2>4
    <3>4. prompts'[asking[q]] = prompts[asking[q]] /\ prompts[asking[q]] \in {"asked", "answered"}
      BY <1>1, <3>2 DEF BackedFor
    <3>5. about'[q] = about[q] /\ asking'[q] = asking[q] /\ Unread(pipe', q) = Unread(pipe, q)
      BY <1>7, <1>9, <1>16, <2>7
    <3> QED
      BY <1>1, <2>2, <3>2, <3>3, <3>4, <3>5, BackedWritten
  <2>8. ASSUME w \in Tools
        PROVE  BackedFor(r)'
    <3>1. tool[w] = "open"
      BY <1>21, <2>8, RowFacts DEF Named, Orderly
    <3>2. asking'[r] = p /\ prompts'[p] = "asked"
      BY <1>1, <1>5 DEF Types
    <3>3. \A n \in DOMAIN pipe' : pipe'[n] # Update(w, "ended")
      BY <1>6, <2>1, <2>4, <2>8, <3>1 DEF Reported
    <3>4. \A n \in DOMAIN pipe' : pipe'[n] # Response(p)
      <4>1. Responses(pipe, p) = {}
        BY <1>1, <1>5 DEF Answered
      <4>2. Response(p).kind = "response" /\ Response(p).of = p
        BY DEF Response
      <4> QED
        BY <1>6, <2>3, <4>1, <4>2 DEF Responses
    <3>5. Len(pipe) + 1 \in Unread(pipe', r)
      BY <1>2, <1>6 DEF Unread
    <3>6. ASSUME w \notin rt.openTools
          PROVE  \E k \in Unread(pipe', r), j \in DOMAIN pipe' :
                   j < k /\ pipe'[j] = Update(w, "open")
      <4> PICK j \in DOMAIN pipe : pipe[j] = Update(w, "open")
        BY <2>1, <2>8, <3>1, <3>6 DEF Reported
      <4>1. j < Len(pipe) + 1 /\ j \in DOMAIN pipe' /\ pipe'[j] = Update(w, "open")
        BY <1>6
      <4> QED
        BY <3>5, <4>1
    <3> QED
      BY <1>1, <1>16, <3>2, <3>3, <3>4, <3>6 DEF BackedFor
  <2>9. Backed'
    BY <1>16, <2>7, <2>8 DEF Backed
  <2> QED
    BY <2>5, <2>6, <2>9
<1>22. Tidy'
  BY <1>1, <1>21 DEF Tidy, Orderly
<1>23. /\ tool' \in [Tools -> {"none", "open", "left", "ended"}]
       /\ prompts' \in [Prompts -> {"new", "asked", "answered", "over"}]
  BY <1>1, <1>5 DEF Types
<1> QED
  BY <1>1, <1>6, <1>10, <1>11, <1>12, <1>13, <1>14, <1>16, <1>20, <1>22, <1>23, WriteStep

\* The turn ends with the requests of it withdrawn, and then its response.
LEMMA LastWords ==
  ASSUME Types, NEW p \in Prompts, AdapterAnswers(p)
  PROVE  \E more \in Seq(Message) :
           /\ pipe' = pipe \o more
           /\ Len(more) \in DOMAIN more /\ more[Len(more)] = Response(p)
           /\ \A i \in DOMAIN more : i # Len(more) =>
                \E r \in Requests : asking[r] = p /\ more[i] = Abort(r)
           /\ \A r \in Requests : asking[r] = p /\ rt.answer[r] = Nil =>
                \E i \in DOMAIN more : i # Len(more) /\ more[i] = Abort(r)
<1> DEFINE left == {r \in Requests : asking[r] = p /\ rt.answer[r] = Nil}
<1>1. Cardinality(left) \in Nat
  <2>1. left \subseteq {r \in Requests : asking[r] # Nil}
    BY TurnAssumption
  <2>2. IsFiniteSet({r \in Requests : asking[r] # Nil})
    BY DEF Types
  <2> QED
    BY <2>1, <2>2, FS_Subset, FS_CardinalityType
<1>2. PICK order \in [1..Cardinality(left) -> left] :
           /\ \A r \in left : \E i \in DOMAIN order : order[i] = r
           /\ pipe' = pipe \o ([i \in DOMAIN order |-> Abort(order[i])] \o <<Response(p)>>)
  BY DEF AdapterAnswers, Write
<1> DEFINE n == Cardinality(left)
           aborts == [i \in DOMAIN order |-> Abort(order[i])]
           last == <<Response(p)>>
           more == aborts \o last
<1>3. /\ aborts \in [1..n -> Message]
      /\ \A i \in 1..n : \E r \in Requests : asking[r] = p /\ aborts[i] = Abort(r)
      /\ \A r \in left : \E i \in 1..n : aborts[i] = Abort(r)
  <2>1. \A r \in Requests : Abort(r) \in Message
    BY DEF Abort, Message
  <2>2. \A r \in left : r \in Requests /\ asking[r] = p
    OBVIOUS
  <2> HIDE DEF left
  <2>3. DOMAIN order = 1..n /\ \A i \in 1..n : order[i] \in left /\ aborts[i] = Abort(order[i])
    OBVIOUS
  <2>4. aborts \in [1..n -> Message]
    BY <2>1, <2>2, <2>3
  <2>5. \A i \in 1..n : \E r \in Requests : asking[r] = p /\ aborts[i] = Abort(r)
    BY <2>2, <2>3
  <2>6. ASSUME NEW r \in left
        PROVE  \E i \in 1..n : aborts[i] = Abort(r)
    <3> PICK i \in DOMAIN order : order[i] = r
      BY <1>2
    <3> QED
      BY <2>3
  <2> QED
    BY <2>4, <2>5, <2>6
<1>4. n \in Nat
  BY <1>1
<1> HIDE DEF left, aborts, n
<1>5. aborts \in Seq(Message) /\ Len(aborts) = n /\ DOMAIN aborts = 1..n
  BY <1>3, <1>4
<1>6. Response(p) \in Message
  BY DEF Response, Message
<1>7. last \in Seq(Message) /\ DOMAIN last = {1} /\ last[1] = Response(p) /\ Len(last) = 1
  BY <1>6
<1> HIDE DEF last
<1>8. /\ more \in Seq(Message)
      /\ Len(more) = n + 1
      /\ \A i \in 1..(n + 1) : more[i] = IF i <= n THEN aborts[i] ELSE last[i - n]
  <2>1. /\ more \in Seq(Message)
        /\ Len(more) = Len(aborts) + Len(last)
        /\ \A i \in 1..(Len(aborts) + Len(last)) :
             more[i] = IF i <= Len(aborts) THEN aborts[i] ELSE last[i - Len(aborts)]
    <3>1. aborts \in Seq(Message)
      BY <1>5
    <3>2. last \in Seq(Message)
      BY <1>7
    <3> QED
      BY <3>1, <3>2, ConcatProperties, Zenon
  <2>2. Len(aborts) = n /\ Len(last) = 1
    BY <1>7, <1>5
  <2> HIDE DEF more
  <2> QED
    BY <2>1, <2>2
<1> HIDE DEF more
<1>9. DOMAIN more = 1..(n + 1) /\ n \in Nat
  BY <1>4, <1>8
<1>10. pipe' = pipe \o more
  BY <1>2 DEF more, aborts, last
<1>11. Len(more) \in DOMAIN more /\ more[Len(more)] = Response(p)
  <2>1. n + 1 \in 1..(n + 1) /\ ~(n + 1 <= n) /\ (n + 1) - n = 1
    BY <1>9
  <2> QED
    BY <1>7, <1>8, <1>9, <2>1
<1>12. ASSUME NEW i \in DOMAIN more, i # Len(more)
       PROVE  \E r \in Requests : asking[r] = p /\ more[i] = Abort(r)
  <2>1. i \in 1..n /\ i \in 1..(n + 1) /\ i <= n
    BY <1>8, <1>9, <1>12
  <2> QED
    BY <1>3, <1>8, <2>1
<1>13. ASSUME NEW r \in left
       PROVE  \E i \in DOMAIN more : i # Len(more) /\ more[i] = Abort(r)
  <2> PICK i \in 1..n : aborts[i] = Abort(r)
    BY <1>3
  <2>1. i \in 1..(n + 1) /\ i <= n /\ i # n + 1
    BY <1>9
  <2> QED
    BY <1>8, <1>9, <2>1
<1>14. \A r \in Requests : asking[r] = p /\ rt.answer[r] = Nil => r \in left
  BY DEF left
<1> QED
  BY <1>8, <1>10, <1>11, <1>12, <1>13, <1>14

LEMMA AnswerStep ==
  ASSUME IInv, NEW p \in Prompts, AdapterAnswers(p)
  PROVE  IInv'
<1>1. /\ prompts[p] = "asked"
      /\ prompts' = [prompts EXCEPT ![p] = "answered"]
      /\ tool' = [t \in Tools |->
           IF tool[t] = "open" /\ \A q \in Prompts : prompts[q] = "asked" => q = p
           THEN "left" ELSE tool[t]]
      /\ UNCHANGED <<proc, asking, about, cancelled, winners, rt>>
  BY DEF AdapterAnswers, adapterVars, userVars
<1>2. Types /\ Live(rt, about) /\ Fresh /\ Won /\ Answered
  BY DEF IInv
<1> PICK more \in Seq(Message) :
           /\ pipe' = pipe \o more
           /\ Len(more) \in DOMAIN more /\ more[Len(more)] = Response(p)
           /\ \A i \in DOMAIN more : i # Len(more) =>
                \E r \in Requests : asking[r] = p /\ more[i] = Abort(r)
           /\ \A r \in Requests : asking[r] = p /\ rt.answer[r] = Nil =>
                \E i \in DOMAIN more : i # Len(more) /\ more[i] = Abort(r)
  BY <1>2, LastWords
<1>3. /\ Response(p).kind = "response" /\ Response(p).of = p
      /\ \A r : Abort(r).kind = "abort" /\ Abort(r).of = r
  BY DEF Response, Abort
<1> DEFINE n == Len(pipe) + Len(more)
<1>4. /\ pipe' \in Seq(Message)
      /\ \A i \in DOMAIN pipe : i \in DOMAIN pipe' /\ pipe'[i] = pipe[i] /\ i < n
      /\ n \in DOMAIN pipe' /\ pipe'[n] = Response(p) /\ n \in Nat
      /\ \A i \in DOMAIN pipe' :
           i \notin DOMAIN pipe /\ i # n =>
             /\ i < n /\ Len(pipe) < i
             /\ \E r \in Requests : asking[r] = p /\ pipe'[i] = Abort(r)
      /\ \A r \in Requests : asking[r] = p /\ rt.answer[r] = Nil =>
           \E i \in DOMAIN pipe' : i < n /\ pipe'[i] = Abort(r)
      /\ n \notin DOMAIN pipe /\ n = Len(pipe') /\ DOMAIN pipe = 1..Len(pipe)
  <2>1. pipe \in Seq(Message)
    BY <1>2 DEF Types
  <2>2. pipe' \in Seq(Message)
    BY <2>1, WriteAfter
  <2>3. \A i \in DOMAIN pipe : i \in DOMAIN pipe' /\ pipe'[i] = pipe[i]
    BY <2>1, WriteAfter
  <2>4. \A i \in DOMAIN more : /\ Len(pipe) + i \in DOMAIN pipe'
                               /\ pipe'[Len(pipe) + i] = more[i]
    BY <2>1, WriteAfter
  <2>5. n \in DOMAIN pipe' /\ pipe'[n] = Response(p)
    BY <2>4
  <2>6. \A i \in DOMAIN pipe' : i \in DOMAIN pipe
           \/ /\ Len(pipe) < i
              /\ i - Len(pipe) \in DOMAIN more
              /\ pipe'[i] = more[i - Len(pipe)]
    BY <2>1, WriteAfter
  <2>7. /\ Len(pipe) \in Nat /\ DOMAIN pipe = 1..Len(pipe)
        /\ Len(more) \in Nat /\ DOMAIN more = 1..Len(more)
        /\ DOMAIN pipe' \subseteq Nat
    BY <2>1, <2>2
  <2>8. n \in Nat /\ \A i \in DOMAIN pipe : i < n
    BY <2>7
  <2>9. ASSUME NEW i \in DOMAIN pipe', i \notin DOMAIN pipe, i # n
        PROVE  /\ i < n /\ Len(pipe) < i
               /\ \E r \in Requests : asking[r] = p /\ pipe'[i] = Abort(r)
    <3>1. i - Len(pipe) \in DOMAIN more /\ pipe'[i] = more[i - Len(pipe)]
      BY <2>6, <2>9
    <3>2. i - Len(pipe) # Len(more) /\ i < n
      BY <2>7, <2>9, <3>1
    <3> QED
      BY <2>6, <2>9, <3>1, <3>2
  <2>10. ASSUME NEW r \in Requests, asking[r] = p, rt.answer[r] = Nil
         PROVE  \E i \in DOMAIN pipe' : i < n /\ pipe'[i] = Abort(r)
    <3> PICK i \in DOMAIN more : i # Len(more) /\ more[i] = Abort(r)
      BY <2>10
    <3>1. Len(pipe) + i \in DOMAIN pipe' /\ pipe'[Len(pipe) + i] = Abort(r)
      BY <2>4
    <3>2. Len(pipe) + i < n
      BY <2>7
    <3> QED
      BY <3>1, <3>2
  <2>11. n \notin DOMAIN pipe
    <3>1. 1 <= Len(more)
      BY <2>7
    <3> QED
      BY <2>7, <3>1
  <2>12. n = Len(pipe')
    BY <2>1
  <2> QED
    BY <2>2, <2>3, <2>5, <2>7, <2>8, <2>9, <2>10, <2>11, <2>12
<1> HIDE DEF n
<1>5. \A r : Unread(pipe', r) = Unread(pipe, r)
  BY <1>3, <1>4 DEF Unread
<1>6. \A q \in Prompts : q # p => Responses(pipe', q) = Responses(pipe, q)
  BY <1>3, <1>4 DEF Responses
<1>7. Responses(pipe, p) = {}
  BY <1>1, <1>2 DEF Answered
<1>8. Responses(pipe', p) = {n}
  BY <1>3, <1>4, <1>7 DEF Responses
<1>9. Answered'
  BY <1>1, <1>2, <1>6, <1>8 DEF Types, Answered
<1>10. Keeps(rt', rt, {})
  BY <1>1 DEF Keeps
<1>11. Fresh' /\ Won'
  BY <1>1, <1>2, <1>5, <1>10, FreshAndWonSame
<1>12. Covered'
  <2> SUFFICES ASSUME NEW i \in DOMAIN pipe', pipe'[i].kind = "update"
               PROVE  \E j \in DOMAIN pipe' : i < j /\ pipe'[j].kind = "response"
    BY DEF Covered
  <2>1. i # n
    BY <1>3, <1>4
  <2>2. i < n
    BY <1>4, <2>1
  <2> QED
    BY <1>3, <1>4, <2>2
<1>13. InFlight(prompts') = InFlight(prompts)
  BY <1>1, <1>2 DEF Types, InFlight
<1>14. prompts' \in [Prompts -> {"new", "asked", "answered", "over"}]
  BY <1>1, <1>2 DEF Types
<1>15. ASSUME Orderly, ~rt.dead
       PROVE  Withdrawals' /\ Backed' /\ Reported'
  <2>1. Withdrawals /\ Backed /\ Reported
    BY <1>15 DEF IInv, Tidy
  <2>2. Grows /\ pipe \in Seq(Message)
    BY <1>2, <1>4 DEF Grows, Types
  <2>3. \A x : \A y : Response(p) # Abort(x) /\ Response(p) # Update(x, y)
                      /\ Abort(x) # Update(y, "ended") /\ Abort(x) # Response(y)
    BY DEF Response, Abort, Update
  <2>4. Withdrawals'
    <3> SUFFICES ASSUME NEW r \in Requests, NEW a \in DOMAIN pipe', pipe'[a] = Abort(r)
                 PROVE  asking[r] # Nil /\ \A k \in Unread(pipe, r) : k < a
      BY <1>1, <1>5 DEF Withdrawals
    <3>1. CASE a \in DOMAIN pipe
      BY <1>4, <2>1, <3>1 DEF Withdrawals
    <3>2. CASE a \notin DOMAIN pipe
      <4>1. a # n
        BY <1>4, <2>3
      <4>2. Len(pipe) < a /\ \E q \in Requests : asking[q] = p /\ Abort(r) = Abort(q)
        BY <1>4, <3>2, <4>1
      <4>3. asking[r] = p
        BY <1>3, <4>2
      <4>4. \A k \in Unread(pipe, r) : k \in 1..Len(pipe)
        BY <1>4 DEF Unread
      <4>5. Len(pipe) \in Nat /\ a \in Nat
        BY <1>4, <2>2
      <4>6. \A k \in Unread(pipe, r) : k < a
        BY <4>2, <4>4, <4>5
      <4> QED
        BY <4>3, <4>6, TurnAssumption
    <3> QED
      BY <3>1, <3>2
  <2>5. ASSUME NEW r \in Requests, Engaged(rt', pipe', r), about'[r] \in Tools
        PROVE  BackedFor(r)'
    <3>1. Engaged(rt, pipe, r) /\ about[r] \in Tools
      BY <1>1, <1>5, <2>5 DEF Engaged
    <3>2. BackedFor(r) /\ asking[r] \in Prompts /\ rt.answer[r] = Nil
      BY <1>2, <2>1, <3>1, EngagedFacts DEF Backed
    <3>3. asking[r] = p => WithdrawnBy(pipe', r, n) /\ WithdrawnBy(pipe', r, n + 1)
      <4> SUFFICES ASSUME asking[r] = p
                   PROVE  WithdrawnBy(pipe', r, n) /\ WithdrawnBy(pipe', r, n + 1)
        OBVIOUS
      <4> PICK i \in DOMAIN pipe' : i < n /\ pipe'[i] = Abort(r)
        BY <1>4, <3>2
      <4>1. i < n + 1
        BY <1>4
      <4> QED
        BY <4>1 DEF WithdrawnBy
    <3>4. ASSUME NEW i \in DOMAIN pipe', i \notin DOMAIN pipe,
                 pipe'[i] \in {Update(about[r], "ended"), Response(asking[r])}
          PROVE  WithdrawnBy(pipe', r, i)
      <4>1. i = n
        <5> SUFFICES ASSUME i # n
                     PROVE  FALSE
          OBVIOUS
        <5> PICK q \in Requests : pipe'[i] = Abort(q)
          BY <1>4, <3>4
        <5>1. Abort(q) # Update(about[r], "ended") /\ Abort(q) # Response(asking[r])
          BY <2>3
        <5> QED
          BY <3>4, <5>1
      <4>2. Response(p) = Response(asking[r])
        BY <1>4, <2>3, <3>4, <4>1
      <4>3. asking[r] = p
        BY <4>2 DEF Response
      <4> QED
        BY <3>3, <4>1, <4>3
    <3>5. /\ prompts'[asking[r]] \in {"asked", "answered"}
          /\ asking[r] # p => prompts'[asking[r]] = prompts[asking[r]]
      BY <1>1, <1>2, <3>2 DEF Types, BackedFor
    <3>6. prompts'[asking[r]] = "answered" =>
            prompts[asking[r]] = "answered" \/ WithdrawnBy(pipe', r, Len(pipe') + 1)
      BY <1>4, <3>3, <3>5
    <3> QED
      BY <1>1, <1>4, <1>5, <2>2, <3>2, <3>4, <3>5, <3>6, BackedWritten
  <2>6. Reported'
    <3> SUFFICES ASSUME NEW t \in Tools
                 PROVE  /\ tool'[t] # "ended" =>
                             \A i \in DOMAIN pipe' : pipe'[i] # Update(t, "ended")
                        /\ tool'[t] = "open" =>
                             /\ \E q \in Prompts : prompts'[q] = "asked"
                             /\ \/ t \in rt'.openTools
                                \/ \E j \in DOMAIN pipe' : pipe'[j] = Update(t, "open")
      BY DEF Reported
    <3>1. /\ tool'[t] = "ended" <=> tool[t] = "ended"
          /\ tool'[t] = "open" =>
               tool[t] = "open" /\ \E q \in Prompts : prompts[q] = "asked" /\ q # p
      <4> DEFINE last == \A q \in Prompts : prompts[q] = "asked" => q = p
      <4>1. tool'[t] = IF tool[t] = "open" /\ last THEN "left" ELSE tool[t]
        BY <1>1
      <4>2. ~last => \E q \in Prompts : prompts[q] = "asked" /\ q # p
        OBVIOUS
      <4> HIDE DEF last
      <4> QED
        BY <4>1, <4>2
    <3>2. tool'[t] # "ended" => \A i \in DOMAIN pipe' : pipe'[i] # Update(t, "ended")
      <4> SUFFICES ASSUME tool'[t] # "ended", NEW i \in DOMAIN pipe',
                          pipe'[i] = Update(t, "ended")
                   PROVE  FALSE
        OBVIOUS
      <4>1. CASE i \in DOMAIN pipe
        BY <1>4, <2>1, <3>1, <4>1 DEF Reported
      <4>2. CASE i = n
        BY <1>4, <2>3, <4>2
      <4>3. CASE i \notin DOMAIN pipe /\ i # n
        <5> PICK q \in Requests : pipe'[i] = Abort(q)
          BY <1>4, <4>3
        <5> QED
          BY <2>3
      <4> QED
        BY <4>1, <4>2, <4>3
    <3>3. tool'[t] = "open" => \E q \in Prompts : prompts'[q] = "asked"
      BY <1>1, <1>2, <3>1 DEF Types
    <3>4. tool'[t] = "open" =>
            t \in rt'.openTools \/ \E j \in DOMAIN pipe' : pipe'[j] = Update(t, "open")
      BY <1>1, <1>4, <2>1, <3>1 DEF Reported
    <3> QED
      BY <3>2, <3>3, <3>4
  <2>7. Backed'
    BY <2>5 DEF Backed
  <2> QED
    BY <2>4, <2>6, <2>7
<1>16. Tidy'
  BY <1>1, <1>15 DEF Tidy, Orderly
<1>17. /\ AboutType(about') /\ about' \in [Requests -> Rows \cup {Nil}] /\ Live(rt, about')
      /\ asking' \in [Requests -> Prompts \cup {Nil}]
      /\ IsFiniteSet({r \in Requests : asking'[r] # Nil})
      /\ tool' \in [Tools -> {"none", "open", "left", "ended"}]
  BY <1>1, <1>2 DEF Types
<1> QED
  BY <1>1, <1>4, <1>9, <1>11, <1>12, <1>13, <1>14, <1>16, <1>17, WriteStep

LEMMA DieStep ==
  ASSUME IInv, AdapterDies
  PROVE  IInv'
<1>1. /\ proc' = "gone"
      /\ UNCHANGED <<tool, asking, about, cancelled, winners, pipe, rt, prompts>>
  BY DEF AdapterDies, userVars
<1>2. Tidy'
  BY <1>1, TidyKept
<1> QED
  BY <1>1, <1>2 DEF IInv, Types, Active, Fresh, Won, Answered, InTurn, Covered, ToolsEnd,
                    Untouched

\* What waits unread may only be covered by a turn that is in flight.
LEMMA CoveredIsInFlight ==
  ASSUME Types, Active, Answered, Covered, NEW i \in DOMAIN pipe, pipe[i].kind = "update"
  PROVE  rt.active > 0
<1>1. CASE \E p \in Prompts : prompts[p] = "asked"
  BY <1>1, ActiveFacts
<1>2. CASE \E j \in DOMAIN pipe : i < j /\ pipe[j].kind = "response"
  <2> PICK j \in DOMAIN pipe : pipe[j].kind = "response"
    BY <1>2
  <2>1. pipe[j] \in Message
    BY DEF Types
  <2>2. pipe[j].of \in Prompts
    BY <2>1, MessageFacts
  <2>3. prompts[pipe[j].of] = "answered"
    BY <2>2 DEF Answered, Responses
  <2> QED
    BY <2>2, <2>3, ActiveFacts
<1> QED
  BY <1>1, <1>2 DEF Covered

\* Something is read that ends no turn.
LEMMA ReadStep ==
  ASSUME IInv, NEW n \in Nat \ {0}, Rest(pipe', pipe, n), NEW q,
         Live(rt', about), Keeps(rt', rt, q), rt'.active = rt.active,
         \A r \in Requests \cap q : 1 \in Unread(pipe, r),
         rt'.openTools = rt.openTools \/ (~LateUpdates => rt.active > 0),
         rt'.dead = rt.dead, Orderly /\ ~rt.dead => Tidy',
         UNCHANGED <<proc, tool, asking, about, cancelled, winners, prompts>>
  PROVE  IInv'
<1>1. Types'
  BY DEF IInv, Types, Rest
<1>2. Fresh' /\ Won'
  BY FreshAndWonRead DEF IInv
<1>3. Answered'
  BY ReadKeepsAnswered DEF IInv
<1>4. ~LateUpdates => Covered'
  BY ReadKeepsCovered DEF IInv, InTurn
<1>5. ~LateUpdates => ToolsEnd'
  BY ActiveFacts DEF IInv, InTurn, ToolsEnd
<1>6. Active'
  BY DEF IInv, Active
<1>7. Tidy'
  BY DEF Tidy, Orderly
<1> QED
  BY <1>1, <1>2, <1>3, <1>4, <1>5, <1>6, <1>7 DEF IInv, InTurn

LEMMA HeadFacts ==
  ASSUME Types, NEW kind, Heads(kind)
  PROVE  /\ pipe \in Seq(Message)
         /\ Head(pipe) = pipe[1] /\ pipe[1] \in Message /\ pipe[1].kind = kind
         /\ 1 \in DOMAIN pipe
         /\ Rest(Tail(pipe), pipe, 1)
BY ReadFirst DEF Types, Heads

\* A message is what was written.
LEMMA Written ==
  ASSUME NEW m \in Message
  PROVE  /\ m.kind = "update" => m = Update(m.of, m.is)
         /\ m.kind = "response" => m = Response(m.of)
         /\ \A t, is : m = Update(t, is) => m.kind = "update" /\ m.of = t /\ m.is = is
         /\ \A r : m = Abort(r) => m.kind = "abort" /\ m.of = r
         /\ \A p : m = Response(p) => m.kind = "response" /\ m.of = p
BY DEF Message, Update, Abort, Response

LEMMA UpdateStep ==
  ASSUME IInv, HandleUpdate
  PROVE  IInv'
<1> DEFINE t == Head(pipe).of
           is == Head(pipe).is
<1>1. /\ Heads("update")
      /\ rt' = [rt EXCEPT !.rows[t] = is,
                          !.openTools = IF is = "open" THEN @ \cup {t} ELSE @ \ {t}]
      /\ pipe' = Tail(pipe)
      /\ UNCHANGED <<proc, tool, asking, about, cancelled, winners, prompts>>
  BY DEF HandleUpdate, adapterVars, userVars
<1>2. /\ pipe[1].kind = "update" /\ 1 \in DOMAIN pipe
      /\ pipe[1] \in Message /\ Head(pipe) = pipe[1]
      /\ Rest(pipe', pipe, 1)
  BY <1>1, HeadFacts DEF IInv
<1>3. t \in Tools /\ is \in {"open", "ended"}
  BY <1>2, MessageFacts
<1>6. pipe[1] = Update(t, is)
  BY <1>2, Written
<1> HIDE DEF t, is
<1>4. /\ Live(rt', about) /\ Keeps(rt', rt, {}) /\ rt'.active = rt.active
      /\ rt'.dead = rt.dead /\ rt'.pending = rt.pending
      /\ rt'.openTools = IF is = "open" THEN rt.openTools \cup {t} ELSE rt.openTools \ {t}
  <2> DEFINE g == [rt EXCEPT !.rows[t] = is,
                             !.openTools = IF is = "open" THEN @ \cup {t} ELSE @ \ {t}]
  <2>1. Live(rt, about)
    BY DEF IInv
  <2>2. Live(g, about) /\ Keeps(g, rt, {}) /\ g.active = rt.active
    BY <1>3, <2>1, UpdateLive
  <2>3. rt' = g
    BY <1>1
  <2>4. /\ g.dead = rt.dead /\ g.pending = rt.pending
        /\ g.openTools = IF is = "open" THEN rt.openTools \cup {t} ELSE rt.openTools \ {t}
    BY <2>1 DEF Live, Sound, Kept, Runtime
  <2> HIDE DEF g
  <2> QED
    BY <2>2, <2>3, <2>4
<1>5. ~LateUpdates => rt.active > 0
  BY <1>2, CoveredIsInFlight DEF IInv, InTurn
<1>7. ASSUME Orderly, ~rt.dead
      PROVE  Tidy'
  <2>1. Backed /\ Reported
    BY <1>7 DEF IInv, Tidy
  <2>2. \A n \in DOMAIN pipe : n \in Nat /\ (n <= 1 => n = 1)
    <3>1. pipe \in Seq(Message)
      BY DEF IInv, Types
    <3> QED
      BY <3>1
  <2>3. ASSUME NEW r \in Requests, Engaged(rt', pipe', r), about[r] \in Tools
        PROVE  /\ Engaged(rt, pipe, r)
               /\ \A a \in DOMAIN pipe : a <= 1 => pipe[a] # Abort(r)
               /\ about[r] \in rt.openTools => about[r] \in rt'.openTools
    <3>1. Engaged(rt, pipe, r)
      BY <1>2, <1>4, <2>3, UnreadMoves DEF Engaged
    <3>2. \A a \in DOMAIN pipe : a <= 1 => pipe[a] # Abort(r)
      BY <1>2, <2>2, Written
    <3>3. ASSUME about[r] = t, is = "ended"
          PROVE  FALSE
      <4>1. WithdrawnBy(pipe, r, 1)
        BY <1>2, <1>6, <2>1, <2>3, <3>1, <3>3 DEF Backed, BackedFor
      <4> QED
        BY <2>2, <4>1 DEF WithdrawnBy
    <3> QED
      BY <1>3, <1>4, <3>1, <3>2, <3>3
  <2>4. ASSUME NEW s \in Tools, tool[s] = "open", s \in rt.openTools
        PROVE  s \in rt'.openTools
    <3>1. pipe[1] # Update(s, "ended")
      BY <1>2, <2>1, <2>4 DEF Reported
    <3> QED
      BY <1>3, <1>4, <1>6, <2>4, <3>1
  <2>5. ASSUME NEW s \in Tools, NEW j \in DOMAIN pipe, j <= 1, pipe[j] = Update(s, "open")
        PROVE  s \in rt'.openTools
    <3>1. pipe[1] = Update(s, "open")
      BY <2>2, <2>5
    <3>2. s = t /\ is = "open"
      BY <1>6, <3>1 DEF Update
    <3> QED
      BY <1>4, <3>2
  <2>6. \A r \in Requests : prompts'[asking[r]] = prompts[asking[r]]
    BY <1>1
  <2>7. \A p \in Prompts : prompts[p] = "asked" => prompts'[p] = "asked"
    BY <1>1
  <2>8. 1 \in Nat \ {0} /\ UNCHANGED <<tool, asking, about>>
    BY <1>1
  <2> QED
    BY <1>2, <1>7, <2>3, <2>4, <2>5, <2>6, <2>7, <2>8, TidyRead
<1> QED
  BY <1>1, <1>2, <1>4, <1>5, <1>7, ReadStep

\* A request that is read was not known.
LEMMA FirstAsked ==
  ASSUME IInv, Heads("request")
  PROVE  LET r == Head(pipe).of
         IN  /\ r \in Requests
             /\ 1 \in Unread(pipe, r)
             /\ Live(Asked(rt, r), about)
             /\ Keeps(Asked(rt, r), rt, {r})
             /\ Asked(rt, r).active = rt.active
             /\ Asked(rt, r).openTools = rt.openTools
             /\ Asked(rt, r).dead = rt.dead
             /\ ~rt.dead => Asked(rt, r).pending = rt.pending \cup {Card(r)}
             /\ \A c \in rt.pending : c[1] # r
<1> DEFINE r == Head(pipe).of
<1>1. /\ 1 \in DOMAIN pipe /\ pipe[1].kind = "request"
      /\ pipe[1] \in Message /\ Head(pipe) = pipe[1]
  BY HeadFacts DEF IInv
<1>2. r \in Requests /\ 1 \in Unread(pipe, r)
  BY <1>1, MessageFacts DEF Unread
<1> HIDE DEF r
<1>3. Untouched(rt, winners, r)
  BY <1>2 DEF IInv, Fresh
<1>4. \A c \in Cards : c[1] = r => c \notin rt.pending /\ rt.resolution[c] = Nil
  BY <1>3 DEF Untouched
<1>5. ~rt.dead => Grounded(rt, about, r)
  <2> SUFFICES ASSUME ~rt.dead, Orderly, about[r] \in Tools
               PROVE  about[r] \in rt.openTools
    BY DEF Grounded
  <2>1. BackedFor(r)
    BY <1>2 DEF IInv, Tidy, Backed, Engaged
  <2>2. \A k \in Unread(pipe, r) : k = 1
    BY <1>2 DEF IInv, Fresh
  <2>3. \A j \in DOMAIN pipe : ~(j < 1)
    BY DEF IInv, Types
  <2> QED
    BY <2>1, <2>2, <2>3 DEF BackedFor
<1>6. rt.pending \subseteq Cards
  BY DEF IInv, Live, Sound, Kept, Runtime
<1>7. rt.answer[r] = Nil /\ AboutType(about) /\ Live(rt, about)
  BY <1>3 DEF Untouched, IInv, Types
<1>8. \A c \in rt.pending : c[1] # r
  BY <1>4, <1>6
<1> QED
  BY <1>2, <1>4, <1>5, <1>7, <1>8, AskedLive DEF r

\* A read request, withdrawal or update of another tool call changes no tool call.
LEMMA TidyAsRead ==
  ASSUME IInv, Orderly, ~rt.dead, NEW n \in Nat \ {0}, Rest(pipe', pipe, n),
         UNCHANGED <<tool, asking, about, prompts>>, rt'.openTools = rt.openTools,
         \A j \in DOMAIN pipe : j <= n => pipe[j].kind # "update",
         \A r \in Requests : Engaged(rt', pipe', r) =>
           /\ Engaged(rt, pipe, r)
           /\ \A a \in DOMAIN pipe : a <= n => pipe[a] # Abort(r)
  PROVE  Tidy'
<1>1. \A t \in Tools, j \in DOMAIN pipe :
        j <= n /\ pipe[j] = Update(t, "open") => t \in rt'.openTools
  BY DEF Update
<1>2. /\ \A r \in Requests : prompts'[asking[r]] = prompts[asking[r]]
      /\ \A p \in Prompts : prompts[p] = "asked" => prompts'[p] = "asked"
  OBVIOUS
<1> QED
  BY <1>1, <1>2, TidyRead

LEMMA RequestStep ==
  ASSUME IInv, HandleRequest
  PROVE  IInv'
<1> DEFINE r == Head(pipe).of
<1>1. /\ Heads("request") /\ rt' = Asked(rt, r) /\ pipe' = Tail(pipe)
      /\ UNCHANGED <<proc, tool, asking, about, cancelled, winners, prompts>>
  BY DEF HandleRequest, adapterVars, userVars
<1>2. Rest(pipe', pipe, 1)
  BY <1>1, HeadFacts DEF IInv
<1>3. /\ 1 \in Unread(pipe, r)
      /\ Live(rt', about) /\ Keeps(rt', rt, {r}) /\ rt'.active = rt.active
      /\ rt'.openTools = rt.openTools /\ rt'.dead = rt.dead /\ r \in Requests
      /\ ~rt.dead => rt'.pending = rt.pending \cup {Card(r)}
  BY <1>1, FirstAsked
<1>4. \A j \in DOMAIN pipe : j <= 1 => pipe[j].kind = "request"
  BY <1>1, HeadFacts DEF IInv, Types
<1> HIDE DEF r
<1>5. ASSUME Orderly, ~rt.dead
      PROVE  Tidy'
  <2>1. ASSUME NEW s \in Requests, Engaged(rt', pipe', s)
        PROVE  Engaged(rt, pipe, s)
    <3>1. Card(r)[1] = r
      BY <1>3, FirstCard
    <3>2. Unread(pipe', s) # {} => Unread(pipe, s) # {}
      BY <1>2, UnreadMoves
    <3>3. \A c \in rt'.pending : c \in rt.pending \/ c[1] = r
      BY <1>3, <1>5, <3>1
    <3> QED
      BY <1>3, <2>1, <3>2, <3>3 DEF Engaged
  <2>2. \A s : \A a \in DOMAIN pipe : a <= 1 => pipe[a] # Abort(s)
    BY <1>4 DEF Abort
  <2> QED
    BY <1>1, <1>2, <1>3, <1>4, <1>5, <2>1, <2>2, TidyAsRead
<1> QED
  BY <1>1, <1>2, <1>3, <1>5, ReadStep

LEMMA WithdrawnStep ==
  ASSUME IInv, HandleWithdrawnRequest
  PROVE  IInv'
<1> DEFINE r == Head(pipe).of
           g == Asked(rt, r)
<1>1. /\ Heads("request") /\ Len(pipe) > 1 /\ pipe[2] = Abort(r)
      /\ rt' = Settle(g, {Card(r)}, "cancelled")
      /\ pipe' = SubSeq(pipe, 3, Len(pipe))
      /\ UNCHANGED <<proc, tool, asking, about, cancelled, winners, prompts>>
  BY DEF HandleWithdrawnRequest, adapterVars, userVars
<1>2. Rest(pipe', pipe, 2)
  <2>1. pipe \in Seq(Message)
    BY DEF IInv, Types
  <2>2. 2 <= Len(pipe) /\ 2 + 1 = 3
    BY <1>1, <2>1
  <2>3. Rest(SubSeq(pipe, 2 + 1, Len(pipe)), pipe, 2)
    BY <2>1, <2>2, DropFirst
  <2> QED
    BY <1>1, <2>3
<1>3. /\ 1 \in Unread(pipe, r)
      /\ Live(g, about) /\ Keeps(g, rt, {r})
      /\ g.active = rt.active /\ g.openTools = rt.openTools /\ g.dead = rt.dead
      /\ ~rt.dead => g.pending = rt.pending \cup {Card(r)}
      /\ r \in Requests /\ AboutType(about) /\ \A c \in rt.pending : c[1] # r
  BY <1>1, FirstAsked DEF IInv, Types
<1>9. \A j \in DOMAIN pipe : j <= 2 => pipe[j].kind = "request" \/ pipe[j] = Abort(r)
  <2>1. \A j \in DOMAIN pipe : j <= 2 => j = 1 \/ j = 2
    BY DEF IInv, Types
  <2> QED
    BY <1>1, <2>1, HeadFacts DEF IInv
<1> HIDE DEF r, g
<1>4. /\ Live(rt', about) /\ Keeps(rt', g, {})
      /\ Settled(rt', g, Unsettled(g, {Card(r)}), "cancelled")
  BY <1>1, <1>3, SettleLive DEF Outcomes
<1>5. Keeps(rt', rt, {r})
  BY <1>3, <1>4, KeepsAgain
<1>6. rt'.active = rt.active /\ rt'.openTools = rt.openTools
  BY <1>3, <1>4 DEF Settled
<1>7. 2 \in Nat \ {0} /\ \A s \in Requests \cap {r} : 1 \in Unread(pipe, s)
  BY <1>3
<1>8. /\ Live(rt', about) /\ rt'.dead = rt.dead
      /\ UNCHANGED <<proc, tool, asking, about, cancelled, winners, prompts>>
  BY <1>1, <1>3, <1>4 DEF Settled
<1>10. ASSUME Orderly, ~rt.dead
       PROVE  Tidy'
  <2>1. Unread(pipe', r) = {}
    <3>1. \A k \in Unread(pipe', r) : k \in Nat \ {0} /\ k + 2 \in Unread(pipe, r)
      BY <1>2, UnreadMoves
    <3>2. \A k \in Unread(pipe', r) : k \in Nat \ {0} /\ k + 2 = 1
      BY <1>3, <3>1 DEF IInv, Fresh
    <3> QED
      BY <3>2
  <2>2. \A c \in rt'.pending : c \in rt.pending
    <3>1. Unsettled(g, {Card(r)}) = {Card(r)}
      BY <1>3, <1>10 DEF Unsettled, Live, Sound, Kept
    <3>2. rt'.pending = g.pending \ {Card(r)}
      BY <1>4, <3>1 DEF Settled
    <3> QED
      BY <1>3, <1>10, <3>2
  <2>3. ASSUME NEW s \in Requests, Engaged(rt', pipe', s)
        PROVE  Engaged(rt, pipe, s) /\ s # r
    <3>1. Unread(pipe', s) # {} => Unread(pipe, s) # {}
      BY <1>2, UnreadMoves
    <3>2. s # r
      BY <1>3, <2>1, <2>2, <2>3 DEF Engaged
    <3> QED
      BY <2>2, <2>3, <3>1, <3>2 DEF Engaged
  <2>4. ASSUME NEW s \in Requests, s # r, NEW a \in DOMAIN pipe, a <= 2
        PROVE  pipe[a] # Abort(s)
    <3>1. Abort(s).kind = "abort" /\ Abort(s) # Abort(r)
      BY <2>4 DEF Abort
    <3> QED
      BY <1>9, <2>4, <3>1
  <2>5. \A j \in DOMAIN pipe : j <= 2 => pipe[j].kind # "update"
    BY <1>9 DEF Abort
  <2> QED
    BY <1>2, <1>6, <1>7, <1>8, <1>10, <2>3, <2>4, <2>5, TidyAsRead
<1> QED
  BY <1>2, <1>5, <1>6, <1>7, <1>8, <1>10, ReadStep

LEMMA AbortStep ==
  ASSUME IInv, HandleAbort
  PROVE  IInv'
<1> DEFINE cs == {c \in Cards : c[1] = Head(pipe).of}
<1>1. /\ Heads("abort") /\ rt' = Settle(rt, cs, "cancelled") /\ pipe' = Tail(pipe)
      /\ UNCHANGED <<proc, tool, asking, about, cancelled, winners, prompts>>
  BY DEF HandleAbort, adapterVars, userVars
<1>2. Rest(pipe', pipe, 1)
  BY <1>1, HeadFacts DEF IInv
<1>5. /\ pipe[1].kind = "abort" /\ 1 \in DOMAIN pipe /\ pipe[1] \in Message
      /\ Head(pipe) = pipe[1]
      /\ \A j \in DOMAIN pipe : j <= 1 => j = 1
  BY <1>1, HeadFacts DEF IInv, Types
<1>6. \A c \in Cards : c[1] = pipe[1].of => c \in cs
  BY <1>5
<1>7. \A c \in cs : c \in Cards /\ c[1] = pipe[1].of
  BY <1>5
<1> HIDE DEF cs
<1>3. /\ Live(rt', about) /\ Keeps(rt', rt, {})
      /\ Settled(rt', rt, Unsettled(rt, cs), "cancelled")
  BY <1>1, SettleLive DEF IInv, Outcomes, Types
<1>4. rt'.active = rt.active /\ rt'.openTools = rt.openTools /\ rt'.dead = rt.dead
  BY <1>3 DEF Settled
<1>8. ASSUME Orderly, ~rt.dead
      PROVE  Tidy'
  <2> DEFINE r == pipe[1].of
  <2>1. rt.pending \subseteq Cards /\ rt.resolvers = rt.pending
    BY DEF IInv, Live, Sound, Kept, Runtime
  <2>2. \A c \in rt'.pending : c \in rt.pending /\ c[1] # r
    BY <1>3, <1>6, <2>1 DEF Settled, Unsettled
  <2>3. r \in Requests /\ pipe[1] = Abort(r)
    BY <1>5 DEF Message, Abort
  <2> HIDE DEF r
  <2>4. Unread(pipe', r) = {}
    <3>1. \A k \in Unread(pipe, r) : k < 1
      BY <1>5, <1>8, <2>3 DEF IInv, Tidy, Withdrawals
    <3>2. \A k \in Unread(pipe', r) : k \in Nat \ {0} /\ k + 1 < 1
      BY <1>2, <3>1, UnreadMoves
    <3> QED
      BY <3>2
  <2>5. ASSUME NEW s \in Requests, Engaged(rt', pipe', s)
        PROVE  Engaged(rt, pipe, s) /\ s # r
    <3>1. Unread(pipe', s) # {} => Unread(pipe, s) # {}
      BY <1>2, UnreadMoves
    <3>2. s # r
      BY <2>2, <2>4, <2>5 DEF Engaged
    <3> QED
      BY <2>2, <2>5, <3>1, <3>2 DEF Engaged
  <2>6. ASSUME NEW s \in Requests, s # r, NEW a \in DOMAIN pipe, a <= 1
        PROVE  pipe[a] # Abort(s)
    <3>1. Abort(s) # Abort(r)
      BY <2>6 DEF Abort
    <3> QED
      BY <1>5, <2>3, <2>6, <3>1
  <2>7. \A j \in DOMAIN pipe : j <= 1 => pipe[j].kind # "update"
    BY <1>5
  <2>8. 1 \in Nat \ {0}
    OBVIOUS
  <2> QED
    BY <1>1, <1>2, <1>4, <1>8, <2>5, <2>6, <2>7, <2>8, TidyAsRead
<1> QED
  BY <1>1, <1>2, <1>3, <1>4, <1>8, ReadStep

LEMMA ResponseStep ==
  ASSUME IInv, HandleResponse
  PROVE  IInv'
<1> DEFINE p == Head(pipe).of
<1>1. /\ Heads("response") /\ rt' = TurnEnds(rt) /\ pipe' = Tail(pipe)
      /\ prompts' = [prompts EXCEPT ![p] = Head(pipe).is]
      /\ UNCHANGED <<proc, tool, asking, about, cancelled, winners>>
  BY DEF HandleResponse, adapterVars, userVars
<1>2. /\ pipe[1].kind = "response" /\ 1 \in DOMAIN pipe
      /\ pipe[1] \in Message /\ Head(pipe) = pipe[1]
      /\ Rest(pipe', pipe, 1)
  BY <1>1, HeadFacts DEF IInv
<1>3. p \in Prompts /\ Head(pipe).is = "over" /\ 1 \in Responses(pipe, p)
  BY <1>2, MessageFacts DEF Responses
<1> HIDE DEF p
<1>4. prompts[p] = "answered"
  BY <1>3 DEF IInv, Answered
<1>5. prompts' = [prompts EXCEPT ![p] = "over"]
  BY <1>1, <1>3
<1>6. /\ Live(rt', about) /\ Keeps(rt', rt, {}) /\ rt'.active = rt.active - 1
      /\ rt'.dead = rt.dead /\ rt'.pending = rt.pending
      /\ rt'.openTools = IF rt'.active = 0 THEN {} ELSE rt.openTools
  BY <1>1, TurnEndsLive DEF IInv
<1>7. Types'
  BY <1>1, <1>2, <1>5 DEF IInv, Types, Rest
<1>8. Active'
  BY <1>3, <1>4, <1>5, <1>6, ActiveCounts DEF IInv
<1>9. Fresh' /\ Won'
  <2>1. \A r \in Requests \cap {} : 1 \in Unread(pipe, r)
    OBVIOUS
  <2>2. UNCHANGED <<asking, winners>> /\ 1 \in Nat \ {0}
    BY <1>1
  <2> QED
    BY <1>2, <1>6, <2>1, <2>2, FreshAndWonRead DEF IInv
<1>10. Answered'
  <2>1. Responses(pipe', p) = {}
    <3>1. \A i \in Responses(pipe', p) : i + 1 \in Responses(pipe, p) /\ i \in Nat \ {0}
      BY <1>2 DEF Rest, Responses
    <3>2. \A i \in Responses(pipe', p) : i + 1 = 1 /\ i \in Nat \ {0}
      BY <1>3, <3>1 DEF IInv, Answered
    <3> QED
      BY <3>2
  <2>2. \A q \in Prompts : Responses(pipe', q) # {} => prompts'[q] = prompts[q]
    BY <1>5, <2>1 DEF IInv, Types
  <2> QED
    BY <1>2, <2>2, ReadKeepsAnswered DEF IInv
<1>11. InTurn'
  <2>1. \A q \in Prompts : prompts[q] = "asked" => prompts'[q] = "asked"
    BY <1>4, <1>5 DEF IInv, Types
  <2>2. ~LateUpdates => Covered'
    BY <1>2, <2>1, ReadKeepsCovered DEF IInv, InTurn
  <2> QED
    BY <1>6, <2>2 DEF InTurn, ToolsEnd
<1>12. ASSUME Orderly, ~rt.dead
       PROVE  Tidy'
  <2>1. Backed /\ Reported
    BY <1>12 DEF IInv, Tidy
  <2>2. \A j \in DOMAIN pipe : j <= 1 => j = 1
    BY DEF IInv, Types
  <2>3. pipe[1] = Response(p)
    BY <1>2, Written DEF p
  <2>4. \A q \in Prompts : prompts'[q] \in {"asked", "answered"} => rt'.active # 0
    <3>1. IsFiniteSet(InFlight(prompts')) /\ rt'.active = Cardinality(InFlight(prompts'))
      BY <1>8 DEF Active
    <3>2. rt'.active = 0 => InFlight(prompts') = {}
      BY <3>1, FS_EmptySet
    <3> QED
      BY <3>2 DEF InFlight
  <2>5. \A q \in Prompts : q # p => prompts'[q] = prompts[q]
    BY <1>5 DEF IInv, Types
  <2>6. ASSUME NEW r \in Requests, Engaged(rt', pipe', r), about[r] \in Tools
        PROVE  /\ Engaged(rt, pipe, r)
               /\ \A a \in DOMAIN pipe : a <= 1 => pipe[a] # Abort(r)
               /\ prompts'[asking[r]] = prompts[asking[r]]
               /\ about[r] \in rt.openTools => about[r] \in rt'.openTools
    <3>1. Engaged(rt, pipe, r)
      BY <1>2, <1>6, <2>6, UnreadMoves DEF Engaged
    <3>2. BackedFor(r) /\ asking[r] \in Prompts
      BY <2>1, <2>6, <3>1, EngagedFacts DEF Backed, IInv
    <3>3. asking[r] # p
      <4>1. ASSUME asking[r] = p
            PROVE  WithdrawnBy(pipe, r, 1)
        BY <1>2, <2>3, <3>2, <4>1 DEF BackedFor
      <4>2. ~WithdrawnBy(pipe, r, 1)
        <5>1. \A a \in DOMAIN pipe : ~(a < 1)
          BY DEF IInv, Types
        <5> QED
          BY <5>1 DEF WithdrawnBy
      <4> QED
        BY <4>1, <4>2
    <3>4. prompts'[asking[r]] = prompts[asking[r]] /\ rt'.active # 0
      BY <2>4, <2>5, <3>2, <3>3 DEF BackedFor
    <3>5. \A a \in DOMAIN pipe : a <= 1 => pipe[a] # Abort(r)
      BY <1>2, <2>2 DEF Abort
    <3> QED
      BY <1>6, <3>1, <3>4, <3>5
  <2>7. \A q \in Prompts : prompts[q] = "asked" => prompts'[q] = "asked"
    BY <1>4, <1>5 DEF IInv, Types
  <2>8. ASSUME NEW t \in Tools, tool[t] = "open", t \in rt.openTools
        PROVE  t \in rt'.openTools
    <3>1. \E q \in Prompts : prompts'[q] = "asked"
      BY <2>1, <2>7, <2>8 DEF Reported
    <3> QED
      BY <1>6, <2>4, <2>8, <3>1
  <2>9. ASSUME NEW t \in Tools, NEW j \in DOMAIN pipe, j <= 1, pipe[j] = Update(t, "open")
        PROVE  t \in rt'.openTools
    BY <1>2, <2>2, <2>9 DEF Update
  <2>10. 1 \in Nat \ {0} /\ UNCHANGED <<tool, asking, about>>
    BY <1>1
  <2> QED
    BY <1>2, <1>12, <2>6, <2>7, <2>8, <2>9, <2>10, TidyRead
<1>13. Tidy'
  BY <1>6, <1>12 DEF Tidy, Orderly
<1> QED
  BY <1>1, <1>6, <1>7, <1>8, <1>9, <1>10, <1>11, <1>13 DEF IInv

LEMMA SeesDeathStep ==
  ASSUME IInv, SeesDeath
  PROVE  IInv'
<1>1. /\ rt' = MarkDead(rt)
      /\ UNCHANGED <<proc, tool, asking, about, cancelled, winners, pipe, prompts>>
  BY DEF SeesDeath, adapterVars, userVars
<1>2. /\ Live(rt', about) /\ Keeps(rt', rt, {}) /\ rt'.active = rt.active
      /\ rt'.openTools = {} \/ rt'.openTools = rt.openTools
      /\ rt'.dead
  BY <1>1, MarkDeadLive DEF IInv, Types
<1>3. Fresh' /\ Won'
  BY <1>1, <1>2, FreshAndWonSame DEF IInv
<1>4. cancelled' \subseteq Prompts /\ winners' \in [Cards -> SUBSET Users]
  BY <1>1 DEF IInv, Types
<1>5. Tidy'
  BY <1>2 DEF Tidy
<1> QED
  BY <1>1, <1>2, <1>3, <1>4, <1>5, RuntimeStep

LEMMA RejectStep ==
  ASSUME IInv, NEW p \in Prompts, RejectPrompt(p)
  PROVE  IInv'
<1>1. /\ pipe = <<>> /\ prompts[p] = "asked"
      /\ rt' = TurnEnds(MarkDead(rt))
      /\ prompts' = [prompts EXCEPT ![p] = "over"]
      /\ UNCHANGED <<proc, tool, asking, about, cancelled, winners, pipe>>
  BY DEF RejectPrompt, adapterVars, userVars
<1>2. DOMAIN pipe' = {}
  BY <1>1
<1>3. /\ Live(rt', about) /\ Keeps(rt', rt, {}) /\ rt'.active = rt.active - 1
      /\ rt'.active = 0 => rt'.openTools = {}
      /\ rt'.dead
  <2> DEFINE g == MarkDead(rt)
  <2>1. Live(g, about) /\ Keeps(g, rt, {}) /\ g.active = rt.active /\ g.dead
    BY MarkDeadLive DEF IInv, Types
  <2>2. rt' = TurnEnds(g)
    BY <1>1
  <2> HIDE DEF g
  <2>3. /\ Live(rt', about) /\ Keeps(rt', g, {}) /\ rt'.active = g.active - 1
        /\ rt'.dead = g.dead
        /\ rt'.active = 0 => rt'.openTools = {}
    BY <2>1, <2>2, TurnEndsLive
  <2>4. Keeps(rt', rt, {})
    BY <2>1, <2>3, KeepsAgain
  <2> QED
    BY <2>1, <2>3, <2>4
<1>4. Types'
  BY <1>1 DEF IInv, Types
<1>5. Active'
  BY <1>1, <1>3, ActiveCounts DEF IInv
<1>6. Fresh' /\ Won'
  BY <1>1, <1>3, FreshAndWonSame DEF IInv
<1>7. Answered' /\ Covered'
  BY <1>2 DEF Answered, Responses, Covered
<1>8. InTurn'
  BY <1>3, <1>7 DEF InTurn, ToolsEnd
<1>9. Tidy'
  BY <1>3 DEF Tidy
<1> QED
  BY <1>1, <1>3, <1>4, <1>5, <1>6, <1>7, <1>8, <1>9 DEF IInv

LEMMA StutterStep ==
  ASSUME IInv, UNCHANGED vars
  PROVE  IInv'
<1>1. UNCHANGED <<proc, tool, asking, about, cancelled, winners, pipe, rt, prompts>>
  BY DEF vars, adapterVars, userVars
<1>2. /\ Live(rt', about) /\ Keeps(rt', rt, {}) /\ rt'.active = rt.active
      /\ rt'.openTools = rt.openTools
  BY <1>1 DEF IInv, Keeps
<1>3. Fresh' /\ Won'
  BY <1>1, <1>2, FreshAndWonSame DEF IInv
<1>4. cancelled' \subseteq Prompts /\ winners' \in [Cards -> SUBSET Users]
  BY <1>1 DEF IInv, Types
<1>5. Tidy'
  BY <1>1, TidyKept
<1> QED
  BY <1>1, <1>2, <1>3, <1>4, <1>5, RuntimeStep

LEMMA StepHolds == IInv /\ [Next]_vars => IInv'
<1> SUFFICES ASSUME IInv, [Next]_vars
             PROVE  IInv'
  OBVIOUS
<1>1. ASSUME NEW p \in Prompts, Prompt(p) PROVE IInv'
  BY <1>1, PromptStep
<1>2. ASSUME NEW u \in Users, NEW c \in Cards, Respond(u, c) PROVE IInv'
  BY <1>2, RespondStep
<1>3. CASE Cancel
  BY <1>3, CancelStep
<1>4. ASSUME NEW t \in Tools, AdapterReports(t) PROVE IInv'
  BY <1>4, ReportStep
<1>5. ASSUME NEW r \in Requests, NEW p \in Prompts, AdapterAsks(r, p) PROVE IInv'
  BY <1>5, AskStep
<1>6. ASSUME NEW p \in Prompts, AdapterAnswers(p) PROVE IInv'
  BY <1>6, AnswerStep
<1>7. CASE AdapterDies
  BY <1>7, DieStep
<1>8. CASE HandleUpdate
  BY <1>8, UpdateStep
<1>9. CASE HandleRequest
  BY <1>9, RequestStep
<1>10. CASE HandleWithdrawnRequest
  BY <1>10, WithdrawnStep
<1>11. CASE HandleAbort
  BY <1>11, AbortStep
<1>12. CASE HandleResponse
  BY <1>12, ResponseStep
<1>13. CASE SeesDeath
  BY <1>13, SeesDeathStep
<1>14. ASSUME NEW p \in Prompts, RejectPrompt(p) PROVE IInv'
  BY <1>14, RejectStep
<1>15. CASE UNCHANGED vars
  BY <1>15, StutterStep
<1> QED
  BY <1>1, <1>2, <1>3, <1>4, <1>5, <1>6, <1>7, <1>8, <1>9, <1>10, <1>11, <1>12,
     <1>13, <1>14, <1>15 DEF Next, UserStep, AdapterStep, HostStep

-----------------------------------------------------------------------------
\* What follows.

LEMMA InvariantHolds == Spec => []IInv
<1>1. Init => IInv
  BY InitHolds
<1>2. IInv /\ [Next]_vars => IInv'
  BY StepHolds
<1> QED
  BY <1>1, <1>2, PTL DEF Spec

LEMMA TypesAreOK == IInv => TypeOK
<1> SUFFICES ASSUME IInv PROVE TypeOK
  OBVIOUS
<1>1. Types /\ rt \in Runtime /\ rt.resolvers = rt.pending /\ Active
  BY DEF IInv, Live, Sound, Kept
<1>2. \A i \in DOMAIN pipe :
        /\ pipe[i].kind \in {"update", "request", "abort", "response"}
        /\ pipe[i].of \in Tools \cup Requests \cup Prompts
  BY <1>1, MessageFacts DEF Types
<1>3. /\ rt.dead \in BOOLEAN
      /\ rt.status \in {"idle", "running", "awaiting_permission", "dead"}
      /\ rt.pending \subseteq Cards
      /\ rt.openTools \subseteq Tools
      /\ rt.rows \in [Rows -> {"none", "open", "ended"}]
      /\ rt.resolution \in [Cards -> Outcomes \cup {Nil}]
      /\ rt.answer \in [Requests -> Outcomes \cup {"accept", "cancel", Nil}]
  BY <1>1 DEF Runtime, Status
<1>4. rt.active = Cardinality({p \in Prompts : prompts[p] \in {"asked", "answered"}})
  BY <1>1 DEF Active, InFlight
<1>5. \A c \in Cards : winners[c] \subseteq Users
  BY <1>1 DEF Types
<1> QED
  BY <1>1, <1>2, <1>3, <1>4, <1>5 DEF Types, TypeOK, AboutType

\* Every variable has its type whatever users and the adapter do, and whenever it
\* dies: the count of prompts in flight is exact (acp-sessions.ts:887-905).
THEOREM TypeCorrect == Spec => []TypeOK
BY InvariantHolds, TypesAreOK, PTL

LEMMA FramesAreCurrent == IInv => StateFrameIsCurrent
<1> SUFFICES ASSUME IInv PROVE StateFrameIsCurrent
  OBVIOUS
<1>1. /\ rt \in Runtime /\ rt.resolvers = rt.pending /\ (rt.dead => rt.pending = {})
      /\ rt.status = ComputeStatus(rt)
      /\ rt.shown = [status |-> rt.status, pending |-> rt.pending]
  BY DEF IInv, Live, Sound, Kept, Current
<1>2. rt.shown.status = ComputeStatus(rt) /\ rt.shown.pending = rt.resolvers
  BY <1>1
<1>3. rt.dead \in BOOLEAN
  BY <1>1 DEF Runtime
<1>4. rt.active > 0 <=> \E p \in Prompts : prompts[p] \in {"asked", "answered"}
  BY ActiveFacts DEF IInv
<1>5. CASE rt.dead
  <2>1. ComputeStatus(rt) = "dead"
    BY <1>5 DEF ComputeStatus
  <2> QED
    BY <1>1, <1>2, <1>5, <2>1 DEF StateFrameIsCurrent
<1>6. CASE ~rt.dead /\ rt.pending # {}
  <2>1. ComputeStatus(rt) = "awaiting_permission"
    BY <1>6 DEF ComputeStatus
  <2> QED
    BY <1>1, <1>2, <1>6, <2>1 DEF StateFrameIsCurrent
<1>7. CASE ~rt.dead /\ rt.pending = {} /\ rt.active > 0
  <2>1. ComputeStatus(rt) = "running"
    BY <1>7 DEF ComputeStatus
  <2> QED
    BY <1>1, <1>2, <1>4, <1>7, <2>1 DEF StateFrameIsCurrent
<1>8. CASE ~rt.dead /\ rt.pending = {} /\ ~(rt.active > 0)
  <2>1. ComputeStatus(rt) = "idle"
    BY <1>8 DEF ComputeStatus
  <2> QED
    BY <1>1, <1>2, <1>4, <1>8, <2>1 DEF StateFrameIsCurrent
<1> QED
  BY <1>3, <1>5, <1>6, <1>7, <1>8

\* The state frame every subscriber saw last has the status and the cards the
\* session has, after any race of prompts, answers, cancels, withdrawals and the
\* death of the adapter (acp-sessions.ts:703-705, 877-879, 1179-1211).
THEOREM StateFrameIsAlwaysCurrent == Spec => []StateFrameIsCurrent
BY InvariantHolds, FramesAreCurrent, PTL

LEMMA WinnersAreFirst == IInv => FirstAnswerWins
<1> SUFFICES ASSUME IInv, NEW c \in Cards
             PROVE  /\ Cardinality(winners[c]) <= 1
                    /\ \A u \in winners[c] :
                         /\ rt.resolution[c] = u
                         /\ c[1] \in Permissions => rt.answer[c[1]] = u
  BY DEF FirstAnswerWins
<1>1. CASE winners[c] = {}
  <2>1. Cardinality(winners[c]) = 0
    BY <1>1, FS_EmptySet
  <2> QED
    BY <1>1, <2>1
<1>2. CASE winners[c] # {}
  <2> PICK u \in Users : /\ winners[c] = {u}
                         /\ rt.resolution[c] = u
                         /\ c[1] \in Permissions => rt.answer[c[1]] = u
    BY <1>2 DEF IInv, Won
  <2>1. Cardinality(winners[c]) = 1
    BY FS_Singleton
  <2> QED
    BY <2>1
<1> QED
  BY <1>1, <1>2

\* However many users answer a card, on however many devices, and whatever a
\* cancel, a withdrawal or the adapter's death does to it meanwhile, one at most
\* is told that their answer was taken, and it is the one the journal and the
\* adapter got (acp-sessions.ts:429-441, 1138-1158).
THEOREM FirstAnswerAlwaysWins == Spec => []FirstAnswerWins
BY InvariantHolds, WinnersAreFirst, PTL

LEMMA RowsEnd ==
  ASSUME ~LateUpdates, ~Unreported
  PROVE  IInv => NothingLeftRunning
<1> SUFFICES ASSUME IInv PROVE NothingLeftRunning
  OBVIOUS
<1>1. ToolsEnd /\ RowsTrue(rt, about, Forms)
  BY DEF IInv, InTurn, Live, Sound
<1>2. rt.active = 0 => \A t \in Tools : rt.rows[t] # "open"
  BY <1>1 DEF ToolsEnd, RowsTrue, Orderly
<1>3. \A f \in Forms :
        rt.rows[f] = "open" <=> Own(f) /\ \E c \in rt.pending : c[1] = f
  BY <1>1 DEF RowsTrue, Own
<1> QED
  BY <1>2, <1>3 DEF NothingLeftRunning

\* With an adapter that reports on its tools only during a turn, asks about the ones
\* it has reported and keeps those open while it asks, no row outlives the last turn in
\* flight, ended, failed, cancelled or cut off by the adapter's death, although each
\* card shows the row of its tool call as open again; and the row a form has to itself
\* is open as long as a question of it waits (acp-sessions.ts:413-419, 887-905,
\* 1038-1056).
THEOREM NothingIsLeftRunning ==
  ASSUME ~LateUpdates, ~Unreported
  PROVE  Spec => []NothingLeftRunning
<1>1. IInv => NothingLeftRunning
  BY RowsEnd
<1> QED
  BY <1>1, InvariantHolds, PTL

=============================================================================
