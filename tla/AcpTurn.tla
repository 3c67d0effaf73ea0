------------------------------- MODULE AcpTurn -------------------------------
(***************************************************************************)
(* One live agent session: the runtime AcpSessionManager keeps for it      *)
(* (host-service/runtime/acp-sessions/acp-sessions.ts), the adapter        *)
(* process behind it, and the users of all devices, who prompt it, cancel  *)
(* it and answer what it asks.                                             *)
(*                                                                         *)
(* The adapter writes into one pipe, read in order; the host may learn of  *)
(* its exit before the pipe is drained, and rejects the prompts in flight  *)
(* when the connection closes, after it is.  A handler and the promise     *)
(* continuations it releases are one step.  What the journal tells is kept *)
(* as what session-protocol/fold/fold.ts makes of it: the last state       *)
(* frame, the state of each tool row, the resolution of each card.         *)
(* Left out: the text of messages, plans, titles, modes and options, which *)
(* only refresh the state frame.                                           *)
(***************************************************************************)
EXTENDS Integers, Sequences, FiniteSets

CONSTANTS
  Users,        \* who answers, on any device
  Prompts,      \* prompts that may be sent
  Tools,        \* tool calls the adapter may make
  Permissions,  \* permission requests it may make
  Forms,        \* form elicitations it may make
  Questions,    \* questions of a form
  LateUpdates,  \* may the adapter report on tools outside a turn?
  Unreported,   \* may it ask about a tool call it has not reported, or end one
                \* while it asks about it?
  Nil,
  MaxPipe       \* bound of the instance: unread reports and requests

ASSUME TurnAssumption ==
  /\ Questions \in Nat \ {0}
  /\ LateUpdates \in BOOLEAN /\ Unreported \in BOOLEAN
  /\ MaxPipe \in Nat
  /\ Permissions \cap Forms = {}
  /\ Tools \cap (Permissions \cup Forms) = {}
  /\ Nil \notin Users \cup Prompts \cup {"cancelled", "cancel", "accept"}
  /\ Nil \notin Tools \cup Permissions \cup Forms

VARIABLES
  proc,       \* the adapter process: up or gone
  pipe,       \* what it wrote and the host did not read
  rt,         \* the runtime, and what its journal shows
  prompts,    \* where each prompt is
  cancelled,  \* prompts in flight when a user cancelled
  tool,       \* each tool call at the adapter
  asking,     \* the prompt for which each request was made, Nil: not made
  about,      \* the row in which its cards are shown, Nil: not made
  winners     \* who was told that their answer to a card was taken

adapterVars == <<proc, tool, asking, about>>
userVars == <<cancelled, winners>>
vars == <<adapterVars, userVars, pipe, rt, prompts>>

Requests == Permissions \cup Forms
Card(r) == <<r, 1>>
Cards == (Permissions \X {1}) \cup (Forms \X (1..Questions))
Outcomes == Users \cup {"cancelled"}
\* A tool call has a row; a form that names no tool call has one of its own.
Rows == Tools \cup Forms
Own(f) == about[f] = f

-----------------------------------------------------------------------------
\* The runtime.

ComputeStatus(h) ==
  CASE h.dead -> "dead"
    [] ~h.dead /\ h.pending # {} -> "awaiting_permission"
    [] ~h.dead /\ h.pending = {} /\ h.active > 0 -> "running"
    [] OTHER -> "idle"

\* With a bug: nothing is emitted when the status stays the same.
SyncStatus_OnChange(h) ==
  IF h.status = ComputeStatus(h) THEN h
  ELSE [h EXCEPT !.status = ComputeStatus(h),
                 !.shown = [status |-> ComputeStatus(h), pending |-> h.pending]]

\* A forced syncStatus: the state frame that is journaled.
SyncStatus(h) ==
  [h EXCEPT !.status = ComputeStatus(h),
            !.shown = [status |-> ComputeStatus(h), pending |-> h.pending]]

\* A card is put.  Its row is the tool call's, made when it was never reported, which
\* does not count it as a tool call in flight; the card's pending status becomes the
\* row's.
Park(h, c) ==
  SyncStatus([h EXCEPT !.pending = @ \cup {c}, !.resolvers = @ \cup {c},
                       !.rows[about[c[1]]] = "open"])

\* What a request is answered once its card c is settled: Nil when a form goes
\* on to its next question.
Reply(c, outcome) ==
  CASE c[1] \in Permissions -> outcome
    [] c[1] \in Forms /\ outcome = "cancelled" -> "cancel"
    [] c[1] \in Forms /\ outcome # "cancelled" /\ c[2] = Questions -> "accept"
    [] OTHER -> Nil

\* With a bug: an answer is taken although the card is settled.
Unsettled_OrAnswered(h, cs) == {c \in cs : c \in h.resolvers \/ h.resolution[c] # Nil}

\* The cards of cs that have not been settled yet.
Unsettled(h, cs) == cs \cap h.resolvers

\* They get the outcome; a form's next question is put.  Only a row the form has to
\* itself ends with it.
Settle(h, cs, outcome) ==
  LET now  == Unsettled(h, cs)
      Of(r) == CHOOSE c \in now : c[1] = r
      over == {c[1] : c \in {d \in now : Reply(d, outcome) # Nil}}
      next == {<<c[1], c[2] + 1>> : c \in {d \in now : Reply(d, outcome) = Nil}}
      told == SyncStatus(
        [h EXCEPT !.pending = @ \ now, !.resolvers = @ \ now,
                  !.resolution = [c \in Cards |-> IF c \in now THEN outcome ELSE @[c]],
                  !.answer = [r \in Requests |->
                    IF r \in over THEN Reply(Of(r), outcome) ELSE @[r]],
                  !.rows = [w \in Rows |-> IF w \in over /\ Own(w) THEN "ended" ELSE @[w]]])
  IN  CASE now = {} -> h
        [] now # {} /\ next = {} -> told
        [] OTHER -> Park(told, CHOOSE c \in next : TRUE)

TerminalizeOpenToolCalls(h) ==
  [h EXCEPT !.rows = [w \in Rows |-> IF w \in h.openTools THEN "ended" ELSE @[w]],
            !.openTools = {}]

MarkDead(h) ==
  IF h.dead THEN h
  ELSE SyncStatus(TerminalizeOpenToolCalls(
         Settle([h EXCEPT !.dead = TRUE], h.resolvers, "cancelled")))

-----------------------------------------------------------------------------
\* Users.

Prompt(p) ==
  /\ prompts[p] = "new" /\ ~rt.dead
  /\ prompts' = [prompts EXCEPT ![p] = "asked"]
  /\ rt' = SyncStatus([rt EXCEPT !.active = @ + 1])
  /\ UNCHANGED <<adapterVars, userVars, pipe>>

\* respondToPermission: anyone may answer a card they were shown, however late.
\* The outcome, the option that is selected, is named by who selected it.
Respond(u, c) ==
  /\ ~rt.dead
  /\ c \in rt.pending \/ rt.resolution[c] # Nil
  /\ rt' = Settle(rt, {c}, u)
  /\ winners' = IF rt' = rt THEN winners ELSE [winners EXCEPT ![c] = @ \cup {u}]
  /\ UNCHANGED <<adapterVars, cancelled, pipe, prompts>>

Cancel ==
  /\ ~rt.dead
  /\ rt' = Settle(rt, rt.resolvers, "cancelled")
  /\ cancelled' = cancelled \cup {p \in Prompts : prompts[p] = "asked"}
  /\ UNCHANGED <<adapterVars, winners, pipe, prompts>>

-----------------------------------------------------------------------------
\* The adapter.

Write(messages) == pipe' = pipe \o messages
Update(t, status) == [kind |-> "update", of |-> t, is |-> status]
Request(r) == [kind |-> "request", of |-> r, is |-> "asked"]
Abort(r) == [kind |-> "abort", of |-> r, is |-> "withdrawn"]
Response(p) == [kind |-> "response", of |-> p, is |-> "over"]

Busy == LateUpdates \/ \E p \in Prompts : prompts[p] = "asked"

\* A tool call about which the adapter waits for an answer.
AskedAbout(t) ==
  \E r \in Requests :
    about[r] = t /\ rt.answer[r] = Nil /\ prompts[asking[r]] = "asked"

\* A tool call starts, and ends later, be it after the turn it was made in.
AdapterReports(t) ==
  /\ proc = "up" /\ Busy /\ Len(pipe) < MaxPipe
  /\ \E status \in {"open", "ended"} :
       /\ <<tool[t], status>> \in
            {<<"none", "open">>, <<"open", "ended">>, <<"left", "ended">>}
       /\ status = "ended" /\ ~Unreported => ~AskedAbout(t)
       /\ tool' = [tool EXCEPT ![t] = status]
       /\ Write(<<Update(t, status)>>)
  /\ UNCHANGED <<proc, asking, about, userVars, rt, prompts>>

\* The rows a request may be about.
Named(r) ==
  {t \in Tools : tool[t] = "open" \/ (Unreported /\ tool[t] # "ended")} \cup ({r} \cap Forms)

AdapterAsks(r, p) ==
  /\ proc = "up" /\ asking[r] = Nil /\ prompts[p] = "asked" /\ Len(pipe) < MaxPipe
  /\ asking' = [asking EXCEPT ![r] = p]
  /\ \E w \in Named(r) : about' = [about EXCEPT ![r] = w]
  /\ Write(<<Request(r)>>)
  /\ UNCHANGED <<proc, tool, userVars, rt, prompts>>

\* The turn ends, well or with an error, with what is unanswered of it withdrawn; the
\* tool calls left open by the last one are not asked about again.
AdapterAnswers(p) ==
  LET left == {r \in Requests : asking[r] = p /\ rt.answer[r] = Nil}
  IN  /\ proc = "up" /\ prompts[p] = "asked"
      /\ prompts' = [prompts EXCEPT ![p] = "answered"]
      /\ \E order \in [1..Cardinality(left) -> left] :
           /\ \A r \in left : \E i \in DOMAIN order : order[i] = r
           /\ Write([i \in DOMAIN order |-> Abort(order[i])] \o <<Response(p)>>)
      /\ tool' = [t \in Tools |->
           IF tool[t] = "open" /\ \A q \in Prompts : prompts[q] = "asked" => q = p
           THEN "left" ELSE tool[t]]
      /\ UNCHANGED <<proc, asking, about, userVars, rt>>

AdapterDies ==
  /\ proc = "up"
  /\ proc' = "gone"
  /\ UNCHANGED <<tool, asking, about, userVars, pipe, rt, prompts>>

-----------------------------------------------------------------------------
\* What reaches the host.

Heads(kind) == pipe # <<>> /\ Head(pipe).kind = kind

HandleUpdate ==
  /\ Heads("update")
  /\ LET t == Head(pipe).of
     IN  rt' = [rt EXCEPT !.rows[t] = Head(pipe).is,
                          !.openTools = IF Head(pipe).is = "open" THEN @ \cup {t}
                                        ELSE @ \ {t}]
  /\ pipe' = Tail(pipe)
  /\ UNCHANGED <<adapterVars, userVars, prompts>>

\* session/request_permission and elicitation/create.
Asked(h, r) ==
  IF h.dead
  THEN [h EXCEPT !.answer[r] = Reply(Card(r), "cancelled")]
  ELSE Park(h, Card(r))

HandleRequest ==
  /\ Heads("request")
  /\ rt' = Asked(rt, Head(pipe).of)
  /\ pipe' = Tail(pipe)
  /\ UNCHANGED <<adapterVars, userVars, prompts>>

\* The request is withdrawn before its handler runs: the signal is aborted by then.
HandleWithdrawnRequest ==
  /\ Heads("request") /\ Len(pipe) > 1
  /\ LET r == Head(pipe).of
     IN  /\ pipe[2] = Abort(r)
         /\ rt' = Settle(Asked(rt, r), {Card(r)}, "cancelled")
  /\ pipe' = SubSeq(pipe, 3, Len(pipe))
  /\ UNCHANGED <<adapterVars, userVars, prompts>>

\* With a bug: a form is withdrawn by its first question.
HandleAbort_OfTheFirstCard ==
  /\ Heads("abort")
  /\ rt' = Settle(rt, {Card(Head(pipe).of)}, "cancelled")
  /\ pipe' = Tail(pipe)
  /\ UNCHANGED <<adapterVars, userVars, prompts>>

HandleAbort ==
  /\ Heads("abort")
  /\ rt' = Settle(rt, {c \in Cards : c[1] = Head(pipe).of}, "cancelled")
  /\ pipe' = Tail(pipe)
  /\ UNCHANGED <<adapterVars, userVars, prompts>>

\* With a bug: nothing is done about what the turn left running.
TurnEnds_LeavesToolsOpen(h) == SyncStatus([h EXCEPT !.active = @ - 1])

\* The turn ends for the host: `finally` of its request.
TurnEnds(h) ==
  LET ended == [h EXCEPT !.active = @ - 1]
  IN  SyncStatus(IF ended.active = 0 THEN TerminalizeOpenToolCalls(ended) ELSE ended)

HandleResponse ==
  /\ Heads("response")
  /\ rt' = TurnEnds(rt)
  /\ prompts' = [prompts EXCEPT ![Head(pipe).of] = Head(pipe).is]
  /\ pipe' = Tail(pipe)
  /\ UNCHANGED <<adapterVars, userVars>>

\* The process exits, and the connection's signal aborts once the pipe is drained.
SeesDeath ==
  /\ proc = "gone"
  /\ rt' = MarkDead(rt)
  /\ UNCHANGED <<adapterVars, userVars, pipe, prompts>>

\* The connection closes: its signal aborts and a request in flight is rejected, in
\* either order, with the same outcome.
RejectPrompt(p) ==
  /\ proc = "gone" /\ pipe = <<>> /\ prompts[p] = "asked"
  /\ rt' = TurnEnds(MarkDead(rt))
  /\ prompts' = [prompts EXCEPT ![p] = "over"]
  /\ UNCHANGED <<adapterVars, userVars, pipe>>

-----------------------------------------------------------------------------
Init ==
  /\ proc = "up"
  /\ pipe = <<>>
  /\ rt = [dead |-> FALSE, status |-> "idle", pending |-> {}, resolvers |-> {},
           openTools |-> {}, active |-> 0,
           shown |-> [status |-> "idle", pending |-> {}],
           rows |-> [w \in Rows |-> "none"],
           resolution |-> [c \in Cards |-> Nil],
           answer |-> [r \in Requests |-> Nil]]
  /\ prompts = [p \in Prompts |-> "new"]
  /\ cancelled = {}
  /\ tool = [t \in Tools |-> "none"]
  /\ asking = [r \in Requests |-> Nil]
  /\ about = [r \in Requests |-> Nil]
  /\ winners = [c \in Cards |-> {}]

UserStep ==
  \/ \E p \in Prompts : Prompt(p)
  \/ \E u \in Users, c \in Cards : Respond(u, c)
  \/ Cancel

AdapterStep ==
  \/ \E t \in Tools : AdapterReports(t)
  \/ \E r \in Requests, p \in Prompts : AdapterAsks(r, p)
  \/ \E p \in Prompts : AdapterAnswers(p)
  \/ AdapterDies

HostStep ==
  \/ HandleUpdate
  \/ HandleRequest
  \/ HandleWithdrawnRequest
  \/ HandleAbort
  \/ HandleResponse
  \/ SeesDeath
  \/ \E p \in Prompts : RejectPrompt(p)

Next == UserStep \/ AdapterStep \/ HostStep

Spec == Init /\ [][Next]_vars

\* The event loop serves what it is told, and the adapter ends a turn that a user
\* cancelled.  It need not end another, and no user need answer.
Fairness ==
  /\ WF_vars(HostStep)
  /\ \A p \in Prompts : WF_vars(p \in cancelled /\ AdapterAnswers(p))

FairSpec == Spec /\ Fairness

-----------------------------------------------------------------------------
\* Every variable has its type; a card that waits has its resolver.
TypeOK ==
  /\ proc \in {"up", "gone"}
  /\ \A i \in DOMAIN pipe :
       /\ pipe[i].kind \in {"update", "request", "abort", "response"}
       /\ pipe[i].of \in Tools \cup Requests \cup Prompts
  /\ rt.dead \in BOOLEAN
  /\ rt.status \in {"idle", "running", "awaiting_permission", "dead"}
  /\ rt.pending \subseteq Cards
  /\ rt.resolvers = rt.pending
  /\ rt.openTools \subseteq Tools
  /\ rt.active = Cardinality({p \in Prompts : prompts[p] \in {"asked", "answered"}})
  /\ rt.rows \in [Rows -> {"none", "open", "ended"}]
  /\ rt.resolution \in [Cards -> Outcomes \cup {Nil}]
  /\ rt.answer \in [Requests -> Outcomes \cup {"accept", "cancel", Nil}]
  /\ prompts \in [Prompts -> {"new", "asked", "answered", "over"}]
  /\ cancelled \subseteq Prompts
  /\ tool \in [Tools -> {"none", "open", "left", "ended"}]
  /\ asking \in [Requests -> Prompts \cup {Nil}]
  /\ \A r \in Requests : about[r] \in Tools \cup ({r} \cap Forms) \cup {Nil}
  /\ \A c \in Cards : winners[c] \subseteq Users

\* The last state frame of the journal tells every subscriber the status and the
\* cards the session has now: a client shows a card exactly as long as an answer
\* to it would be taken, and none on a dead session (acp-sessions.ts:703-705,
\* 877-879, 1179-1211).
StateFrameIsCurrent ==
  LET shown == rt.shown.status
  IN  /\ rt.shown.pending = rt.resolvers
      /\ shown = "dead" <=> rt.dead
      /\ shown = "awaiting_permission" <=> rt.resolvers # {}
      /\ shown = "running" <=> /\ ~rt.dead /\ rt.resolvers = {}
                              /\ \E p \in Prompts : prompts[p] \in {"asked", "answered"}

\* Users on all devices, a cancel, the adapter and its death race to settle a
\* card: at most one user is told that their answer was taken, and it is the one
\* the journal shows and the adapter gets (acp-sessions.ts:429-441, 1138-1158).
FirstAnswerWins ==
  \A c \in Cards :
    /\ Cardinality(winners[c]) <= 1
    /\ \A u \in winners[c] :
         /\ rt.resolution[c] = u
         /\ c[1] \in Permissions => rt.answer[c[1]] = u

\* No row is shown as running for ever: the tool calls of the adapter end with
\* the last turn in flight, however it ends and whatever is asked about them, and the
\* row a form has to itself is open exactly while one of its cards waits
\* (acp-sessions.ts:413-419, 887-905, 1038-1056).
NothingLeftRunning ==
  /\ rt.active = 0 => \A t \in Tools : rt.rows[t] # "open"
  /\ \A f \in Forms :
       rt.rows[f] = "open" <=> Own(f) /\ \E c \in rt.pending : c[1] = f

\* A turn a user cancelled ends, and with it every card it asked
\* (acp-sessions.ts:443-453).
CancelEndsTheTurn ==
  \A p \in Prompts :
    p \in cancelled ~> /\ prompts[p] = "over"
                       /\ \A c \in rt.pending : asking[c[1]] # p
=============================================================================
