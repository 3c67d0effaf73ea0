---------------------------- MODULE SessionStream ----------------------------
(***************************************************************************)
(* One agent session, the host-service that journals it and one client     *)
(* that shows it:                                                          *)
(*   host-service/runtime/acp-sessions/{journal,stream,acp-sessions}.ts    *)
(*   session-protocol/src/client/subscribeToSession/subscribeToSession.ts  *)
(*   session-protocol/src/react/useAcpSession/useAcpSession.ts             *)
(* The client fetches the state, then the newest page of messages, then    *)
(* follows the stream from its cursor, and pages back as the user scrolls. *)
(* The journal lives in the host-service's memory: a restart starts a new  *)
(* incarnation of the session, with a journal that counts from 1 again.    *)
(*                                                                         *)
(* An envelope is its incarnation (which the real one does not carry), its *)
(* number and whether it is a message or a state frame.  Failures: cut     *)
(* connections, frames lost, repeated or garbled by what tunnels them,     *)
(* sockets closed for back-pressure, requests and loads that fail, and     *)
(* restarts of the host-service.  Left out: subscriptions without a        *)
(* cursor, which the hook never makes, and the eviction of dead sessions.  *)
(***************************************************************************)
EXTENDS SessionJournal, FiniteSets

CONSTANTS
  PageSize,       \* messages of a page
  ScrollsInResync,\* may the user scroll back while a resync is under way?
  \* bounds of the instance
  MaxLog,         \* envelopes of the first incarnation, one less of each later one
  MaxRestarts,    \* restarts of the host-service
  MaxFaults       \* everything else that may go wrong

ASSUME StreamAssumption ==
  /\ PageSize \in Nat \ {0}
  /\ ScrollsInResync \in BOOLEAN
  /\ MaxLog \in Nat /\ MaxRestarts \in Nat /\ MaxFaults \in Nat

VARIABLES
  sess,      \* the session at the host: offline, loading or live
  journal,   \* its journal, while it is live or loading
  logs,      \* ghost: kinds of all envelopes ever journaled, by incarnation
  client,    \* the hook: phase, epoch, timeline, cursors
  conn,      \* the client's socket: none, opening, attached, closing
  wire,      \* frames on their way to the client
  requests,  \* pages the client asked for while scrolling back
  lost,      \* ghost: the last frame sent on this connection was lost
  faults     \* how much went wrong so far

vars == <<sess, journal, logs, client, conn, wire, requests, lost, faults>>

Kinds == {"message", "state"}
\* Frames that are not of the journal: their number is not looked at.
Reset == [inc |-> 0, seq |-> 0, kind |-> "reset"]
Garbled == [inc |-> 0, seq |-> 0, kind |-> "garbled"]

Inc == Len(logs)
Envelope(inc, seq) == [inc |-> inc, seq |-> seq, kind |-> logs[inc][seq]]

\* Journal one frame of this kind: journalFrame without its subscribers.
Journaled(kind) ==
  /\ Len(logs[Inc]) + Inc <= MaxLog
  /\ logs' = [logs EXCEPT ![Inc] = Append(@, kind)]
  /\ journal' = AppendTo(journal, [inc |-> Inc, seq |-> journal.nextSeq,
                                   kind |-> kind])

Fault == faults < MaxFaults /\ faults' = faults + 1

-----------------------------------------------------------------------------
\* The host-service.

\* A frame of a live session, to the journal and to the subscriber, which closes
\* its socket instead when the client does not drain it (stream.ts).
Frame(kind) ==
  /\ sess = "live"
  /\ Journaled(kind)
  /\ \/ /\ conn # "attached"
        /\ UNCHANGED <<conn, wire, lost, faults>>
     \/ /\ conn = "attached"
        /\ wire' = Append(wire, [inc |-> Inc, seq |-> journal.nextSeq,
                                 kind |-> kind])
        /\ lost' = FALSE
        /\ UNCHANGED <<conn, faults>>
     \/ /\ conn = "attached"
        /\ wire # <<>>
        /\ conn' = "closing"
        /\ Fault
        /\ UNCHANGED <<wire, lost>>
  /\ UNCHANGED <<sess, client, requests>>

\* ensureLive of an offline session: a new adapter loads the transcript.
BeginLoad ==
  /\ sess = "offline"
  /\ sess' = "loading"
  /\ logs' = Append(logs, <<>>)
  /\ journal' = EmptyJournal
  /\ UNCHANGED <<client, conn, wire, requests, lost, faults>>

\* A message of the transcript.  They are kept in a ring as large as the journal
\* until the session is there: past Capacity their number does not grow.
Replay ==
  /\ sess = "loading"
  /\ Len(logs[Inc]) < Capacity
  /\ Journaled("message")
  /\ UNCHANGED <<sess, client, conn, wire, requests, lost, faults>>

Loaded ==
  /\ sess = "loading"
  /\ Journaled("state")
  /\ sess' = "live"
  /\ UNCHANGED <<client, conn, wire, requests, lost, faults>>

\* The record stays offline; a stream that waited for it is sent a reset, a page
\* that waited for it fails.
LoadFails ==
  /\ sess = "loading"
  /\ Fault
  /\ sess' = "offline"
  /\ logs' = SubSeq(logs, 1, Inc - 1)
  /\ journal' = EmptyJournal
  /\ \/ UNCHANGED <<wire, conn>>
     \/ conn = "opening" /\ wire' = <<Reset>> /\ conn' = "closing"
  /\ \/ UNCHANGED client
     \/ client.phase = "page" /\ client' = [client EXCEPT !.phase = "error"]
  /\ UNCHANGED <<requests, lost>>

\* The process ends and another starts: journals and sockets are gone, frames
\* already sent still arrive.
HostRestart ==
  /\ sess = "live"
  /\ Inc <= MaxRestarts
  /\ sess' = "offline"
  /\ journal' = EmptyJournal
  /\ conn' = IF conn = "none" THEN "none" ELSE "closing"
  /\ UNCHANGED <<logs, client, wire, requests, lost, faults>>

\* stream.ts onOpen and subscribe: what the journal has after the cursor, or a
\* reset; back-pressure may close the socket within the backlog.
Attach ==
  /\ conn = "opening"
  /\ sess = "live"
  /\ LET backlog == After(journal, client.cursor) IN
     \/ /\ backlog = Nil
        /\ wire' = <<Reset>>
        /\ conn' = "closing"
        /\ UNCHANGED faults
     \/ /\ backlog # Nil
        /\ wire' = backlog
        /\ conn' = "attached"
        /\ UNCHANGED faults
     \/ /\ backlog # Nil
        /\ \E k \in 1..(Len(backlog) - 1) : wire' = SubSeq(backlog, 1, k)
        /\ conn' = "closing"
        /\ Fault
  /\ lost' = FALSE
  /\ UNCHANGED <<sess, journal, logs, client, requests>>

-----------------------------------------------------------------------------
\* The connection.

\* It breaks, and the frames in flight with it.
Cut ==
  /\ conn # "none"
  /\ Fault
  /\ conn' = "none"
  /\ wire' = <<>>
  /\ UNCHANGED <<sess, journal, logs, client, requests, lost>>

\* One frame is lost, garbled or repeated.
Disturb ==
  /\ Fault
  /\ \E i \in 1..Len(wire) :
       \/ /\ wire' = SubSeq(wire, 1, i - 1) \o SubSeq(wire, i + 1, Len(wire))
          /\ lost' = (lost \/ i = Len(wire))
       \/ /\ wire' = [wire EXCEPT ![i] = Garbled]
          /\ UNCHANGED lost
       \/ /\ wire' = SubSeq(wire, 1, i) \o SubSeq(wire, i, Len(wire))
          /\ UNCHANGED lost
  /\ UNCHANGED <<sess, journal, logs, client, conn, requests>>

-----------------------------------------------------------------------------
\* The client.

\* resync: a new epoch; what it asked for before no longer counts.
Resynced(c) == [c EXCEPT !.phase = "get", !.epoch = @ + 1,
                         !.loadingOlder = FALSE]

\* The old subscription is closed.
StartResync ==
  /\ client' = Resynced(client)
  /\ conn' = "none"
  /\ wire' = <<>>

\* The user asks for it.
Refresh ==
  /\ Fault
  /\ StartResync
  /\ UNCHANGED <<sess, journal, logs, requests, lost>>

\* get answers at once; an offline session's latest number is 0.
GetAnswered ==
  /\ client.phase = "get"
  /\ client' = [client EXCEPT
       !.phase = "page",
       !.stateSeq = IF sess = "live" THEN LatestSeq(journal) ELSE 0,
       !.stateInc = IF sess = "live" THEN Inc ELSE 0]
  /\ UNCHANGED <<sess, journal, logs, conn, wire, requests, lost, faults>>

\* With a bug: the stream starts from the state that was fetched first.
Seeded_StartsAtTheState(c, page) ==
  [c EXCEPT !.phase = "stream",
            !.timeline = page.items,
            !.older = page.nextBefore,
            !.loadingOlder = FALSE,
            !.cursor = c.stateSeq,
            !.cursorInc = c.stateInc]

\* The newest page, and the cursor the stream starts from.
Seeded(c, page) ==
  [c EXCEPT !.phase = "stream",
            !.timeline = page.items,
            !.older = page.nextBefore,
            !.loadingOlder = FALSE,
            !.cursor = IF page.items # <<>> THEN page.items[Len(page.items)].seq
                                            ELSE c.stateSeq,
            !.cursorInc = IF page.items # <<>> \/ c.stateSeq = 0 THEN Inc
                                                               ELSE c.stateInc]

\* getMessages answers once the session is live.
PageAnswered ==
  /\ client.phase = "page"
  /\ sess = "live"
  /\ client' = Seeded(client, Page(journal, Nil, PageSize))
  /\ UNCHANGED <<sess, journal, logs, conn, wire, requests, lost, faults>>

\* Either request of a resync fails.
ResyncFails ==
  /\ client.phase \in {"get", "page"}
  /\ Fault
  /\ client' = [client EXCEPT !.phase = "error"]
  /\ UNCHANGED <<sess, journal, logs, conn, wire, requests, lost>>

\* subscribeToSession, and its reconnect timer.
Connect ==
  /\ client.phase = "stream"
  /\ conn = "none"
  /\ conn' = "opening"
  /\ UNCHANGED <<sess, journal, logs, client, wire, requests, lost, faults>>

\* With a bug: whatever is past the cursor is taken.
IsGap_Never(seq) == FALSE

\* An envelope past the cursor: it must be the next one.
IsGap(seq) == seq > client.cursor + 1

Followed(c, envelope) ==
  [c EXCEPT !.cursor = envelope.seq,
            !.timeline = IF envelope.kind = "message" THEN Append(@, envelope)
                                                      ELSE @]

Deliver(envelope) ==
  \/ /\ envelope.seq <= client.cursor
     /\ wire' = Tail(wire)
     /\ UNCHANGED <<client, conn>>
  \/ /\ IsGap(envelope.seq)
     /\ conn' = "none"
     /\ wire' = <<>>
     /\ UNCHANGED client
  \/ /\ envelope.seq > client.cursor /\ ~IsGap(envelope.seq)
     /\ client' = Followed(client, envelope)
     /\ wire' = Tail(wire)
     /\ UNCHANGED conn

Receive ==
  /\ wire # <<>>
  /\ \/ Head(wire) = Reset /\ StartResync
     \/ /\ Head(wire) = Garbled
        /\ conn' = "none"
        /\ wire' = <<>>
        /\ UNCHANGED client
     \/ /\ Head(wire) \notin {Reset, Garbled}
        /\ Deliver(Head(wire))
  /\ UNCHANGED <<sess, journal, logs, requests, lost, faults>>

\* The close event, after the last frame.
CloseSeen ==
  /\ conn = "closing"
  /\ wire = <<>>
  /\ conn' = "none"
  /\ UNCHANGED <<sess, journal, logs, client, wire, requests, lost, faults>>

\* The user scrolls to the oldest message shown.
LoadOlder ==
  /\ client.older # Nil
  /\ ~client.loadingOlder
  /\ ScrollsInResync \/ client.phase \in {"stream", "error"}
  /\ client' = [client EXCEPT !.loadingOlder = TRUE]
  /\ requests' = requests \cup
       {[epoch |-> client.epoch, before |-> client.older]}
  /\ UNCHANGED <<sess, journal, logs, conn, wire, lost, faults>>

\* With a bug: the epoch of a request is not compared.
IsCurrent_Always(request) == TRUE

IsCurrent(request) == request.epoch = client.epoch

OlderAnswered(request) ==
  /\ sess = "live"
  /\ requests' = requests \ {request}
  /\ LET page == Page(journal, request.before, PageSize) IN
     IF IsCurrent(request)
     THEN client' = [client EXCEPT !.timeline = page.items \o @,
                                   !.older = page.nextBefore,
                                   !.loadingOlder = FALSE]
     ELSE UNCHANGED client
  /\ UNCHANGED <<sess, journal, logs, conn, wire, lost, faults>>

OlderFails(request) ==
  /\ Fault
  /\ requests' = requests \ {request}
  /\ client' = IF IsCurrent(request)
               THEN [client EXCEPT !.loadingOlder = FALSE] ELSE client
  /\ UNCHANGED <<sess, journal, logs, conn, wire, lost>>

-----------------------------------------------------------------------------
Init ==
  /\ sess = "offline"
  /\ journal = EmptyJournal
  /\ logs = <<>>
  /\ client = [phase |-> "get", epoch |-> 1, stateSeq |-> 0, stateInc |-> 0,
               cursor |-> 0, cursorInc |-> 0, timeline |-> <<>>,
               older |-> Nil, loadingOlder |-> FALSE]
  /\ conn = "none"
  /\ wire = <<>>
  /\ requests = {}
  /\ lost = FALSE
  /\ faults = 0

Next ==
  \/ \E kind \in Kinds : Frame(kind)
  \/ BeginLoad \/ Replay \/ Loaded \/ LoadFails \/ HostRestart \/ Attach
  \/ Cut \/ Disturb
  \/ Refresh \/ GetAnswered \/ PageAnswered \/ ResyncFails
  \/ Connect \/ Receive \/ CloseSeen
  \/ LoadOlder
  \/ \E r \in requests : OlderAnswered(r) \/ OlderFails(r)

Spec == Init /\ [][Next]_vars

\* Who waits for an offline session makes the host load it, and everything the
\* two processes began goes on; frames, faults and the user owe nothing.
FairSpec ==
  /\ Spec
  /\ WF_vars((client.phase = "page" \/ conn = "opening" \/ requests # {})
               /\ BeginLoad)
  /\ WF_vars(Loaded) /\ WF_vars(Attach)
  /\ WF_vars(GetAnswered) /\ WF_vars(PageAnswered)
  /\ WF_vars(Connect) /\ WF_vars(Receive) /\ WF_vars(CloseSeen)
-----------------------------------------------------------------------------
\* The messages of an incarnation numbered from..to, in order.
MessagesOf(inc, from, to) ==
  LET all == [i \in 1..(to - from + 1) |-> Envelope(inc, from + i - 1)]
  IN  Picked(all, {i \in DOMAIN all : all[i].kind = "message"})

Shown == client.timeline
FirstShown == Head(Shown)
LastShown == Shown[Len(Shown)]
OneIncarnation == \A i \in DOMAIN Shown : Shown[i].inc = FirstShown.inc
IsExact == Shown = MessagesOf(FirstShown.inc, FirstShown.seq, LastShown.seq)

EnvelopeType == [inc : 1..(MaxRestarts + 1), seq : 1..MaxLog, kind : Kinds]

TypeOK ==
  /\ sess \in {"offline", "loading", "live"}
  /\ journal.size <= Capacity /\ journal.startIndex < Capacity
  /\ sess # "offline" => journal.nextSeq = Len(logs[Inc]) + 1
  /\ logs \in Seq(Seq(Kinds))
  /\ client.phase \in {"get", "page", "stream", "error"}
  /\ client.phase # "stream" => conn = "none"
  /\ Shown \in Seq(EnvelopeType)
  /\ conn \in {"none", "opening", "attached", "closing"}
  /\ wire # <<>> => conn \in {"attached", "closing"}
  /\ \A i \in DOMAIN wire : wire[i] \in EnvelopeType \cup {Reset, Garbled}
  /\ lost \in BOOLEAN
  /\ faults \in 0..MaxFaults

\* A cursor is served with exactly the envelopes after it, however often the
\* ring has gone round, or refused: when what it needs was evicted and when it
\* is ahead of the journal (journal.ts after).
JournalServesTheTail ==
  sess # "offline" =>
    LET n == Len(logs[Inc]) IN
    \A since \in 0..(MaxLog + 1) :
      After(journal, since) =
        IF since \in (n - Capacity)..n
        THEN [i \in 1..(n - since) |-> Envelope(Inc, since + i)] ELSE Nil

\* The messages on screen are a stretch of one incarnation's conversation: none
\* missing, none twice, in order, through cuts, lost and repeated frames, resyncs
\* and pages of older messages that arrive late (until incarnations are mixed).
TimelineIsExact == Shown # <<>> /\ OneIncarnation => IsExact

\* "True while the journal holds older pages loadOlder hasn't fetched"
\* (useAcpSession.ts:61): when there are none to fetch, every message the journal
\* holds up to the newest one shown is shown.
HasOlderIsHonest ==
  /\ client.phase = "stream" /\ client.older = Nil
  /\ sess = "live" /\ client.cursorInc = Inc
  /\ \A i \in DOMAIN Shown : Shown[i].inc = Inc
  => \A s \in OldestSeq(journal)..client.cursor :
       logs[Inc][s] = "message" => \E i \in DOMAIN Shown : Shown[i].seq = s

\* The stream ends at the newest envelope, unless the resync failed (the user is
\* shown the error) or the very last frame was lost on its way.
CatchesUp ==
  <>[](\/ client.phase = "error"
       \/ lost
       \/ sess = "live" /\ client.cursor = LatestSeq(journal))

\* "A reset frame means the server cannot serve our cursor (journal evicted,
\* session restarted)" (subscribeToSession.ts:33): no stream is attached at a
\* cursor of another incarnation.
StaleCursorIsRefused ==
  conn = "attached" => client.cursorInc \in {0, Inc}

\* The stretch of the conversation that is shown, for Transcript.
CountMessages(inc, upTo) == Len(MessagesOf(inc, 1, upTo))

Incarnation == IF sess = "loading" THEN Inc - 1 ELSE Inc
Said == IF Incarnation = 0 THEN 0
        ELSE CountMessages(Incarnation, Len(logs[Incarnation]))
ShownStretch ==
  LET exact == OneIncarnation /\ IsExact IN
  IF Shown = <<>>
  THEN [inc |-> client.cursorInc, from |-> 0, to |-> 0, mixed |-> FALSE]
  ELSE [inc   |-> IF exact THEN FirstShown.inc ELSE 0,
        from  |-> IF exact THEN CountMessages(FirstShown.inc, FirstShown.seq - 1)
                           ELSE 0,
        to    |-> IF exact THEN CountMessages(FirstShown.inc, LastShown.seq)
                           ELSE 0,
        mixed |-> ~exact]

T == INSTANCE Transcript WITH incarnation <- Incarnation, said <- Said,
                              shown <- ShownStretch

\* Every step of host, network and client is a step of the transcript: messages
\* appear at its ends one stretch at a time, and it is replaced only by one that
\* ends with the newest message.
ShowsATranscript == T!Spec
=============================================================================
