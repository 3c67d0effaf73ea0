--------------------------- MODULE SessionJournal ---------------------------
(***************************************************************************)
(* The journal of an agent session: SessionJournal of host-service/        *)
(* runtime/acp-sessions/journal.ts.  A ring of the newest Capacity         *)
(* envelopes, numbered from 1 without a gap, that serves a subscriber      *)
(* what came after its cursor or refuses, and a reader one page of         *)
(* messages at a time, newest page first.                                  *)
(***************************************************************************)
EXTENDS Integers, Sequences

CONSTANTS
  Capacity,   \* slots of the ring
  Nil         \* null and undefined

ASSUME CapacityAssumption == Capacity \in Nat \ {0}
ASSUME NilIsNoNumber == Nil \notin Nat

EmptyJournal ==
  [entries |-> [i \in 0..(Capacity - 1) |-> Nil],
   startIndex |-> 0, size |-> 0, nextSeq |-> 1]

LatestSeq(j) == j.nextSeq - 1

OldestSeq(j) == IF j.size = 0 THEN 0 ELSE j.nextSeq - j.size

\* The slot at an offset from the oldest envelope.
EntryAt(j, index) == j.entries[(j.startIndex + index) % Capacity]

\* With a bug: the ring is overwritten but its head stays.
AppendTo_KeepsTheHead(j, envelope) ==
  IF j.size < Capacity
  THEN [j EXCEPT !.nextSeq = @ + 1,
                 !.entries[(j.startIndex + j.size) % Capacity] = envelope,
                 !.size = @ + 1]
  ELSE [j EXCEPT !.nextSeq = @ + 1,
                 !.entries[j.startIndex] = envelope]

AppendTo(j, envelope) ==
  IF j.size < Capacity
  THEN [j EXCEPT !.nextSeq = @ + 1,
                 !.entries[(j.startIndex + j.size) % Capacity] = envelope,
                 !.size = @ + 1]
  ELSE [j EXCEPT !.nextSeq = @ + 1,
                 !.entries[j.startIndex] = envelope,
                 !.startIndex = (@ + 1) % Capacity]

\* What is retained, oldest first, from the envelope at `index` on.
RetainedFrom(j, index) ==
  [i \in 1..(j.size - index) |-> EntryAt(j, index + i - 1)]

\* With a bug: a cursor from before a restart finds nothing new.
After_ServesAnyNewCursor(j, since) ==
  LET index == since + 1 - OldestSeq(j)
  IN  CASE since >= LatestSeq(j) -> <<>>
        [] since < LatestSeq(j) /\ index < 0 -> Nil
        [] OTHER -> RetainedFrom(j, index)

\* The envelopes after the cursor `since`, or Nil when they cannot be served.
After(j, since) ==
  LET index == since + 1 - OldestSeq(j)
  IN  CASE since = LatestSeq(j) -> <<>>
        [] since > LatestSeq(j) -> Nil
        [] since < LatestSeq(j) /\ index < 0 -> Nil
        [] OTHER -> RetainedFrom(j, index)

\* The elements of s at these places, in order: SelectSeq, which the provers do not
\* know.
Picked(s, places) ==
  LET picked[i \in 0..Len(s)] ==
        IF i = 0 THEN <<>>
        ELSE IF i \in places THEN Append(picked[i - 1], s[i]) ELSE picked[i - 1]
  IN  picked[Len(s)]

\* The newest `limit` messages before `before` (Nil: of all), and where the next
\* older page starts (Nil: there is none).
Page(j, before, limit) ==
  LET retained == RetainedFrom(j, 0)
      older    == Picked(retained, {i \in DOMAIN retained :
                                      /\ retained[i].kind = "message"
                                      /\ before = Nil \/ retained[i].seq < before})
      more     == Len(older) > limit
      first    == IF more THEN Len(older) - limit + 1 ELSE 1
  IN  [items |-> SubSeq(older, first, Len(older)),
       nextBefore |-> IF more THEN older[first].seq ELSE Nil]
=============================================================================
