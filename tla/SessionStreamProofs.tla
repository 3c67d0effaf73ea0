------------------------- MODULE SessionStreamProofs -------------------------
(***************************************************************************)
(* Proofs about SessionStream, for any capacity of the ring, any page size *)
(* and any bounds: of the journal, of what the client shows, and that both *)
(* together implement Transcript.                                          *)
(*                                                                         *)
(* The ring is shown to hold the newest envelopes of a log it does not     *)
(* have (Holds): appending to both keeps them together (AppendHolds), and  *)
(* a ring that holds the end of a log serves what comes after a cursor, or *)
(* refuses, as the log would (AfterServes).  The steps of the host-service *)
(* then only append to both, or start both afresh (IInv).                  *)
(*                                                                         *)
(* SInv adds what is on the wire and what the client refers to, step by    *)
(* step (StepKeeps); that the timeline is exact and that older pages are   *)
(* announced follow.  The refinement counts messages (Tally), describes    *)
(* what is shown by how many came before its ends (Extent), and shows for  *)
(* each action which step of Transcript it is (StepShows).                 *)
(***************************************************************************)
EXTENDS SessionStream, WellFoundedInduction, TLAPS

\* Every envelope there could be.
Envelopes == [inc : Nat, seq : Nat, kind : Kinds]

Slots == [0..(Capacity - 1) -> Envelopes \cup {Nil}]

\* A ring: its slots, its oldest one, how many are filled, and the next number.
Rings == [entries : Slots, startIndex : 0..(Capacity - 1), size : 0..Capacity, nextSeq : Nat]

\* The ring of j holds the newest envelopes of log, as many as it has slots for.
Holds(j, log) ==
  /\ j \in Rings
  /\ j.nextSeq = Len(log) + 1
  /\ j.size <= Len(log)
  /\ j.size = Len(log) \/ j.size = Capacity
  /\ \A i \in 0..(j.size - 1) : EntryAt(j, i) = log[Len(log) - j.size + i + 1]

\* The slot i places after s, round the ring.
SlotAt(s, i) == (s + i) % Capacity

\* The slots after e is put into slot k.
Put(f, k, e) == [f EXCEPT ![k] = e]

-----------------------------------------------------------------------------
\* The ring.

\* A slot at most a whole round past the oldest one.
LEMMA Wraps ==
  ASSUME NEW a \in 0..(Capacity - 1), NEW b \in 0..Capacity
  PROVE  /\ SlotAt(a, b) \in 0..(Capacity - 1)
         /\ SlotAt(a, b) = IF a + b < Capacity THEN a + b ELSE a + b - Capacity
<1>1. Capacity \in Nat \ {0}
  BY CapacityAssumption
<1>2. \A x \in 0..(2 * Capacity - 1) : x % Capacity = IF x < Capacity THEN x ELSE x - Capacity
  BY <1>1, SMT
<1>3. a + b \in 0..(2 * Capacity - 1)
  BY <1>1
<1> QED
  BY <1>1, <1>2, <1>3 DEF SlotAt

LEMMA EmptyHolds == Holds(EmptyJournal, <<>>)
<1>1. EmptyJournal \in Rings
  BY CapacityAssumption DEF EmptyJournal, Rings, Slots
<1> QED
  BY <1>1 DEF Holds, EmptyJournal, EntryAt

\* The slots of a ring that is not full, after the next one is filled.
LEMMA FillsSlot ==
  ASSUME NEW s \in 0..(Capacity - 1), NEW z \in 0..(Capacity - 1),
         NEW e \in Envelopes, NEW f \in Slots
  PROVE  /\ Put(f, SlotAt(s, z), e) \in Slots
         /\ Put(f, SlotAt(s, z), e)[SlotAt(s, z)] = e
         /\ \A i \in 0..(z - 1) :
              Put(f, SlotAt(s, z), e)[SlotAt(s, i)] = f[SlotAt(s, i)]
<1>1. Capacity \in Nat \ {0} /\ z \in 0..Capacity
  BY CapacityAssumption
<1>2. PICK k : k = SlotAt(s, z)
  OBVIOUS
<1>3. /\ k \in 0..(Capacity - 1)
      /\ k = IF s + z < Capacity THEN s + z ELSE s + z - Capacity
  BY <1>1, <1>2, Wraps
<1>4. ASSUME NEW i \in 0..(z - 1)
      PROVE  SlotAt(s, i) \in 0..(Capacity - 1) /\ SlotAt(s, i) # k
  <2>1. i \in 0..Capacity /\ i < z /\ z < Capacity
    BY <1>1
  <2>2. /\ SlotAt(s, i) \in 0..(Capacity - 1)
        /\ SlotAt(s, i) = IF s + i < Capacity THEN s + i ELSE s + i - Capacity
    BY <1>1, <2>1, Wraps
  <2> QED
    BY <1>1, <1>3, <2>1, <2>2
<1>5. /\ Put(f, k, e) \in Slots
      /\ Put(f, k, e)[k] = e
      /\ \A x \in 0..(Capacity - 1) : x # k => Put(f, k, e)[x] = f[x]
  BY <1>3 DEF Slots, Put
<1> QED
  BY <1>2, <1>4, <1>5, Zenon

\* The slots of a full ring, after its oldest one is overwritten.
LEMMA OverwritesSlot ==
  ASSUME NEW s \in 0..(Capacity - 1), NEW e \in Envelopes, NEW f \in Slots,
         NEW t, t = SlotAt(s, 1)
  PROVE  /\ Put(f, s, e) \in Slots
         /\ t \in 0..(Capacity - 1)
         /\ Put(f, s, e)[SlotAt(t, Capacity - 1)] = e
         /\ \A i \in 0..(Capacity - 2) :
              Put(f, s, e)[SlotAt(t, i)] = f[SlotAt(s, i + 1)]
<1>1. Capacity \in Nat \ {0} /\ 1 \in 0..Capacity /\ Capacity - 1 \in 0..Capacity
  BY CapacityAssumption
<1>2. /\ t \in 0..(Capacity - 1)
      /\ t = IF s + 1 < Capacity THEN s + 1 ELSE s + 1 - Capacity
  BY <1>1, Wraps
<1>3. SlotAt(t, Capacity - 1) = s
  <2>1. SlotAt(t, Capacity - 1) = IF t + (Capacity - 1) < Capacity
                                          THEN t + (Capacity - 1)
                                          ELSE t + (Capacity - 1) - Capacity
    BY <1>1, <1>2, Wraps
  <2> QED
    BY <1>1, <1>2, <2>1
<1>4. ASSUME NEW i \in 0..(Capacity - 2)
      PROVE  /\ SlotAt(t, i) = SlotAt(s, i + 1)
             /\ SlotAt(t, i) \in 0..(Capacity - 1)
             /\ SlotAt(t, i) # s
  <2>1. i \in 0..Capacity /\ i + 1 \in 0..Capacity /\ i + 1 < Capacity
    BY <1>1
  <2>2. /\ SlotAt(t, i) \in 0..(Capacity - 1)
        /\ SlotAt(t, i) = IF t + i < Capacity THEN t + i ELSE t + i - Capacity
    BY <1>1, <1>2, <2>1, Wraps
  <2>3. SlotAt(s, i + 1) = IF s + (i + 1) < Capacity
                                   THEN s + (i + 1) ELSE s + (i + 1) - Capacity
    BY <1>1, <2>1, Wraps
  <2> QED
    BY <1>1, <1>2, <2>1, <2>2, <2>3
<1>5. /\ Put(f, s, e) \in Slots
      /\ Put(f, s, e)[s] = e
      /\ \A x \in 0..(Capacity - 1) : x # s => Put(f, s, e)[x] = f[x]
  BY DEF Slots, Put
<1> QED
  BY <1>2, <1>3, <1>4, <1>5, Zenon

\* A new envelope takes a free slot, or that of the oldest one.
LEMMA AppendHolds ==
  ASSUME NEW log \in Seq(Envelopes), NEW e \in Envelopes, NEW j, Holds(j, log)
  PROVE  Holds(AppendTo(j, e), Append(log, e))
<1>1. /\ Capacity \in Nat \ {0} /\ Len(log) \in Nat
      /\ Append(log, e) \in Seq(Envelopes)
      /\ Len(Append(log, e)) = Len(log) + 1
      /\ Append(log, e)[Len(log) + 1] = e
      /\ \A i \in 1..Len(log) : Append(log, e)[i] = log[i]
  BY CapacityAssumption
<1>2. /\ j \in Rings
      /\ j.startIndex \in 0..(Capacity - 1) /\ j.size \in 0..Capacity
      /\ j.nextSeq = Len(log) + 1
      /\ j.size <= Len(log) /\ (j.size = Len(log) \/ j.size = Capacity)
      /\ j.entries \in Slots
      /\ \A i \in 0..(j.size - 1) :
           j.entries[SlotAt(j.startIndex, i)] = log[Len(log) - j.size + i + 1]
  BY DEF Holds, Rings, EntryAt, SlotAt
<1>3. PICK more : more = Append(log, e)
  OBVIOUS
<1>4. CASE j.size < Capacity
  <2>1. PICK g : g = Put(j.entries, SlotAt(j.startIndex, j.size), e)
    OBVIOUS
  <2>2. /\ g \in Slots
        /\ g[SlotAt(j.startIndex, j.size)] = e
        /\ \A i \in 0..(j.size - 1) : g[SlotAt(j.startIndex, i)]
                                        = j.entries[SlotAt(j.startIndex, i)]
    <3>1. j.size \in 0..(Capacity - 1)
      BY <1>1, <1>2, <1>4
    <3> QED
      BY <1>2, <2>1, <3>1, FillsSlot
  <2>3. AppendTo(j, e) = [entries |-> g, startIndex |-> j.startIndex, size |-> j.size + 1,
                          nextSeq |-> j.nextSeq + 1]
    BY <1>2, <1>4, <2>1 DEF AppendTo, Rings, Put, SlotAt
  <2>4. j.size = Len(log)
    BY <1>1, <1>2, <1>4
  <2>5. ASSUME NEW i \in 0..j.size
        PROVE  g[SlotAt(j.startIndex, i)] = more[i + 1]
    <3>1. CASE i = j.size
      BY <1>1, <1>3, <2>2, <2>4, <3>1
    <3>2. CASE i # j.size
      <4>1. i \in 0..(j.size - 1) /\ i + 1 \in 1..Len(log) /\ Len(log) - j.size + i + 1 = i + 1
        BY <1>1, <2>4, <3>2
      <4> QED
        BY <1>1, <1>2, <1>3, <2>2, <4>1
    <3> QED
      BY <3>1, <3>2
  <2>6. PICK h : h = AppendTo(j, e)
    OBVIOUS
  <2>7. /\ h \in Rings
        /\ h.entries = g /\ h.startIndex = j.startIndex /\ h.size = j.size + 1
        /\ h.nextSeq = j.nextSeq + 1
    BY <1>1, <1>2, <1>4, <2>2, <2>3, <2>6 DEF Rings
  <2>8. ASSUME NEW i \in 0..(h.size - 1)
        PROVE  EntryAt(h, i) = more[Len(more) - h.size + i + 1]
    <3>1. i \in 0..j.size /\ Len(more) - h.size + i + 1 = i + 1
      BY <1>1, <1>2, <1>3, <2>4, <2>7
    <3>2. EntryAt(h, i) = g[SlotAt(j.startIndex, i)]
      BY <2>7 DEF EntryAt, SlotAt
    <3> QED
      BY <2>5, <3>1, <3>2
  <2>9. Holds(h, more)
    <3>1. /\ h.nextSeq = Len(more) + 1 /\ h.size <= Len(more)
          /\ h.size = Len(more) \/ h.size = Capacity
      BY <1>1, <1>2, <1>3, <2>4, <2>7
    <3> QED
      BY <2>7, <2>8, <3>1 DEF Holds
  <2> QED
    BY <1>3, <2>6, <2>9
<1>5. CASE j.size = Capacity
  <2>1. PICK g : g = Put(j.entries, j.startIndex, e)
    OBVIOUS
  <2>2. PICK t : t = SlotAt(j.startIndex, 1)
    OBVIOUS
  <2>3. /\ g \in Slots
        /\ t \in 0..(Capacity - 1)
        /\ g[SlotAt(t, Capacity - 1)] = e
        /\ \A i \in 0..(Capacity - 2) : g[SlotAt(t, i)]
                                          = j.entries[SlotAt(j.startIndex, i + 1)]
    BY <1>2, <2>1, <2>2, OverwritesSlot
  <2>4. AppendTo(j, e) = [entries |-> g, startIndex |-> t, size |-> Capacity,
                          nextSeq |-> j.nextSeq + 1]
    <3>1. ~(j.size < Capacity)
      BY <1>1, <1>5
    <3> QED
      BY <1>2, <1>5, <2>1, <2>2, <3>1 DEF AppendTo, Rings, Put, SlotAt
  <2>5. ASSUME NEW i \in 0..(Capacity - 1)
        PROVE  g[SlotAt(t, i)] = more[Len(log) - Capacity + i + 2]
    <3>1. CASE i = Capacity - 1
      <4>1. Len(log) - Capacity + i + 2 = Len(log) + 1
        BY <1>1, <3>1
      <4> QED
        BY <1>1, <1>3, <2>3, <3>1, <4>1
    <3>2. CASE i # Capacity - 1
      <4>1. /\ i \in 0..(Capacity - 2) /\ i + 1 \in 0..(j.size - 1)
            /\ Len(log) - Capacity + i + 2 \in 1..Len(log)
            /\ Len(log) - j.size + (i + 1) + 1 = Len(log) - Capacity + i + 2
        BY <1>1, <1>2, <1>5, <3>2
      <4>2. PICK k : k = i + 1
        OBVIOUS
      <4>3. j.entries[SlotAt(j.startIndex, k)] = log[Len(log) - j.size + k + 1]
        <5>1. k \in 0..(j.size - 1)
          BY <4>1, <4>2
        <5> QED
          BY <1>2, <5>1, Zenon
      <4>4. g[SlotAt(t, i)] = j.entries[SlotAt(j.startIndex, k)]
        BY <2>3, <4>1, <4>2, Zenon
      <4> QED
        BY <1>1, <1>3, <4>1, <4>2, <4>3, <4>4
    <3> QED
      BY <3>1, <3>2
  <2>6. PICK h : h = AppendTo(j, e)
    OBVIOUS
  <2>7. /\ h \in Rings
        /\ h.entries = g /\ h.startIndex = t /\ h.size = Capacity
        /\ h.nextSeq = j.nextSeq + 1
    BY <1>1, <1>2, <2>3, <2>4, <2>6 DEF Rings
  <2>8. ASSUME NEW i \in 0..(h.size - 1)
        PROVE  EntryAt(h, i) = more[Len(more) - h.size + i + 1]
    <3>1. i \in 0..(Capacity - 1) /\ Len(more) - h.size + i + 1 = Len(log) - Capacity + i + 2
      BY <1>1, <1>3, <2>7
    <3>2. EntryAt(h, i) = g[SlotAt(t, i)]
      BY <2>7 DEF EntryAt, SlotAt
    <3> QED
      BY <2>5, <3>1, <3>2
  <2>9. Holds(h, more)
    <3>1. /\ h.nextSeq = Len(more) + 1 /\ h.size <= Len(more)
          /\ h.size = Len(more) \/ h.size = Capacity
      BY <1>1, <1>2, <1>3, <1>5, <2>7
    <3> QED
      BY <2>7, <2>8, <3>1 DEF Holds
  <2> QED
    BY <1>3, <2>6, <2>9
<1> QED
  BY <1>1, <1>2, <1>4, <1>5

\* The offset in the ring of what comes after a cursor.
LEMMA Offset ==
  ASSUME NEW n \in Nat, NEW z \in 0..Capacity, NEW since \in Nat, since < n, z <= n,
         NEW index, index = since - n + z, index >= 0
  PROVE  /\ since \in (n - Capacity)..n
         /\ z - index = n - since
         /\ \A i \in 1..(n - since) : /\ index + i - 1 \in 0..(z - 1)
                                     /\ n - z + (index + i - 1) + 1 = since + i
BY CapacityAssumption

\* A cursor is served from the ring as from the log, or refused.
LEMMA AfterServes ==
  ASSUME NEW log \in Seq(Envelopes), NEW j, Holds(j, log), NEW since \in Nat
  PROVE  After(j, since) =
           IF since \in (Len(log) - Capacity)..Len(log)
           THEN [i \in 1..(Len(log) - since) |-> log[since + i]] ELSE Nil
<1> DEFINE C == Capacity
           n == Len(log)
<1>1. C \in Nat \ {0} /\ n \in Nat
  BY CapacityAssumption
<1>2. /\ j.size \in 0..C /\ j.nextSeq = n + 1 /\ LatestSeq(j) = n
      /\ j.size <= n /\ (j.size = n \/ j.size = C)
  BY <1>1 DEF Holds, Rings, LatestSeq
<1>3. \A i \in 0..(j.size - 1) : EntryAt(j, i) = log[n - j.size + i + 1]
  BY DEF Holds
<1>4. CASE since = n
  <2>1. After(j, since) = <<>>
    BY <1>2, <1>4 DEF After
  <2>2. since \in (n - C)..n /\ [i \in 1..(n - since) |-> log[since + i]] = <<>>
    BY <1>1, <1>4
  <2> QED
    BY <2>1, <2>2
<1>5. CASE since > n
  <2>1. After(j, since) = Nil
    BY <1>1, <1>2, <1>5 DEF After
  <2> QED
    BY <1>1, <1>5, <2>1
<1>6. CASE since < n
  <2> PICK index : index = since + 1 - OldestSeq(j)
    OBVIOUS
  <2>1. j.size # 0 /\ OldestSeq(j) = n + 1 - j.size /\ index = since - n + j.size
    BY <1>1, <1>2, <1>6 DEF OldestSeq
  <2>2. CASE index < 0
    <3>1. After(j, since) = Nil
      BY <1>1, <1>2, <1>6, <2>2 DEF After
    <3>2. since \notin (n - C)..n
      BY <1>1, <1>2, <2>1, <2>2
    <3> QED
      BY <3>1, <3>2
  <2>3. CASE index >= 0
    <3>1. After(j, since) = RetainedFrom(j, index)
      BY <1>1, <1>2, <1>6, <2>1, <2>3 DEF After
    <3>2. /\ since \in (n - C)..n
          /\ j.size - index = n - since
          /\ \A i \in 1..(n - since) :
               /\ index + i - 1 \in 0..(j.size - 1)
               /\ n - j.size + (index + i - 1) + 1 = since + i
      <4> HIDE DEF C, n
      <4>1. n \in Nat /\ j.size \in 0..Capacity /\ since < n /\ j.size <= n
        BY <1>1, <1>2, <1>6 DEF C
      <4>2. index = since - n + j.size /\ index >= 0
        BY <2>1, <2>3
      <4>3. PICK z : z = j.size
        OBVIOUS
      <4>4. /\ since \in (n - Capacity)..n
            /\ z - index = n - since
            /\ \A i \in 1..(n - since) : /\ index + i - 1 \in 0..(z - 1)
                                        /\ n - z + (index + i - 1) + 1 = since + i
        BY <4>1, <4>2, <4>3, Offset
      <4> QED
        BY <4>3, <4>4 DEF C
    <3>3. RetainedFrom(j, index) = [i \in 1..(n - since) |-> EntryAt(j, index + i - 1)]
      BY <3>2 DEF RetainedFrom
    <3>4. ASSUME NEW i \in 1..(n - since) PROVE EntryAt(j, index + i - 1) = log[since + i]
      BY <1>3, <3>2
    <3> QED
      BY <3>1, <3>2, <3>3, <3>4
  <2> QED
    BY <1>1, <1>2, <2>1, <2>2, <2>3
<1> QED
  BY <1>1, <1>4, <1>5, <1>6

-----------------------------------------------------------------------------
\* The host-service.

\* Everything the incarnation that is loading or live has journaled.
CurrentLog == [i \in 1..Len(logs[Inc]) |-> Envelope(Inc, i)]

\* A session that is not offline has an incarnation, whose newest envelopes are
\* those in the ring.
IInv ==
  /\ sess \in {"offline", "loading", "live"}
  /\ logs \in Seq(Seq(Kinds))
  /\ sess # "offline" => Inc >= 1 /\ Holds(journal, CurrentLog)

\* A new incarnation has an empty log.
LEMMA NewIncarnation ==
  ASSUME NEW ls \in Seq(Seq(Kinds))
  PROVE  /\ Append(ls, <<>>) \in Seq(Seq(Kinds))
         /\ Len(Append(ls, <<>>)) = Len(ls) + 1
         /\ Append(ls, <<>>)[Len(ls) + 1] = <<>>
<1>1. <<>> \in Seq(Kinds)
  OBVIOUS
<1> QED
  BY <1>1

\* journalFrame keeps the ring and the log together.
LEMMA JournaledHolds ==
  ASSUME IInv, sess # "offline", NEW kind \in Kinds, Journaled(kind)
  PROVE  logs' \in Seq(Seq(Kinds)) /\ Inc' >= 1 /\ Holds(journal', CurrentLog')
<1>1. /\ logs \in Seq(Seq(Kinds)) /\ Inc \in Nat /\ Inc >= 1
      /\ Holds(journal, CurrentLog)
  BY DEF IInv, Inc
<1>2. /\ Inc \in 1..Len(logs) /\ logs[Inc] \in Seq(Kinds) /\ Len(logs[Inc]) \in Nat
  BY <1>1 DEF Inc
<1>3. PICK old : old = logs[Inc]
  OBVIOUS
<1>4. PICK new : new = Append(old, kind)
  OBVIOUS
<1>5. /\ new \in Seq(Kinds) /\ Len(new) = Len(old) + 1 /\ Len(old) \in Nat
      /\ new[Len(old) + 1] = kind /\ \A i \in 1..Len(old) : new[i] = old[i] /\ old[i] \in Kinds
  BY <1>2, <1>3, <1>4
<1>6. logs' = [logs EXCEPT ![Inc] = new]
  BY <1>3, <1>4 DEF Journaled
<1>7. /\ logs' \in Seq(Seq(Kinds)) /\ Len(logs') = Len(logs) /\ logs'[Inc] = new
  BY <1>1, <1>2, <1>5, <1>6
<1>8. Inc' = Inc
  BY <1>7 DEF Inc
<1>9. CurrentLog = [i \in 1..Len(old) |-> [inc |-> Inc, seq |-> i, kind |-> old[i]]]
  BY <1>3 DEF CurrentLog, Envelope
<1>10. CurrentLog' = [i \in 1..Len(new) |-> [inc |-> Inc, seq |-> i, kind |-> new[i]]]
  BY <1>7, <1>8 DEF CurrentLog, Envelope
<1>11. CurrentLog \in Seq(Envelopes) /\ Len(CurrentLog) = Len(old)
  <2>1. \A i \in 1..Len(old) : [inc |-> Inc, seq |-> i, kind |-> old[i]] \in Envelopes
    BY <1>1, <1>5 DEF Envelopes
  <2> QED
    BY <1>5, <1>9, <2>1
<1>12. PICK e : e = [inc |-> Inc, seq |-> Len(old) + 1, kind |-> kind]
  OBVIOUS
<1>13. e \in Envelopes
  BY <1>1, <1>5, <1>12 DEF Envelopes
<1>14. CurrentLog' = Append(CurrentLog, e)
  <2>1. PICK more : more = Append(CurrentLog, e)
    OBVIOUS
  <2>2. /\ more \in Seq(Envelopes) /\ Len(more) = Len(old) + 1
        /\ more[Len(old) + 1] = e
        /\ \A i \in 1..Len(old) : more[i] = CurrentLog[i]
    BY <1>5, <1>11, <1>13, <2>1
  <2>3. \A i \in 1..Len(new) : more[i] = [inc |-> Inc, seq |-> i, kind |-> new[i]]
    BY <1>5, <1>9, <1>12, <2>2
  <2>4. more = [i \in 1..Len(new) |-> more[i]]
    BY <1>5, <2>2
  <2>5. more = [i \in 1..Len(new) |-> [inc |-> Inc, seq |-> i, kind |-> new[i]]]
    BY <2>3, <2>4, Zenon
  <2> QED
    BY <1>10, <2>1, <2>5, Zenon
<1>15. journal.nextSeq = Len(old) + 1
  BY <1>1, <1>11 DEF Holds
<1>16. journal' = AppendTo(journal, e)
  BY <1>12, <1>15 DEF Journaled
<1>17. Holds(AppendTo(journal, e), Append(CurrentLog, e))
  BY <1>1, <1>11, <1>13, AppendHolds
<1> QED
  BY <1>1, <1>7, <1>8, <1>14, <1>16, <1>17

LEMMA InitHolds == Init => IInv
BY DEF Init, IInv

\* Only the host's own steps touch the journal.
LEMMA NextHolds == IInv /\ [Next]_vars => IInv'
<1> SUFFICES ASSUME IInv, [Next]_vars PROVE IInv'
  OBVIOUS
<1>1. ASSUME NEW kind \in Kinds, Frame(kind) PROVE IInv'
  <2>1. sess = "live" /\ sess' = "live" /\ Journaled(kind)
    BY <1>1 DEF Frame
  <2> QED
    BY <2>1, JournaledHolds DEF IInv
<1>2. CASE BeginLoad
  <2>1. /\ sess' = "loading" /\ logs' = Append(logs, <<>>) /\ journal' = EmptyJournal
        /\ logs \in Seq(Seq(Kinds))
    BY <1>2 DEF BeginLoad, IInv
  <2>2. /\ logs' \in Seq(Seq(Kinds)) /\ Inc' = Len(logs) + 1 /\ Inc' >= 1
        /\ Len(logs'[Inc']) = 0
    <3>1. /\ Append(logs, <<>>) \in Seq(Seq(Kinds))
          /\ Len(Append(logs, <<>>)) = Len(logs) + 1
          /\ Append(logs, <<>>)[Len(logs) + 1] = <<>>
      BY <2>1, NewIncarnation
    <3>2. Len(logs) \in Nat
      BY <2>1
    <3>3. Inc' = Len(logs') /\ Len(logs') = Len(logs) + 1
      BY <2>1, <3>1 DEF Inc
    <3>4. logs'[Inc'] = <<>>
      BY <2>1, <3>1, <3>3
    <3> QED
      BY <2>1, <3>1, <3>2, <3>3, <3>4
  <2>3. CurrentLog' = <<>>
    BY <2>2 DEF CurrentLog
  <2> QED
    BY <2>1, <2>2, <2>3, EmptyHolds DEF IInv
<1>3. CASE Replay
  <2>1. sess = "loading" /\ sess' = "loading" /\ Journaled("message") /\ "message" \in Kinds
    BY <1>3 DEF Replay, Kinds
  <2> QED
    BY <2>1, JournaledHolds DEF IInv
<1>4. CASE Loaded
  <2>1. sess = "loading" /\ sess' = "live" /\ Journaled("state") /\ "state" \in Kinds
    BY <1>4 DEF Loaded, Kinds
  <2> QED
    BY <2>1, JournaledHolds DEF IInv
<1>5. CASE LoadFails
  <2>1. /\ sess' = "offline" /\ logs' = SubSeq(logs, 1, Inc - 1)
        /\ logs \in Seq(Seq(Kinds)) /\ Inc >= 1
    BY <1>5 DEF LoadFails, IInv
  <2>2. logs' \in Seq(Seq(Kinds))
    BY <2>1 DEF Inc
  <2> QED
    BY <2>1, <2>2 DEF IInv
<1>6. CASE HostRestart
  BY <1>6 DEF HostRestart, IInv
<1>7. CASE UNCHANGED <<sess, journal, logs>>
  BY <1>7 DEF IInv, CurrentLog, Envelope, Inc
<1>8. CASE Attach \/ Cut \/ Disturb \/ Refresh \/ GetAnswered \/ PageAnswered \/ ResyncFails
  BY <1>7, <1>8 DEF Attach, Cut, Disturb, Refresh, StartResync, GetAnswered, PageAnswered,
                    ResyncFails
<1>9. CASE Connect \/ Receive \/ CloseSeen \/ LoadOlder
  BY <1>7, <1>9 DEF Connect, Receive, CloseSeen, LoadOlder
<1>10. ASSUME NEW r \in requests, OlderAnswered(r) \/ OlderFails(r) PROVE IInv'
  BY <1>7, <1>10 DEF OlderAnswered, OlderFails
<1>11. CASE UNCHANGED vars
  BY <1>7, <1>11 DEF vars
<1> QED
  BY <1>1, <1>2, <1>3, <1>4, <1>5, <1>6, <1>8, <1>9, <1>10, <1>11 DEF Next

\* The ring always holds the newest envelopes of its incarnation's log, for any
\* capacity: through loads, loads that fail, and restarts (journal.ts append).
THEOREM RingHoldsTheNewest == Spec => []IInv
<1> QED
  BY InitHolds, NextHolds, PTL DEF Spec

\* Every cursor, of whatever incarnation, is served exactly what came after it or
\* is refused, for any capacity and however long the session lives (journal.ts
\* after).
THEOREM JournalServes == Spec => []JournalServesTheTail
<1>1. ASSUME IInv PROVE JournalServesTheTail
  <2> SUFFICES ASSUME sess # "offline", NEW since \in 0..(MaxLog + 1)
               PROVE  After(journal, since) =
                        IF since \in (Len(logs[Inc]) - Capacity)..Len(logs[Inc])
                        THEN [i \in 1..(Len(logs[Inc]) - since) |-> Envelope(Inc, since + i)]
                        ELSE Nil
    BY DEF JournalServesTheTail
  <2>1. /\ logs \in Seq(Seq(Kinds)) /\ Inc \in 1..Len(logs)
        /\ Holds(journal, CurrentLog) /\ since \in Nat
    BY <1>1, StreamAssumption DEF IInv, Inc
  <2>2. logs[Inc] \in Seq(Kinds) /\ Len(logs[Inc]) \in Nat
    BY <2>1
  <2>3. PICK n : n = Len(logs[Inc])
    OBVIOUS
  <2>4. ASSUME NEW i \in 1..n PROVE Envelope(Inc, i) \in Envelopes
    BY <2>1, <2>2, <2>3 DEF Envelope, Envelopes
  <2>5. CurrentLog = [i \in 1..n |-> Envelope(Inc, i)] /\ n \in Nat
    BY <2>2, <2>3 DEF CurrentLog
  <2>6. /\ CurrentLog \in Seq(Envelopes) /\ Len(CurrentLog) = n
        /\ \A i \in 1..n : CurrentLog[i] = Envelope(Inc, i)
    BY <2>4, <2>5
  <2>7. After(journal, since) =
          IF since \in (n - Capacity)..n
          THEN [i \in 1..(n - since) |-> CurrentLog[since + i]] ELSE Nil
    BY <2>1, <2>6, AfterServes
  <2>8. ASSUME NEW i \in 1..(n - since) PROVE CurrentLog[since + i] = Envelope(Inc, since + i)
    BY <2>1, <2>5, <2>6
  <2> QED
    BY <2>3, <2>7, <2>8
<1> QED
  BY <1>1, RingHoldsTheNewest, PTL
-----------------------------------------------------------------------------
\* Sequences of envelopes that are numbered upwards.

\* Every nonempty set of numbers has a least one.
LEMMA LeastNatural ==
  ASSUME NEW D \in SUBSET Nat, D # {}
  PROVE  \E n \in D : \A m \in D : n <= m
<1>1. PICK n \in D : \A m \in D : ~(<<m, n>> \in OpToRel(<, Nat))
  BY WFMin, NatLessThanWellFounded, Zenon
<1>2. \A m \in D : ~(m < n)
  BY <1>1 DEF OpToRel
<1> QED
  BY <1>2

Upwards(r) == \A k, l \in 1..Len(r) : k < l => r[k].seq < r[l].seq

\* Every envelope of one is in the other.
Within(a, b) == \A k \in 1..Len(a) : \E l \in 1..Len(b) : a[k] = b[l]

\* What a sequence of envelopes is made of.
LEMMA Enveloped ==
  ASSUME NEW r \in Seq(Envelopes)
  PROVE  /\ Len(r) \in Nat
         /\ DOMAIN r = 1..Len(r)
         /\ \A k \in 1..Len(r) : /\ r[k] \in Envelopes
                                 /\ r[k].inc \in Nat /\ r[k].seq \in Nat /\ r[k].kind \in Kinds
<1>1. Len(r) \in Nat /\ DOMAIN r = 1..Len(r) /\ \A k \in 1..Len(r) : r[k] \in Envelopes
  OBVIOUS
<1>2. \A e \in Envelopes : e.inc \in Nat /\ e.seq \in Nat /\ e.kind \in Kinds
  BY DEF Envelopes
<1> QED
  BY <1>1, <1>2

\* The least place at which two of them differ is in neither.
LEMMA NoLeastDifference ==
  ASSUME NEW a \in Seq(Envelopes), NEW b \in Seq(Envelopes),
         Upwards(a), Upwards(b), Within(a, b), Within(b, a),
         NEW k \in 1..Len(a),
         \A m \in 1..(k - 1) : m \in 1..Len(a) /\ m \in 1..Len(b) /\ a[m] = b[m]
  PROVE  k \in 1..Len(b) /\ a[k] = b[k]
<1>1. /\ Len(a) \in Nat /\ Len(b) \in Nat
      /\ \A i \in 1..Len(a) : a[i].seq \in Nat
      /\ \A i \in 1..Len(b) : b[i].seq \in Nat
  BY Enveloped
<1>2. PICK l \in 1..Len(b) : a[k] = b[l]
  BY DEF Within
<1>3. ~(l < k)
  <2> SUFFICES ASSUME l < k PROVE FALSE
    OBVIOUS
  <2>1. l \in 1..Len(a) /\ a[l] = b[l]
    <3>1. l \in 1..(k - 1)
      BY <1>1, <1>2
    <3> QED
      BY <3>1
  <2>2. a[l].seq < a[k].seq
    BY <2>1 DEF Upwards
  <2> QED
    BY <1>1, <1>2, <2>1, <2>2
<1>4. k \in 1..Len(b)
  BY <1>1, <1>2, <1>3
<1>5. CASE l = k
  BY <1>2, <1>5
<1>6. CASE k < l
  <2>1. PICK m \in 1..Len(a) : b[k] = a[m]
    BY <1>4 DEF Within
  <2>2. b[k].seq < a[k].seq
    BY <1>2, <1>4, <1>6 DEF Upwards
  <2>3. CASE m < k
    <3>1. m \in 1..Len(b) /\ a[m] = b[m]
      <4>1. m \in 1..(k - 1)
        BY <1>1, <2>1, <2>3
      <4> QED
        BY <4>1
    <3>2. b[m].seq < b[k].seq
      BY <1>4, <2>3, <3>1 DEF Upwards
    <3> QED
      BY <1>1, <1>4, <2>1, <3>1, <3>2
  <2>4. CASE m = k
    BY <1>1, <2>1, <2>2, <2>4
  <2>5. CASE k < m
    <3>1. a[k].seq < a[m].seq
      BY <2>1, <2>5 DEF Upwards
    <3> QED
      BY <1>1, <2>1, <2>2, <3>1
  <2> QED
    BY <1>1, <2>1, <2>3, <2>4, <2>5
<1> QED
  BY <1>1, <1>2, <1>3, <1>5, <1>6

\* Two of them with the same envelopes are the same.
LEMMA SameEnvelopes ==
  ASSUME NEW a \in Seq(Envelopes), NEW b \in Seq(Envelopes),
         Upwards(a), Upwards(b), Within(a, b), Within(b, a)
  PROVE  a = b
<1>1. Len(a) \in Nat /\ Len(b) \in Nat
  BY Enveloped
<1> DEFINE Common(k) == k \in 1..Len(a) /\ k \in 1..Len(b) /\ a[k] = b[k]
<1> DEFINE Differ == {k \in Nat : (k \in 1..Len(a) \/ k \in 1..Len(b)) /\ ~Common(k)}
<1>2. Differ = {}
  <2> SUFFICES ASSUME Differ # {} PROVE FALSE
    OBVIOUS
  <2>1. PICK k \in Differ : \A m \in Differ : k <= m
    BY LeastNatural
  <2>2. /\ k \in Nat /\ ~Common(k)
        /\ k \in 1..Len(a) \/ k \in 1..Len(b)
    BY <2>1
  <2>3. ASSUME NEW m \in 1..(k - 1) PROVE Common(m)
    <3>1. m \in Nat /\ m < k
      BY <2>2
    <3>2. m \in 1..Len(a) \/ m \in 1..Len(b)
      BY <1>1, <2>2, <3>1
    <3>3. m \notin Differ
      BY <2>1, <2>2, <3>1
    <3> QED
      BY <3>1, <3>2, <3>3
  <2>4. CASE k \in 1..Len(a)
    <3>1. k \in 1..Len(b) /\ a[k] = b[k]
      BY <2>3, <2>4, NoLeastDifference
    <3> QED
      BY <2>2, <2>4, <3>1
  <2>5. CASE k \in 1..Len(b)
    <3>1. k \in 1..Len(a) /\ b[k] = a[k]
      BY <2>3, <2>5, NoLeastDifference
    <3> QED
      BY <2>2, <2>5, <3>1
  <2> QED
    BY <2>2, <2>4, <2>5
<1>3. \A k \in Nat : k \in 1..Len(a) \/ k \in 1..Len(b) => Common(k)
  BY <1>2
<1>4. Len(a) = Len(b) /\ \A k \in 1..Len(a) : a[k] = b[k]
  <2>1. \A k \in 1..Len(a) : k \in 1..Len(b) /\ a[k] = b[k]
    BY <1>1, <1>3
  <2>2. \A k \in 1..Len(b) : k \in 1..Len(a)
    BY <1>1, <1>3
  <2> QED
    BY <1>1, <2>1, <2>2
<1>5. a = [k \in 1..Len(a) |-> a[k]] /\ b = [k \in 1..Len(b) |-> b[k]]
  OBVIOUS
<1> QED
  BY <1>4, <1>5

\* What Picked computes, as far as place n.
Picking(f, s, places, n) ==
  f = [i \in 0..n |-> IF i = 0 THEN <<>>
                      ELSE IF i \in places THEN Append(f[i - 1], s[i]) ELSE f[i - 1]]

\* There is such a computation, of any length.
LEMMA PickingExists ==
  ASSUME NEW s, NEW places, NEW n \in Nat
  PROVE  \E f : Picking(f, s, places, n)
<1> DEFINE Bad == {k \in Nat : ~\E f : Picking(f, s, places, k)}
<1> SUFFICES ASSUME Bad # {} PROVE FALSE
  OBVIOUS
<1>1. PICK k \in Bad : \A m \in Bad : k <= m
  BY LeastNatural
<1>2. k \in Nat /\ ~\E f : Picking(f, s, places, k)
  BY <1>1
<1>3. CASE k = 0
  <2> DEFINE f == [i \in 0..0 |-> <<>>]
  <2>1. \A i \in 0..0 : i = 0
    OBVIOUS
  <2>2. f = [i \in 0..0 |-> IF i = 0 THEN <<>>
                            ELSE IF i \in places THEN Append(f[i - 1], s[i]) ELSE f[i - 1]]
    BY <2>1
  <2> HIDE DEF f
  <2> QED
    BY <1>2, <1>3, <2>2 DEF Picking
<1>4. CASE k # 0
  <2>1. k - 1 \in Nat /\ ~(k <= k - 1)
    BY <1>2, <1>4
  <2>2. PICK f : Picking(f, s, places, k - 1)
    BY <1>1, <2>1
  <2> DEFINE last == IF k \in places THEN Append(f[k - 1], s[k]) ELSE f[k - 1]
  <2> DEFINE g == [i \in 0..k |-> IF i < k THEN f[i] ELSE last]
  <2>3. ASSUME NEW i \in 0..k
        PROVE  g[i] = IF i = 0 THEN <<>>
                      ELSE IF i \in places THEN Append(g[i - 1], s[i]) ELSE g[i - 1]
    <3>1. CASE i = k
      <4>1. k \in 0..k /\ k - 1 \in 0..k /\ k - 1 < k /\ ~(k < k)
        BY <1>2, <2>1
      <4>2. g[k] = last
        BY <4>1
      <4>3. g[k - 1] = f[k - 1]
        BY <4>1
      <4> HIDE DEF g
      <4> QED
        BY <1>4, <3>1, <4>2, <4>3
    <3>2. CASE i # k
      <4>1. i \in 0..(k - 1) /\ i < k /\ (i # 0 => i - 1 \in 0..k /\ i - 1 < k)
        BY <1>2, <3>2
      <4>2. g[i] = f[i] /\ (i # 0 => g[i - 1] = f[i - 1])
        BY <4>1
      <4>3. f[i] = IF i = 0 THEN <<>>
                   ELSE IF i \in places THEN Append(f[i - 1], s[i]) ELSE f[i - 1]
        BY <2>2, <4>1 DEF Picking
      <4> HIDE DEF g
      <4> QED
        BY <4>2, <4>3
    <3> QED
      BY <3>1, <3>2
  <2>4. g = [i \in 0..k |-> g[i]]
    OBVIOUS
  <2> HIDE DEF g
  <2>5. Picking(g, s, places, k)
    BY <2>3, <2>4 DEF Picking
  <2> QED
    BY <1>2, <2>5
<1> QED
  BY <1>3, <1>4

\* What is picked from a sequence that is numbered upwards: the envelopes at the
\* places, in their order.
PickedTo(r, s, places, n) ==
  /\ r \in Seq(Envelopes)
  /\ Upwards(r)
  /\ \A k \in 1..Len(r) : \E i \in 1..n : i \in places /\ r[k] = s[i]
  /\ \A i \in 1..n : i \in places => \E k \in 1..Len(r) : r[k] = s[i]

LEMMA PicksOne ==
  ASSUME NEW s \in Seq(Envelopes), Upwards(s), NEW places, NEW n \in 1..Len(s),
         NEW r, PickedTo(r, s, places, n - 1), n \in places
  PROVE  PickedTo(Append(r, s[n]), s, places, n)
<1>1. /\ Len(s) \in Nat /\ n \in Nat /\ n >= 1 /\ n \in 1..n
      /\ s[n] \in Envelopes
      /\ \A i \in 1..(n - 1) : i \in 1..n /\ i \in 1..Len(s) /\ i < n
      /\ \A i \in 1..n : i = n \/ i \in 1..(n - 1)
  OBVIOUS
<1>2. r \in Seq(Envelopes) /\ Len(r) \in Nat
  BY DEF PickedTo
<1>3. PICK t : t = Append(r, s[n])
  OBVIOUS
<1>4. /\ t \in Seq(Envelopes) /\ Len(t) = Len(r) + 1 /\ t[Len(t)] = s[n]
      /\ \A k \in 1..Len(r) : t[k] = r[k] /\ k \in 1..Len(t) /\ k < Len(t)
      /\ \A k \in 1..Len(t) : k = Len(t) \/ k \in 1..Len(r)
      /\ Len(t) \in 1..Len(t)
  BY <1>1, <1>2, <1>3
<1>5. ASSUME NEW k \in 1..Len(r) PROVE r[k].seq < s[n].seq
  <2>1. PICK i \in 1..(n - 1) : r[k] = s[i]
    BY DEF PickedTo
  <2> QED
    BY <1>1, <2>1 DEF Upwards
<1>6. Upwards(t)
  <2> SUFFICES ASSUME NEW k \in 1..Len(t), NEW l \in 1..Len(t), k < l
               PROVE  t[k].seq < t[l].seq
    BY DEF Upwards
  <2>1. k \in 1..Len(r)
    BY <1>2, <1>4
  <2>2. CASE l = Len(t)
    BY <1>4, <1>5, <2>1, <2>2
  <2>3. CASE l \in 1..Len(r)
    <3>1. r[k].seq < r[l].seq
      BY <2>1, <2>3 DEF PickedTo, Upwards
    <3> QED
      BY <1>4, <2>1, <2>3, <3>1
  <2> QED
    BY <1>4, <2>2, <2>3
<1>7. ASSUME NEW k \in 1..Len(t) PROVE \E i \in 1..n : i \in places /\ t[k] = s[i]
  <2>1. CASE k = Len(t)
    BY <1>1, <1>4, <2>1
  <2>2. CASE k \in 1..Len(r)
    <3>1. PICK i \in 1..(n - 1) : i \in places /\ r[k] = s[i]
      BY <2>2 DEF PickedTo
    <3> QED
      BY <1>1, <1>4, <2>2, <3>1
  <2> QED
    BY <1>4, <2>1, <2>2
<1>8. ASSUME NEW i \in 1..n, i \in places PROVE \E k \in 1..Len(t) : t[k] = s[i]
  <2>1. CASE i = n
    BY <1>4, <2>1
  <2>2. CASE i \in 1..(n - 1)
    <3>1. PICK k \in 1..Len(r) : r[k] = s[i]
      BY <1>8, <2>2 DEF PickedTo
    <3> QED
      BY <1>4, <3>1
  <2> QED
    BY <1>1, <2>1, <2>2
<1> QED
  BY <1>3, <1>4, <1>6, <1>7, <1>8 DEF PickedTo

LEMMA PicksNone ==
  ASSUME NEW s, NEW places, NEW n \in Nat, n >= 1,
         NEW r, PickedTo(r, s, places, n - 1), n \notin places
  PROVE  PickedTo(r, s, places, n)
<1>1. /\ \A i \in 1..(n - 1) : i \in 1..n
      /\ \A i \in 1..n : i \in places => i \in 1..(n - 1)
  OBVIOUS
<1> QED
  BY <1>1 DEF PickedTo

\* What Picked picks.
LEMMA Picks ==
  ASSUME NEW s \in Seq(Envelopes), Upwards(s), NEW places
  PROVE  PickedTo(Picked(s, places), s, places, Len(s))
<1>1. Len(s) \in Nat
  BY Enveloped
<1> DEFINE IsThat(f) == f = [i \in 0..Len(s) |->
                               IF i = 0 THEN <<>>
                               ELSE IF i \in places THEN Append(f[i - 1], s[i]) ELSE f[i - 1]]
           picked == CHOOSE f : IsThat(f)
<1>2. Picked(s, places) = picked[Len(s)]
  BY DEF Picked
<1>3. IsThat(picked)
  <2>1. \E f : IsThat(f)
    <3>1. PICK f : Picking(f, s, places, Len(s))
      BY <1>1, PickingExists
    <3>2. IsThat(f)
      BY <3>1 DEF Picking
    <3> QED
      BY <3>2
  <2> HIDE DEF IsThat
  <2> QED
    BY <2>1
<1>4. \A i \in 0..Len(s) :
        picked[i] = IF i = 0 THEN <<>>
                    ELSE IF i \in places THEN Append(picked[i - 1], s[i]) ELSE picked[i - 1]
  <2> HIDE DEF picked
  <2> QED
    BY <1>3
<1> HIDE DEF picked
<1> DEFINE Bad == {n \in 0..Len(s) : ~PickedTo(picked[n], s, places, n)}
<1>5. Bad = {}
  <2> SUFFICES ASSUME Bad # {} PROVE FALSE
    OBVIOUS
  <2>1. PICK n \in Bad : \A m \in Bad : n <= m
    <3>1. Bad \in SUBSET Nat
      BY <1>1
    <3> HIDE DEF Bad
    <3> QED
      BY <3>1, LeastNatural
  <2>2. n \in 0..Len(s) /\ n \in Nat /\ ~PickedTo(picked[n], s, places, n)
    BY <1>1, <2>1
  <2>3. CASE n = 0
    <3>1. picked[n] = <<>>
      BY <1>4, <2>2, <2>3
    <3> QED
      BY <2>2, <2>3, <3>1 DEF PickedTo, Upwards
  <2>4. CASE n # 0
    <3>1. n - 1 \in 0..Len(s) /\ ~(n <= n - 1) /\ n \in 1..Len(s) /\ n >= 1
      BY <1>1, <2>2, <2>4
    <3>2. PickedTo(picked[n - 1], s, places, n - 1)
      BY <2>1, <3>1
    <3> HIDE DEF Bad
    <3>3. PICK r : r = picked[n - 1]
      OBVIOUS
    <3>4. picked[n] = IF n \in places THEN Append(r, s[n]) ELSE r
      BY <1>4, <2>2, <2>4, <3>3
    <3>5. CASE n \in places
      BY <2>2, <3>1, <3>2, <3>3, <3>4, <3>5, PicksOne
    <3>6. CASE n \notin places
      BY <2>2, <3>1, <3>2, <3>3, <3>4, <3>6, PicksNone
    <3> QED
      BY <3>5, <3>6
  <2> QED
    BY <2>3, <2>4
<1>6. Len(s) \in 0..Len(s)
  BY <1>1
<1>7. PickedTo(picked[Len(s)], s, places, Len(s))
  BY <1>5, <1>6
<1> QED
  BY <1>2, <1>7

-----------------------------------------------------------------------------
\* Conversations and their pages.

\* The envelope of a log, as Envelope has it.
Entry(inc, log, seq) == [inc |-> inc, seq |-> seq, kind |-> log[seq]]

\* r is the messages of a log that are numbered lo..hi.
Lists(r, inc, log, lo, hi) ==
  /\ Upwards(r)
  /\ \A k \in 1..Len(r) : /\ r[k].inc = inc /\ r[k].seq \in lo..hi
                          /\ r[k].kind = "message" /\ log[r[k].seq] = "message"
  /\ \A s \in lo..hi : log[s] = "message" => \E k \in 1..Len(r) : r[k].seq = s

\* There are none.
Quiet(log, lo, hi) == \A s \in lo..hi : log[s] # "message"

LEMMA SameFields ==
  ASSUME NEW d \in Envelopes, NEW e \in Envelopes,
         d.inc = e.inc, d.seq = e.seq, d.kind = e.kind
  PROVE  d = e
BY DEF Envelopes

\* There is one list of them.
LEMMA OneList ==
  ASSUME NEW a \in Seq(Envelopes), NEW b \in Seq(Envelopes), NEW inc, NEW log, NEW lo, NEW hi,
         Lists(a, inc, log, lo, hi), Lists(b, inc, log, lo, hi)
  PROVE  a = b
<1>1. ASSUME NEW c \in Seq(Envelopes), NEW d \in Seq(Envelopes),
             Lists(c, inc, log, lo, hi), Lists(d, inc, log, lo, hi)
      PROVE  Within(c, d)
  <2> SUFFICES ASSUME NEW k \in 1..Len(c) PROVE \E l \in 1..Len(d) : c[k] = d[l]
    BY DEF Within
  <2>1. /\ c[k].inc = inc /\ c[k].seq \in lo..hi
        /\ c[k].kind = "message" /\ log[c[k].seq] = "message"
    BY <1>1 DEF Lists
  <2>2. PICK l \in 1..Len(d) : d[l].seq = c[k].seq
    BY <1>1, <2>1 DEF Lists
  <2>3. d[l].inc = inc /\ d[l].kind = "message"
    BY <1>1 DEF Lists
  <2>4. c[k] \in Envelopes /\ d[l] \in Envelopes
    BY Enveloped
  <2> QED
    BY <2>1, <2>2, <2>3, <2>4, SameFields
<1>2. Within(a, b) /\ Within(b, a)
  BY <1>1
<1>3. Upwards(a) /\ Upwards(b)
  BY DEF Lists
<1> QED
  BY <1>2, <1>3, SameEnvelopes

\* What is picked from a stretch of m envelopes of a log.
PickedFrom(r, places, inc, log, from, m) ==
  /\ r \in Seq(Envelopes) /\ Upwards(r)
  /\ \A k \in 1..Len(r) :
       \E i \in 1..m : /\ i \in places
                       /\ r[k].inc = inc /\ r[k].seq = from + i - 1
                       /\ r[k].kind = log[from + i - 1]
  /\ \A i \in 1..m : i \in places => \E k \in 1..Len(r) : r[k].seq = from + i - 1

LEMMA PicksStretch ==
  ASSUME NEW inc \in Nat, NEW log \in Seq(Kinds), NEW from \in Nat \ {0}, NEW m \in Nat,
         from + m - 1 <= Len(log), NEW places,
         NEW s, s = [i \in 1..m |-> Entry(inc, log, from + i - 1)]
  PROVE  /\ s \in Seq(Envelopes) /\ Len(s) = m
         /\ PickedFrom(Picked(s, places), places, inc, log, from, m)
<1>1. ASSUME NEW i \in 1..m
      PROVE  log[from + i - 1] \in Kinds /\ from + i - 1 \in Nat
  <2>1. from + i - 1 \in 1..Len(log)
    OBVIOUS
  <2> QED
    BY <2>1
<1>2. \A i \in 1..m : /\ s[i] \in Envelopes
                      /\ s[i].inc = inc /\ s[i].seq = from + i - 1
                      /\ s[i].kind = log[from + i - 1]
  BY <1>1 DEF Entry, Envelopes
<1>3. s \in Seq(Envelopes) /\ Len(s) = m
  <2>1. \A i \in 1..m : Entry(inc, log, from + i - 1) \in Envelopes
    BY <1>1 DEF Entry, Envelopes
  <2> QED
    BY <2>1
<1>4. Upwards(s)
  <2> SUFFICES ASSUME NEW k \in 1..m, NEW l \in 1..m, k < l PROVE s[k].seq < s[l].seq
    BY <1>3 DEF Upwards
  <2>1. s[k].seq = from + k - 1 /\ s[l].seq = from + l - 1
    BY <1>2
  <2> QED
    BY <2>1
<1>5. PICK r : r = Picked(s, places)
  OBVIOUS
<1>6. PickedTo(r, s, places, m)
  BY <1>3, <1>4, <1>5, Picks
<1>7. ASSUME NEW k \in 1..Len(r)
      PROVE  \E i \in 1..m : /\ i \in places
                             /\ r[k].inc = inc /\ r[k].seq = from + i - 1
                             /\ r[k].kind = log[from + i - 1]
  <2>1. PICK i \in 1..m : i \in places /\ r[k] = s[i]
    BY <1>6 DEF PickedTo
  <2> QED
    BY <1>2, <2>1
<1>8. ASSUME NEW i \in 1..m, i \in places
      PROVE  \E k \in 1..Len(r) : r[k].seq = from + i - 1
  <2>1. PICK k \in 1..Len(r) : r[k] = s[i]
    BY <1>6, <1>8 DEF PickedTo
  <2> QED
    BY <1>2, <2>1
<1>9. r \in Seq(Envelopes) /\ Upwards(r)
  BY <1>6 DEF PickedTo
<1> QED
  BY <1>3, <1>5, <1>7, <1>8, <1>9 DEF PickedFrom

\* The messages of a log that are numbered lo..hi, as MessagesOf has them.
Messages(inc, log, lo, hi) ==
  LET all == [i \in 1..(hi - lo + 1) |-> Entry(inc, log, lo + i - 1)]
  IN  Picked(all, {i \in DOMAIN all : all[i].kind = "message"})

LEMMA MessagesOfLog ==
  ASSUME NEW inc, NEW lo, NEW hi
  PROVE  MessagesOf(inc, lo, hi) = Messages(inc, logs[inc], lo, hi)
BY DEF MessagesOf, Messages, Entry, Envelope

\* They are all of them.
LEMMA Listed ==
  ASSUME NEW inc \in Nat, NEW log \in Seq(Kinds),
         NEW lo \in Nat \ {0}, NEW hi \in Nat, lo <= hi + 1, hi <= Len(log)
  PROVE  /\ Messages(inc, log, lo, hi) \in Seq(Envelopes)
         /\ Lists(Messages(inc, log, lo, hi), inc, log, lo, hi)
<1>1. PICK m : m = hi - lo + 1
  OBVIOUS
<1>2. m \in Nat /\ lo + m - 1 = hi /\ lo + m - 1 <= Len(log) /\ Len(log) \in Nat
  BY <1>1
<1>3. PICK s : s = [i \in 1..m |-> Entry(inc, log, lo + i - 1)]
  OBVIOUS
<1>4. PICK places : places = {i \in DOMAIN s : s[i].kind = "message"}
  OBVIOUS
<1>5. PICK r : r = Picked(s, places)
  OBVIOUS
<1>6. PickedFrom(r, places, inc, log, lo, m)
  BY <1>2, <1>3, <1>5, PicksStretch
<1>7. \A i \in 1..m : i \in places <=> log[lo + i - 1] = "message"
  BY <1>3, <1>4 DEF Entry
<1>8. Messages(inc, log, lo, hi) = r
  BY <1>1, <1>3, <1>4, <1>5 DEF Messages
<1>9. ASSUME NEW k \in 1..Len(r)
      PROVE  /\ r[k].inc = inc /\ r[k].seq \in lo..hi
             /\ r[k].kind = "message" /\ log[r[k].seq] = "message"
  <2>1. PICK i \in 1..m : /\ i \in places
                          /\ r[k].inc = inc /\ r[k].seq = lo + i - 1
                          /\ r[k].kind = log[lo + i - 1]
    BY <1>6 DEF PickedFrom
  <2>2. lo + i - 1 \in lo..hi
    BY <1>2
  <2> QED
    BY <1>7, <2>1, <2>2
<1>10. ASSUME NEW t \in lo..hi, log[t] = "message"
       PROVE  \E k \in 1..Len(r) : r[k].seq = t
  <2>1. PICK i : i = t - lo + 1
    OBVIOUS
  <2>2. i \in 1..m /\ lo + i - 1 = t
    BY <1>1, <2>1
  <2> QED
    BY <1>6, <1>7, <1>10, <2>2 DEF PickedFrom
<1> QED
  BY <1>6, <1>8, <1>9, <1>10 DEF Lists, PickedFrom

Wanted(log, before, s) == log[s] = "message" /\ (before = Nil \/ s < before)

\* The items of a page are the newest messages before `before`, and the next page
\* starts at the oldest of them unless there are no older ones.
IsPage(items, next, inc, log, oldest, before) ==
  /\ items \in Seq(Envelopes)
  /\ Upwards(items)
  /\ \A k \in 1..Len(items) :
       /\ items[k].inc = inc /\ items[k].kind = "message"
       /\ items[k].seq \in oldest..Len(log)
       /\ Wanted(log, before, items[k].seq)
  /\ \A s \in oldest..Len(log) : Wanted(log, before, s) =>
       /\ Len(items) >= 1
       /\ s >= items[1].seq => \E k \in 1..Len(items) : items[k].seq = s
       /\ next = Nil => s >= items[1].seq
  /\ next # Nil =>
       Len(items) >= 1 /\ next = items[1].seq

\* All of a log, as envelopes: CurrentLog of the incarnation.
Entries(inc, log) == [i \in 1..Len(log) |-> Entry(inc, log, i)]

\* The last `limit` of a sequence.
LEMMA Newest ==
  ASSUME NEW r \in Seq(Envelopes), Upwards(r), NEW first \in 1..(Len(r) + 1),
         NEW t, t = SubSeq(r, first, Len(r))
  PROVE  /\ t \in Seq(Envelopes) /\ Upwards(t)
         /\ Len(t) = Len(r) - first + 1
         /\ \A k \in 1..Len(t) : first + k - 1 \in 1..Len(r) /\ t[k] = r[first + k - 1]
<1>1. Len(r) \in Nat
  BY Enveloped
<1>2. t = [k \in 1..(Len(r) - first + 1) |-> r[first + k - 1]]
  BY <1>1
<1>3. ASSUME NEW k \in 1..(Len(r) - first + 1)
      PROVE  first + k - 1 \in 1..Len(r) /\ t[k] = r[first + k - 1] /\ t[k] \in Envelopes
  <2>1. first + k - 1 \in 1..Len(r)
    BY <1>1
  <2>2. r[first + k - 1] \in Envelopes
    BY <2>1
  <2> QED
    BY <1>2, <2>1, <2>2
<1>4. Len(r) - first + 1 \in Nat
  BY <1>1
<1>5. t \in Seq(Envelopes) /\ Len(t) = Len(r) - first + 1
  BY <1>2, <1>3, <1>4
<1>6. Upwards(t)
  <2> SUFFICES ASSUME NEW k \in 1..Len(t), NEW l \in 1..Len(t), k < l
               PROVE  t[k].seq < t[l].seq
    BY DEF Upwards
  <2>1. PICK x \in 1..Len(r) : x = first + k - 1 /\ t[k] = r[x]
    BY <1>3, <1>5
  <2>2. PICK y \in 1..Len(r) : y = first + l - 1 /\ t[l] = r[y]
    BY <1>3, <1>5
  <2>3. x < y
    BY <1>1, <2>1, <2>2
  <2> QED
    BY <2>1, <2>2, <2>3 DEF Upwards
<1> QED
  BY <1>3, <1>5, <1>6

\* What the ring retains is the last stretch of the log.
LEMMA Retains ==
  ASSUME NEW inc \in Nat, NEW log \in Seq(Kinds), log # <<>>,
         NEW j, Holds(j, Entries(inc, log))
  PROVE  /\ j.size \in Nat /\ OldestSeq(j) \in Nat \ {0}
         /\ OldestSeq(j) + j.size - 1 = Len(log)
         /\ RetainedFrom(j, 0) = [i \in 1..j.size |-> Entry(inc, log, OldestSeq(j) + i - 1)]
<1>1. Len(log) \in Nat /\ Len(log) >= 1 /\ Capacity \in Nat /\ Capacity >= 1
  BY CapacityAssumption
<1>2. /\ Entries(inc, log) = [i \in 1..Len(log) |-> Entry(inc, log, i)]
      /\ Len(Entries(inc, log)) = Len(log)
  BY <1>1 DEF Entries
<1>3. /\ j.size \in 0..Capacity /\ j.nextSeq = Len(log) + 1
      /\ j.size <= Len(log) /\ (j.size = Len(log) \/ j.size = Capacity)
      /\ \A i \in 0..(j.size - 1) : EntryAt(j, i) = Entries(inc, log)[Len(log) - j.size + i + 1]
  BY <1>2 DEF Holds, Rings
<1>4. PICK z : z = j.size
  OBVIOUS
<1>5. z \in Nat /\ z >= 1 /\ z <= Len(log) /\ OldestSeq(j) = Len(log) + 1 - z
  BY <1>1, <1>3, <1>4 DEF OldestSeq
<1>6. ASSUME NEW i \in 1..z
      PROVE  EntryAt(j, 0 + i - 1) = Entry(inc, log, OldestSeq(j) + i - 1)
  <2>1. PICK x : x = i - 1
    OBVIOUS
  <2>2. x \in 0..(z - 1) /\ 0 + i - 1 = x
    BY <1>5, <2>1
  <2>3. PICK y : y = Len(log) - z + x + 1
    OBVIOUS
  <2>4. y \in 1..Len(log) /\ OldestSeq(j) + i - 1 = y
    BY <1>1, <1>5, <2>1, <2>2, <2>3
  <2>5. EntryAt(j, x) = Entries(inc, log)[y]
    BY <1>3, <1>4, <2>2, <2>3
  <2> QED
    BY <1>2, <2>2, <2>4, <2>5
<1>7. RetainedFrom(j, 0) = [i \in 1..z |-> EntryAt(j, 0 + i - 1)]
  BY <1>4, <1>5 DEF RetainedFrom
<1>8. RetainedFrom(j, 0) = [i \in 1..z |-> Entry(inc, log, OldestSeq(j) + i - 1)]
  BY <1>6, <1>7
<1> QED
  BY <1>1, <1>4, <1>5, <1>8

\* page serves a page of the log.
LEMMA PageServes ==
  ASSUME NEW inc \in Nat, NEW log \in Seq(Kinds), log # <<>>,
         NEW j, Holds(j, Entries(inc, log)), NEW before \in Nat \cup {Nil},
         NEW page, page = Page(j, before, PageSize)
  PROVE  IsPage(page.items, page.nextBefore, inc, log, OldestSeq(j), before)
<1>1. PageSize \in Nat /\ PageSize >= 1 /\ Len(log) \in Nat
  BY StreamAssumption
<1>2. PICK z, lo : z = j.size /\ lo = OldestSeq(j)
  OBVIOUS
<1>3. /\ z \in Nat /\ lo \in Nat \ {0} /\ lo + z - 1 = Len(log)
      /\ RetainedFrom(j, 0) = [i \in 1..z |-> Entry(inc, log, lo + i - 1)]
  BY <1>2, Retains
<1>4. PICK s : s = RetainedFrom(j, 0)
  OBVIOUS
<1>5. PICK places : places = {i \in DOMAIN s : /\ s[i].kind = "message"
                                               /\ before = Nil \/ s[i].seq < before}
  OBVIOUS
<1>6. PICK older : older = Picked(s, places)
  OBVIOUS
<1>7. \A i \in 1..z : i \in places <=> Wanted(log, before, lo + i - 1)
  <2>1. DOMAIN s = 1..z /\ \A i \in 1..z : s[i].kind = log[lo + i - 1] /\ s[i].seq = lo + i - 1
    BY <1>3, <1>4 DEF Entry
  <2> QED
    BY <1>5, <2>1 DEF Wanted
<1>8. PickedFrom(older, places, inc, log, lo, z)
  <2>1. lo + z - 1 <= Len(log)
    BY <1>1, <1>3
  <2> QED
    BY <1>3, <1>4, <1>6, <2>1, PicksStretch
<1>9. older \in Seq(Envelopes) /\ Upwards(older) /\ Len(older) \in Nat
  BY <1>8 DEF PickedFrom
<1>10. ASSUME NEW k \in 1..Len(older)
       PROVE  /\ older[k].inc = inc /\ older[k].kind = "message"
              /\ older[k].seq \in lo..Len(log) /\ Wanted(log, before, older[k].seq)
  <2>1. PICK i \in 1..z : /\ i \in places
                          /\ older[k].inc = inc /\ older[k].seq = lo + i - 1
                          /\ older[k].kind = log[lo + i - 1]
    BY <1>8 DEF PickedFrom
  <2>2. Wanted(log, before, lo + i - 1) /\ log[lo + i - 1] = "message"
    BY <1>7, <2>1 DEF Wanted
  <2>3. lo + i - 1 \in lo..Len(log)
    BY <1>1, <1>3
  <2> QED
    BY <2>1, <2>2, <2>3
<1>11. ASSUME NEW t \in lo..Len(log), Wanted(log, before, t)
       PROVE  \E k \in 1..Len(older) : older[k].seq = t
  <2>1. PICK i : i = t - lo + 1
    OBVIOUS
  <2>2. i \in 1..z /\ lo + i - 1 = t
    BY <1>1, <1>3, <2>1
  <2> QED
    BY <1>7, <1>8, <1>11, <2>2 DEF PickedFrom
<1>12. PICK first : first = IF Len(older) > PageSize THEN Len(older) - PageSize + 1 ELSE 1
  OBVIOUS
<1>13. /\ page.items = SubSeq(older, first, Len(older))
       /\ page.nextBefore = IF Len(older) > PageSize THEN older[first].seq ELSE Nil
  BY <1>4, <1>5, <1>6, <1>12 DEF Page
<1>14. /\ first \in 1..(Len(older) + 1)
       /\ Len(older) >= 1 => first \in 1..Len(older)
       /\ ~(Len(older) > PageSize) => first = 1
       /\ Len(older) > PageSize => Len(older) >= 1
  BY <1>1, <1>9, <1>12
<1>15. PICK items : items = page.items
  OBVIOUS
<1>16. /\ items \in Seq(Envelopes) /\ Upwards(items)
       /\ Len(items) = Len(older) - first + 1
       /\ \A k \in 1..Len(items) : first + k - 1 \in 1..Len(older) /\ items[k] = older[first + k - 1]
  BY <1>9, <1>13, <1>14, <1>15, Newest
<1>17. ASSUME Len(older) >= 1 PROVE Len(items) >= 1 /\ items[1] = older[first]
  <2>1. first \in 1..Len(older) /\ Len(items) >= 1 /\ 1 \in 1..Len(items) /\ first + 1 - 1 = first
    BY <1>9, <1>14, <1>16, <1>17
  <2>2. items[1] = older[first + 1 - 1]
    BY <1>16, <2>1
  <2> QED
    BY <2>1, <2>2
<1>18. ASSUME NEW k \in 1..Len(items)
       PROVE  /\ items[k].inc = inc /\ items[k].kind = "message"
              /\ items[k].seq \in lo..Len(log) /\ Wanted(log, before, items[k].seq)
  <2>1. PICK x \in 1..Len(older) : items[k] = older[x]
    BY <1>16
  <2> QED
    BY <1>10, <2>1
<1>19. ASSUME NEW t \in lo..Len(log), Wanted(log, before, t)
       PROVE  /\ Len(items) >= 1
              /\ t >= items[1].seq => \E k \in 1..Len(items) : items[k].seq = t
              /\ page.nextBefore = Nil => t >= items[1].seq
  <2>1. PICK x \in 1..Len(older) : older[x].seq = t
    BY <1>11, <1>19
  <2>2. Len(older) >= 1
    BY <1>9, <2>1
  <2>3. Len(items) >= 1 /\ items[1] = older[first] /\ first \in 1..Len(older)
    BY <1>14, <1>17, <2>2
  <2>4. older[first].seq \in Nat /\ t \in Nat
    BY <1>9, <2>1, <2>3, Enveloped
  <2>5. ASSUME t >= items[1].seq PROVE \E k \in 1..Len(items) : items[k].seq = t
    <3>1. ~(x < first)
      <4> SUFFICES ASSUME x < first PROVE FALSE
        OBVIOUS
      <4>1. older[x].seq < older[first].seq
        BY <1>9, <2>3 DEF Upwards
      <4> QED
        BY <2>1, <2>3, <2>4, <2>5, <4>1
    <3>2. PICK k : k = x - first + 1
      OBVIOUS
    <3>3. k \in 1..Len(items) /\ first + k - 1 = x
      BY <1>9, <1>16, <2>3, <3>1, <3>2
    <3>4. items[k] = older[x]
      BY <1>16, <3>3
    <3> QED
      BY <2>1, <3>3, <3>4
  <2>6. ASSUME page.nextBefore = Nil PROVE t >= items[1].seq
    <3>1. ~(Len(older) > PageSize)
      BY <1>13, <2>4, <2>6, NilIsNoNumber
    <3>2. first = 1
      BY <1>14, <3>1
    <3>3. CASE x = 1
      BY <2>1, <2>3, <2>4, <3>2, <3>3
    <3>4. CASE 1 < x
      <4>1. older[first].seq < older[x].seq
        BY <1>9, <2>3, <3>2, <3>4 DEF Upwards
      <4> QED
        BY <2>1, <2>3, <2>4, <4>1
    <3> QED
      BY <1>9, <3>3, <3>4
  <2> QED
    BY <2>3, <2>5, <2>6
<1>20. ASSUME page.nextBefore # Nil
       PROVE  Len(items) >= 1 /\ page.nextBefore = items[1].seq
  <2>1. Len(older) > PageSize /\ page.nextBefore = older[first].seq
    BY <1>13, <1>20
  <2> QED
    BY <1>14, <1>17, <2>1
<1> QED
  BY <1>2, <1>15, <1>16, <1>18, <1>19, <1>20 DEF IsPage

-----------------------------------------------------------------------------
\* The client, between what the host journaled and what is on its way.

Controls == {Reset, Garbled}

Clients ==
  [phase : {"get", "page", "stream", "error"}, epoch : Nat, stateSeq : Nat, stateInc : Nat,
   cursor : Nat, cursorInc : Nat, timeline : Seq(Envelopes), older : Nat \cup {Nil},
   loadingOlder : BOOLEAN]

Requests == [epoch : Nat, before : Nat]

\* The envelopes among the frames.
Flying(frames) == {frames[i] : i \in 1..Len(frames)} \ Controls

\* An envelope of one of the first `top` incarnations.
Genuine(e, ls, top) ==
  e.inc \in 1..top /\ e.seq \in 1..Len(ls[e.inc]) /\ e.kind = ls[e.inc][e.seq]

\* A timeline that is not empty, and of one incarnation.
OfOne(r) == Len(r) >= 1 /\ \A k \in 1..Len(r) : r[k].inc = r[1].inc

\* What the client shows and refers to was journaled.
Known(c, ls, top) ==
  /\ \A k \in 1..Len(c.timeline) : Genuine(c.timeline[k], ls, top)
  /\ c.cursorInc <= top
  /\ c.stateSeq # 0 => c.stateInc \in 1..top /\ c.stateSeq <= Len(ls[c.stateInc])

\* What is on its way was journaled, by one incarnation, that of the cursor and of
\* what is shown or a later one.
Arrives(c, fl, ls, top) ==
  \A e \in fl : /\ Genuine(e, ls, top)
                /\ c.cursorInc <= e.inc
                /\ OfOne(c.timeline) => c.timeline[1].inc <= e.inc
                /\ \A d \in fl : d.inc = e.inc

\* No message is missing from what is shown.
Exact(r, ls) ==
  OfOne(r) => Lists(r, r[1].inc, ls[r[1].inc], r[1].seq, r[Len(r)].seq)

\* Nor between what is shown and the cursor.
Reaches(r, cursor, ls) ==
  /\ r[Len(r)].seq <= cursor /\ cursor <= Len(ls[r[1].inc])
  /\ Quiet(ls[r[1].inc], r[Len(r)].seq + 1, cursor)

\* A stream goes on where the timeline ends, unless the timeline is of an earlier
\* incarnation and nothing more of that will come.
Follows(c, fl, ls, top) ==
  c.phase = "stream" /\ OfOne(c.timeline) =>
    \/ Reaches(c.timeline, c.cursor, ls)
    \/ c.timeline[1].inc < top /\ \A e \in fl : e.inc # c.timeline[1].inc

\* Older messages are asked for once at a time, from the oldest one shown.
Asks(c, qs) ==
  /\ c.older # Nil => Len(c.timeline) >= 1 /\ c.older = c.timeline[1].seq
  /\ \A q \in qs : /\ q.epoch <= c.epoch
                   /\ q.epoch = c.epoch =>
                        c.loadingOlder /\ c.phase \in {"stream", "error"} /\ q.before = c.older

\* The cursor is not ahead of the journal of its own incarnation, and when there is
\* nothing older to ask for, the journal has no message before those shown.
Whole(c, inc, log, oldest) ==
  /\ Len(log) >= 1
  /\ c.phase = "stream" /\ c.cursorInc = inc => c.cursor <= Len(log)
  /\ /\ c.phase = "stream" /\ c.older = Nil /\ c.cursorInc = inc
     /\ \A k \in 1..Len(c.timeline) : c.timeline[k].inc = inc
     => Quiet(log, oldest, IF Len(c.timeline) = 0 THEN c.cursor ELSE c.timeline[1].seq - 1)

\* All about the envelopes of the client and on the wire.
Parts(c, fl, ls, top) ==
  /\ Known(c, ls, top)
  /\ Arrives(c, fl, ls, top)
  /\ Exact(c.timeline, ls)
  /\ Follows(c, fl, ls, top)

Wiring ==
  /\ conn \in {"none", "opening", "attached", "closing"}
  /\ wire \in Seq(Envelopes \cup Controls)
  /\ client.phase # "stream" => conn = "none"
  /\ conn \in {"none", "opening"} => wire = <<>>
  /\ conn = "attached" => sess = "live" /\ \A e \in Flying(wire) : e.inc = Inc

CInv ==
  /\ client \in Clients
  /\ requests \subseteq Requests
  /\ Wiring
  /\ Parts(client, Flying(wire), logs, Incarnation)
  /\ Asks(client, requests)
  /\ sess = "live" => Whole(client, Inc, logs[Inc], OldestSeq(journal))

SInv == IInv /\ CInv

-----------------------------------------------------------------------------
\* How the parts change together.

\* What SMT needs of a client.
LEMMA ClientParts ==
  ASSUME NEW c \in Clients
  PROVE  /\ c.phase \in {"get", "page", "stream", "error"} /\ c.epoch \in Nat
         /\ c.stateSeq \in Nat /\ c.stateInc \in Nat /\ c.cursor \in Nat /\ c.cursorInc \in Nat
         /\ c.older \in Nat \cup {Nil} /\ c.loadingOlder \in BOOLEAN
         /\ c.timeline \in Seq(Envelopes) /\ Len(c.timeline) \in Nat
         /\ \A k \in 1..Len(c.timeline) : c.timeline[k] \in Envelopes
<1>1. /\ c.phase \in {"get", "page", "stream", "error"} /\ c.epoch \in Nat
      /\ c.stateSeq \in Nat /\ c.stateInc \in Nat /\ c.cursor \in Nat /\ c.cursorInc \in Nat
      /\ c.older \in Nat \cup {Nil} /\ c.loadingOlder \in BOOLEAN
      /\ c.timeline \in Seq(Envelopes)
  BY DEF Clients
<1> QED
  BY <1>1, Enveloped

\* Logs that only grew, and more of them.
Grew(ls, ms, top) ==
  \A i \in 1..top : /\ Len(ls[i]) \in Nat /\ Len(ms[i]) \in Nat /\ Len(ls[i]) <= Len(ms[i])
                    /\ \A s \in 1..Len(ls[i]) : ms[i][s] = ls[i][s]

LEMMA GenuineGrows ==
  ASSUME NEW ls, NEW ms, NEW top \in Nat, NEW topp \in Nat, top <= topp, Grew(ls, ms, top),
         NEW e, Genuine(e, ls, top)
  PROVE  Genuine(e, ms, topp)
<1>1. e.inc \in 1..top /\ e.seq \in 1..Len(ls[e.inc]) /\ e.kind = ls[e.inc][e.seq]
  BY DEF Genuine
<1>2. /\ Len(ls[e.inc]) \in Nat /\ Len(ms[e.inc]) \in Nat /\ Len(ls[e.inc]) <= Len(ms[e.inc])
      /\ ms[e.inc][e.seq] = ls[e.inc][e.seq]
  BY <1>1 DEF Grew
<1>3. e.inc \in 1..topp /\ e.seq \in 1..Len(ms[e.inc])
  BY <1>1, <1>2
<1> QED
  BY <1>1, <1>2, <1>3 DEF Genuine

LEMMA PartsGrow ==
  ASSUME NEW c \in Clients, NEW fl, NEW ls, NEW ms, NEW top \in Nat, NEW topp \in Nat,
         top <= topp, Grew(ls, ms, top), Parts(c, fl, ls, top)
  PROVE  Parts(c, fl, ms, topp)
<1> DEFINE r == c.timeline
<1>1. /\ r \in Seq(Envelopes) /\ Len(r) \in Nat
      /\ c.cursorInc \in Nat /\ c.cursor \in Nat /\ c.stateSeq \in Nat /\ c.stateInc \in Nat
  BY ClientParts
<1>2. Known(c, ls, top) /\ Arrives(c, fl, ls, top) /\ Exact(r, ls) /\ Follows(c, fl, ls, top)
  BY DEF Parts
<1> HIDE DEF r
<1>3. Known(c, ms, topp)
  <2>1. \A k \in 1..Len(r) : Genuine(r[k], ms, topp)
    BY <1>2, GenuineGrows DEF Known, r
  <2>2. c.cursorInc <= topp
    BY <1>1, <1>2 DEF Known
  <2>3. ASSUME c.stateSeq # 0 PROVE c.stateInc \in 1..topp /\ c.stateSeq <= Len(ms[c.stateInc])
    <3>1. c.stateInc \in 1..top /\ c.stateSeq <= Len(ls[c.stateInc])
      BY <1>2, <2>3 DEF Known
    <3>2. /\ Len(ls[c.stateInc]) \in Nat /\ Len(ms[c.stateInc]) \in Nat
          /\ Len(ls[c.stateInc]) <= Len(ms[c.stateInc])
      BY <3>1 DEF Grew
    <3> QED
      BY <1>1, <3>1, <3>2
  <2> QED
    BY <2>1, <2>2, <2>3 DEF Known, r
<1>4. Arrives(c, fl, ms, topp)
  BY <1>2, GenuineGrows DEF Arrives
<1>5. ASSUME OfOne(r)
      PROVE  /\ r[1].inc \in 1..top /\ r[1].inc \in Nat
             /\ Len(ls[r[1].inc]) \in Nat /\ Len(ms[r[1].inc]) \in Nat
             /\ Len(ls[r[1].inc]) <= Len(ms[r[1].inc])
             /\ \A s \in 1..Len(ls[r[1].inc]) : ms[r[1].inc][s] = ls[r[1].inc][s]
             /\ r[1].seq \in 1..Len(ls[r[1].inc])
             /\ r[Len(r)].seq \in 1..Len(ls[r[1].inc])
  <2>1. 1 \in 1..Len(r) /\ Len(r) \in 1..Len(r)
    BY <1>1, <1>5 DEF OfOne
  <2>2. Genuine(r[1], ls, top) /\ Genuine(r[Len(r)], ls, top) /\ r[Len(r)].inc = r[1].inc
    BY <1>2, <1>5, <2>1 DEF Known, OfOne, r
  <2> QED
    BY <2>2 DEF Genuine, Grew
<1>6. Exact(r, ms)
  <2> SUFFICES ASSUME OfOne(r)
               PROVE  Lists(r, r[1].inc, ms[r[1].inc], r[1].seq, r[Len(r)].seq)
    BY DEF Exact
  <2>1. Lists(r, r[1].inc, ls[r[1].inc], r[1].seq, r[Len(r)].seq)
    BY <1>2 DEF Exact
  <2>2. \A s \in r[1].seq..r[Len(r)].seq : ms[r[1].inc][s] = ls[r[1].inc][s]
    BY <1>5
  <2> QED
    BY <2>1, <2>2 DEF Lists
<1>7. Follows(c, fl, ms, topp)
  <2> SUFFICES ASSUME c.phase = "stream", OfOne(r)
               PROVE  \/ Reaches(r, c.cursor, ms)
                      \/ r[1].inc < topp /\ \A e \in fl : e.inc # r[1].inc
    BY DEF Follows, r
  <2>1. CASE Reaches(r, c.cursor, ls)
    <3>1. /\ r[Len(r)].seq <= c.cursor /\ c.cursor <= Len(ls[r[1].inc])
          /\ Quiet(ls[r[1].inc], r[Len(r)].seq + 1, c.cursor)
      BY <2>1 DEF Reaches
    <3>2. \A s \in (r[Len(r)].seq + 1)..c.cursor : s \in 1..Len(ls[r[1].inc])
      BY <1>1, <1>5, <3>1
    <3>3. Quiet(ms[r[1].inc], r[Len(r)].seq + 1, c.cursor)
      BY <1>5, <3>1, <3>2 DEF Quiet
    <3>4. c.cursor <= Len(ms[r[1].inc])
      BY <1>1, <1>5, <3>1
    <3> QED
      BY <3>1, <3>3, <3>4 DEF Reaches
  <2>2. CASE r[1].inc < top /\ \A e \in fl : e.inc # r[1].inc
    BY <1>5, <2>2
  <2> QED
    BY <1>2, <2>1, <2>2 DEF Follows, r
<1> QED
  BY <1>3, <1>4, <1>6, <1>7 DEF Parts, r

\* Fewer frames, or new ones of the newest incarnation when all are.
LEMMA PartsRewired ==
  ASSUME NEW c \in Clients, NEW fl, NEW gl, NEW ls, NEW top \in Nat, Parts(c, fl, ls, top),
         \A e \in gl : e \notin fl => Genuine(e, ls, top) /\ e.inc = top,
         (\E e \in gl : e \notin fl) => \A e \in fl : e.inc = top
  PROVE  Parts(c, gl, ls, top)
<1>1. Known(c, ls, top) /\ Arrives(c, fl, ls, top) /\ Exact(c.timeline, ls) /\ Follows(c, fl, ls, top)
  BY DEF Parts
<1>2. c.cursorInc <= top
  BY <1>1 DEF Known
<1>3. ASSUME OfOne(c.timeline) PROVE c.timeline[1].inc \in 1..top
  <2>1. 1 \in 1..Len(c.timeline)
    BY <1>3, ClientParts DEF OfOne
  <2> QED
    BY <1>1, <2>1 DEF Known, Genuine
<1>4. ASSUME NEW d \in gl, NEW e \in gl PROVE d.inc = e.inc
  <2>1. CASE d \in fl /\ e \in fl
    BY <1>1, <2>1 DEF Arrives
  <2>2. CASE d \notin fl \/ e \notin fl
    BY <2>2
  <2> QED
    BY <2>1, <2>2
<1>5. ASSUME NEW e \in gl
      PROVE  /\ Genuine(e, ls, top) /\ c.cursorInc <= e.inc
             /\ OfOne(c.timeline) => c.timeline[1].inc <= e.inc
  <2>1. CASE e \in fl
    BY <1>1, <2>1 DEF Arrives
  <2>2. CASE e \notin fl
    <3>1. Genuine(e, ls, top) /\ e.inc = top
      BY <2>2
    <3>2. OfOne(c.timeline) => c.timeline[1].inc <= top
      BY <1>3
    <3> QED
      BY <1>2, <3>1, <3>2
  <2> QED
    BY <2>1, <2>2
<1>6. Arrives(c, gl, ls, top)
  BY <1>4, <1>5 DEF Arrives
<1>7. Follows(c, gl, ls, top)
  <2> SUFFICES ASSUME c.phase = "stream", OfOne(c.timeline), c.timeline[1].inc < top,
                      \A e \in fl : e.inc # c.timeline[1].inc
               PROVE  \A e \in gl : e.inc # c.timeline[1].inc
    BY <1>1 DEF Follows
  <2>1. c.timeline[1].inc # top
    BY <1>3
  <2> QED
    BY <2>1
<1> QED
  BY <1>1, <1>6, <1>7 DEF Parts

\* A client that shows and refers to the same, and does not start to stream.
LEMMA PartsRest ==
  ASSUME NEW c, NEW d, NEW fl, NEW ls, NEW top, Parts(c, fl, ls, top),
         d.timeline = c.timeline, d.cursor = c.cursor, d.cursorInc = c.cursorInc,
         d.phase = "stream" => c.phase = "stream",
         d.stateSeq # 0 => d.stateInc \in 1..top /\ d.stateSeq <= Len(ls[d.stateInc])
  PROVE  Parts(d, fl, ls, top)
<1>1. Known(d, ls, top)
  BY DEF Parts, Known
<1>2. Arrives(d, fl, ls, top)
  BY DEF Parts, Arrives
<1>3. Exact(d.timeline, ls)
  BY DEF Parts
<1>4. Follows(d, fl, ls, top)
  BY DEF Parts, Follows
<1> QED
  BY <1>1, <1>2, <1>3, <1>4 DEF Parts

-----------------------------------------------------------------------------
\* How a timeline changes.

\* The first envelope is the oldest and the last the newest.
LEMMA Ends ==
  ASSUME NEW r \in Seq(Envelopes), Upwards(r), NEW k \in 1..Len(r)
  PROVE  /\ 1 \in 1..Len(r) /\ Len(r) \in 1..Len(r)
         /\ r[1].seq <= r[k].seq /\ r[k].seq <= r[Len(r)].seq
<1>1. Len(r) \in Nat /\ \A i \in 1..Len(r) : r[i].seq \in Nat
  BY Enveloped
<1>2. 1 \in 1..Len(r) /\ Len(r) \in 1..Len(r)
  BY <1>1
<1>3. r[1].seq <= r[k].seq
  <2>1. CASE k = 1
    BY <1>1, <1>2, <2>1
  <2>2. CASE 1 < k
    <3>1. r[1].seq < r[k].seq
      BY <1>2, <2>2 DEF Upwards
    <3> QED
      BY <1>1, <1>2, <3>1
  <2> QED
    BY <1>1, <2>1, <2>2
<1>4. r[k].seq <= r[Len(r)].seq
  <2>1. CASE k = Len(r)
    BY <1>1, <2>1
  <2>2. CASE k < Len(r)
    <3>1. r[k].seq < r[Len(r)].seq
      BY <1>2, <2>2 DEF Upwards
    <3> QED
      BY <1>1, <1>2, <3>1
  <2> QED
    BY <1>1, <2>1, <2>2
<1> QED
  BY <1>2, <1>3, <1>4

\* The newest page, and the cursor at its end.
LEMMA PartsSeeded ==
  ASSUME NEW ls, NEW top \in Nat, top >= 1, NEW oldest \in Nat, oldest >= 1,
         NEW items, NEW next,
         Len(ls[top]) \in Nat, IsPage(items, next, top, ls[top], oldest, Nil), NEW d \in Clients,
         d.timeline = items,
         Len(items) >= 1 => d.cursor = items[Len(items)].seq,
         d.cursorInc <= top,
         d.stateSeq # 0 => d.stateInc \in 1..top /\ d.stateSeq <= Len(ls[d.stateInc])
  PROVE  Parts(d, {}, ls, top)
<1>1. PICK r : r = items
  OBVIOUS
<1>2. /\ r \in Seq(Envelopes) /\ Upwards(r) /\ Len(r) \in Nat
      /\ \A k \in 1..Len(r) : r[k].seq \in Nat /\ r[k].seq \in oldest..Len(ls[top])
      /\ \A s \in oldest..Len(ls[top]) :
           ls[top][s] = "message" /\ s >= r[1].seq => \E k \in 1..Len(r) : r[k].seq = s
  BY <1>1, Enveloped DEF IsPage, Wanted
<1>3. \A k \in 1..Len(r) : /\ Genuine(r[k], ls, top) /\ r[k].inc = top
                           /\ r[k].kind = "message" /\ ls[top][r[k].seq] = "message"
  <2> SUFFICES ASSUME NEW k \in 1..Len(r)
               PROVE  /\ Genuine(r[k], ls, top) /\ r[k].inc = top
                      /\ r[k].kind = "message" /\ ls[top][r[k].seq] = "message"
    OBVIOUS
  <2>1. /\ r[k].inc = top /\ r[k].kind = "message"
        /\ r[k].seq \in oldest..Len(ls[top])
        /\ ls[top][r[k].seq] = "message"
    BY <1>1 DEF IsPage, Wanted
  <2>2. top \in 1..top /\ r[k].seq \in 1..Len(ls[top])
    BY <2>1
  <2> QED
    BY <2>1, <2>2 DEF Genuine
<1>4. Known(d, ls, top)
  BY <1>1, <1>3 DEF Known
<1>5. Arrives(d, {}, ls, top)
  BY DEF Arrives
<1>6. ASSUME Len(r) >= 1
      PROVE  /\ r[1].inc = top /\ r[1].seq \in oldest..Len(ls[top])
             /\ r[Len(r)].seq \in oldest..Len(ls[top])
             /\ \A k \in 1..Len(r) : r[k].seq \in r[1].seq..r[Len(r)].seq
  <2>1. 1 \in 1..Len(r) /\ Len(r) \in 1..Len(r)
    BY <1>2, <1>6
  <2>2. r \in Seq(Envelopes) /\ Upwards(r)
    BY <1>2
  <2>3. ASSUME NEW k \in 1..Len(r) PROVE r[k].seq \in r[1].seq..r[Len(r)].seq
    <3>1. r[1].seq <= r[k].seq /\ r[k].seq <= r[Len(r)].seq
      BY <2>2, Ends
    <3>2. r[1].seq \in Nat /\ r[k].seq \in Nat /\ r[Len(r)].seq \in Nat
      BY <1>2, <2>1
    <3> QED
      BY <3>1, <3>2
  <2> QED
    BY <1>2, <1>3, <2>1, <2>3
<1>7. Exact(r, ls)
  <2> SUFFICES ASSUME OfOne(r)
               PROVE  Lists(r, r[1].inc, ls[r[1].inc], r[1].seq, r[Len(r)].seq)
    BY DEF Exact
  <2>1. Len(r) >= 1
    BY DEF OfOne
  <2>2. ASSUME NEW s \in r[1].seq..r[Len(r)].seq, ls[top][s] = "message"
        PROVE  \E k \in 1..Len(r) : r[k].seq = s
    <3>1. s \in oldest..Len(ls[top]) /\ s >= r[1].seq
      BY <1>6, <2>1
    <3> QED
      BY <1>2, <2>2, <3>1
  <2> QED
    BY <1>2, <1>3, <1>6, <2>1, <2>2 DEF Lists
<1>8. Follows(d, {}, ls, top)
  <2> SUFFICES ASSUME OfOne(r) PROVE Reaches(r, d.cursor, ls)
    BY <1>1 DEF Follows
  <2>1. Len(r) >= 1 /\ d.cursor = r[Len(r)].seq
    BY <1>1 DEF OfOne
  <2>2. d.cursor \in Nat /\ d.cursor <= Len(ls[r[1].inc]) /\ r[Len(r)].seq <= d.cursor
    BY <1>6, <2>1
  <2>3. Quiet(ls[r[1].inc], r[Len(r)].seq + 1, d.cursor)
    BY <2>1, <2>2 DEF Quiet
  <2> QED
    BY <2>2, <2>3 DEF Reaches
<1> QED
  BY <1>1, <1>4, <1>5, <1>7, <1>8 DEF Parts

\* What following an envelope leaves.
LEMMA FollowedFields ==
  ASSUME NEW c \in Clients, NEW e \in Envelopes
  PROVE  /\ Followed(c, e) \in Clients
         /\ Followed(c, e).cursor = e.seq
         /\ Followed(c, e).timeline = IF e.kind = "message" THEN Append(c.timeline, e)
                                                            ELSE c.timeline
         /\ Followed(c, e).phase = c.phase /\ Followed(c, e).epoch = c.epoch
         /\ Followed(c, e).stateSeq = c.stateSeq /\ Followed(c, e).stateInc = c.stateInc
         /\ Followed(c, e).cursorInc = c.cursorInc /\ Followed(c, e).older = c.older
         /\ Followed(c, e).loadingOlder = c.loadingOlder
<1>1. PICK t : t = IF e.kind = "message" THEN Append(c.timeline, e) ELSE c.timeline
  OBVIOUS
<1>2. c.timeline \in Seq(Envelopes)
  BY ClientParts
<1>3. t \in Seq(Envelopes)
  BY <1>1, <1>2
<1>4. PICK n : n = e.seq
  OBVIOUS
<1>5. n \in Nat
  BY <1>4 DEF Envelopes
<1>6. Followed(c, e) = [c EXCEPT !.cursor = n, !.timeline = t]
  BY <1>1, <1>4 DEF Followed, Clients
<1> QED
  BY <1>1, <1>3, <1>4, <1>5, <1>6 DEF Clients

\* The next envelope is followed: it comes right after what was shown and passed.
LEMMA PartsFollowed ==
  ASSUME NEW c \in Clients, NEW fl, NEW gl \in SUBSET fl, NEW ls, NEW top \in Nat,
         \A i \in 1..top : Len(ls[i]) \in Nat,
         Parts(c, fl, ls, top), c.phase = "stream",
         NEW e \in Envelopes, e \in fl, e.seq = c.cursor + 1,
         NEW d, d = Followed(c, e)
  PROVE  Parts(d, gl, ls, top)
<1>1. PICK r : r = c.timeline
  OBVIOUS
<1>2. PICK t : t = d.timeline
  OBVIOUS
<1>3. /\ t = (IF e.kind = "message" THEN Append(r, e) ELSE r)
      /\ d.cursor = e.seq /\ d.phase = c.phase /\ d.cursorInc = c.cursorInc
      /\ d.stateSeq = c.stateSeq /\ d.stateInc = c.stateInc
  BY <1>1, <1>2, FollowedFields
<1>4. /\ r \in Seq(Envelopes) /\ Len(r) \in Nat /\ c.cursor \in Nat /\ c.cursorInc \in Nat
      /\ e.inc \in Nat /\ e.seq \in Nat
      /\ \A k \in 1..Len(r) : r[k].seq \in Nat /\ r[k].inc \in Nat
  <2>1. r \in Seq(Envelopes) /\ c.cursor \in Nat /\ c.cursorInc \in Nat
    BY <1>1, ClientParts
  <2>2. e.inc \in Nat /\ e.seq \in Nat
    BY DEF Envelopes
  <2> QED
    BY <2>1, <2>2, Enveloped
<1>5. Known(c, ls, top) /\ Arrives(c, fl, ls, top) /\ Exact(r, ls) /\ Follows(c, fl, ls, top)
  BY <1>1 DEF Parts
<1>6. /\ Genuine(e, ls, top) /\ e.inc \in 1..top /\ e.seq \in 1..Len(ls[e.inc])
      /\ e.kind = ls[e.inc][e.seq] /\ c.cursorInc <= e.inc
      /\ OfOne(r) => r[1].inc <= e.inc
      /\ \A a \in fl : a.inc = e.inc
  BY <1>1, <1>5 DEF Arrives, Genuine
<1>7. CASE e.kind # "message"
  <2>1. t = r
    BY <1>3, <1>7
  <2>2. Known(d, ls, top) /\ Arrives(d, gl, ls, top) /\ Exact(t, ls)
    BY <1>1, <1>2, <1>3, <1>5, <2>1 DEF Known, Arrives
  <2>3. Follows(d, gl, ls, top)
    <3> SUFFICES ASSUME OfOne(r)
                 PROVE  \/ Reaches(r, e.seq, ls)
                        \/ r[1].inc < top /\ \A a \in gl : a.inc # r[1].inc
      BY <1>1, <1>2, <1>3, <2>1 DEF Follows
    <3>1. CASE r[1].inc = e.inc
      <4>1. Reaches(r, c.cursor, ls)
        BY <1>1, <1>5, <3>1 DEF Follows
      <4>2. /\ r[Len(r)].seq <= c.cursor
            /\ Quiet(ls[e.inc], r[Len(r)].seq + 1, c.cursor)
        BY <3>1, <4>1 DEF Reaches
      <4>3. r[Len(r)].seq \in Nat
        BY <1>4 DEF OfOne
      <4>4. Quiet(ls[e.inc], r[Len(r)].seq + 1, e.seq)
        <5> SUFFICES ASSUME NEW s \in (r[Len(r)].seq + 1)..e.seq PROVE ls[e.inc][s] # "message"
          BY DEF Quiet
        <5>1. s = e.seq \/ s \in (r[Len(r)].seq + 1)..c.cursor
          BY <1>4, <4>3
        <5> QED
          BY <1>6, <1>7, <4>2, <5>1 DEF Quiet
      <4>5. r[Len(r)].seq <= e.seq /\ e.seq <= Len(ls[e.inc])
        BY <1>4, <1>6, <4>2, <4>3
      <4> QED
        BY <3>1, <4>4, <4>5 DEF Reaches
    <3>2. CASE r[1].inc # e.inc
      <4>1. r[1].inc \in Nat
        BY <1>4 DEF OfOne
      <4>2. r[1].inc < top
        BY <1>4, <1>6, <3>2, <4>1
      <4> QED
        BY <1>6, <3>2, <4>2
    <3> QED
      BY <3>1, <3>2
  <2> QED
    BY <1>2, <2>2, <2>3 DEF Parts
<1>8. CASE e.kind = "message"
  <2>1. /\ t = Append(r, e) /\ t \in Seq(Envelopes) /\ Len(t) = Len(r) + 1 /\ t[Len(t)] = e
        /\ \A k \in 1..Len(r) : t[k] = r[k]
        /\ \A k \in 1..Len(t) : k \in 1..Len(r) \/ k = Len(t)
    BY <1>3, <1>4, <1>8
  <2>2. ASSUME OfOne(t)
        PROVE  /\ t[1].inc = e.inc
               /\ Len(r) >= 1 => /\ OfOne(r) /\ t[1] = r[1] /\ r[1].inc = e.inc
                                 /\ Reaches(r, c.cursor, ls)
               /\ Len(r) = 0 => t[1] = e
    <3>1. Len(t) \in 1..Len(t) /\ t[1].inc = e.inc
      BY <1>4, <2>1, <2>2 DEF OfOne
    <3>2. ASSUME Len(r) >= 1
          PROVE  /\ OfOne(r) /\ t[1] = r[1] /\ r[1].inc = e.inc
                 /\ Reaches(r, c.cursor, ls)
      <4>1. 1 \in 1..Len(r) /\ t[1] = r[1]
        BY <1>4, <2>1, <3>2
      <4>2. \A k \in 1..Len(r) : k \in 1..Len(t) /\ r[k].inc = e.inc
        <5>1. \A k \in 1..Len(r) : k \in 1..Len(t)
          BY <1>4, <2>1
        <5> QED
          BY <2>1, <2>2, <3>1, <5>1 DEF OfOne
      <4>3. OfOne(r)
        BY <3>2, <4>1, <4>2 DEF OfOne
      <4> QED
        BY <1>1, <1>5, <4>1, <4>2, <4>3 DEF Follows
    <3> QED
      BY <2>1, <3>1, <3>2
  <2>3. Known(d, ls, top)
    <3>1. \A k \in 1..Len(t) : Genuine(t[k], ls, top)
      BY <1>1, <1>5, <1>6, <2>1 DEF Known
    <3> QED
      BY <1>2, <1>3, <1>5, <3>1 DEF Known
  <2>4. Arrives(d, gl, ls, top)
    <3>1. OfOne(t) => t[1].inc <= e.inc
      BY <1>4, <2>2
    <3> QED
      BY <1>2, <1>3, <1>5, <1>6, <3>1 DEF Arrives
  <2>5. Exact(t, ls)
    <3> SUFFICES ASSUME OfOne(t)
                 PROVE  Lists(t, e.inc, ls[e.inc], t[1].seq, e.seq)
      BY <2>1, <2>2 DEF Exact
    <3>1. CASE Len(r) = 0
      <4>1. Len(t) = 1 /\ t[1] = e
        BY <2>1, <2>2, <3>1
      <4>2. \A k \in 1..Len(t) : t[k] = e
        BY <4>1
      <4>3. Upwards(t)
        BY <4>1 DEF Upwards
      <4>4. ls[e.inc][e.seq] = "message" /\ t[1].seq = e.seq /\ e.seq \in e.seq..e.seq
        BY <1>4, <1>6, <1>8, <4>1
      <4>5. \A s \in e.seq..e.seq : 1 \in 1..Len(t) /\ t[1].seq = s
        BY <1>4, <4>1
      <4> QED
        BY <1>8, <4>2, <4>3, <4>4, <4>5 DEF Lists
    <3>2. CASE Len(r) >= 1
      <4>1. /\ OfOne(r) /\ t[1] = r[1] /\ r[1].inc = e.inc
            /\ r[Len(r)].seq <= c.cursor
            /\ Quiet(ls[e.inc], r[Len(r)].seq + 1, c.cursor)
        BY <2>2, <3>2 DEF Reaches
      <4>2. Lists(r, e.inc, ls[e.inc], r[1].seq, r[Len(r)].seq)
        BY <1>5, <4>1 DEF Exact
      <4>3. /\ r[1].seq \in Nat /\ r[Len(r)].seq \in Nat
            /\ \A k \in 1..Len(r) : r[k].seq \in Nat /\ r[1].seq <= r[k].seq /\ r[k].seq < e.seq
        BY <1>4, <3>2, <4>1, <4>2 DEF Lists
      <4>4. Upwards(t)
        <5> SUFFICES ASSUME NEW k \in 1..Len(t), NEW l \in 1..Len(t), k < l
                     PROVE  t[k].seq < t[l].seq
          BY DEF Upwards
        <5>1. k \in 1..Len(r)
          BY <1>4, <2>1
        <5>2. CASE l = Len(t)
          BY <2>1, <4>3, <5>1, <5>2
        <5>3. CASE l \in 1..Len(r)
          <6>1. r[k].seq < r[l].seq
            BY <4>2, <5>1, <5>3 DEF Lists, Upwards
          <6> QED
            BY <2>1, <5>1, <5>3, <6>1
        <5> QED
          BY <2>1, <5>2, <5>3
      <4>5. ASSUME NEW k \in 1..Len(t)
            PROVE  /\ t[k].inc = e.inc /\ t[k].seq \in r[1].seq..e.seq
                   /\ t[k].kind = "message" /\ ls[e.inc][t[k].seq] = "message"
        <5>1. CASE k \in 1..Len(r)
          <6>1. r[k].inc = e.inc /\ r[k].kind = "message" /\ ls[e.inc][r[k].seq] = "message"
            BY <4>2, <5>1 DEF Lists
          <6>2. r[k].seq \in r[1].seq..e.seq
            BY <1>4, <4>3, <5>1
          <6> QED
            BY <2>1, <5>1, <6>1, <6>2
        <5>2. CASE k = Len(t)
          <6>1. e.seq \in r[1].seq..e.seq
            BY <1>4, <3>2, <4>3
          <6> QED
            BY <1>6, <1>8, <2>1, <5>2, <6>1
        <5> QED
          BY <2>1, <5>1, <5>2
      <4>6. ASSUME NEW s \in r[1].seq..e.seq, ls[e.inc][s] = "message"
            PROVE  \E k \in 1..Len(t) : t[k].seq = s
        <5>1. CASE s <= r[Len(r)].seq
          <6>1. s \in r[1].seq..r[Len(r)].seq
            BY <1>4, <4>3, <5>1
          <6>2. PICK k \in 1..Len(r) : r[k].seq = s
            BY <4>2, <4>6, <6>1 DEF Lists
          <6>3. k \in 1..Len(t)
            BY <1>4, <2>1
          <6> QED
            BY <2>1, <6>2, <6>3
        <5>2. CASE s = e.seq
          <6>1. Len(t) \in 1..Len(t)
            BY <1>4, <2>1
          <6> QED
            BY <2>1, <5>2, <6>1
        <5>3. CASE s > r[Len(r)].seq /\ s # e.seq
          <6>1. s \in (r[Len(r)].seq + 1)..c.cursor
            BY <1>4, <4>3, <5>3
          <6> QED
            BY <4>1, <4>6, <6>1 DEF Quiet
        <5> QED
          BY <1>4, <4>3, <5>1, <5>2, <5>3
      <4> QED
        BY <4>1, <4>4, <4>5, <4>6 DEF Lists
    <3> QED
      BY <1>4, <3>1, <3>2
  <2>6. Follows(d, gl, ls, top)
    <3> SUFFICES ASSUME OfOne(t) PROVE Reaches(t, e.seq, ls)
      BY <1>2, <1>3 DEF Follows
    <3>1. t[1].inc = e.inc /\ t[Len(t)].seq = e.seq /\ e.seq <= Len(ls[e.inc])
      BY <1>4, <1>6, <2>1, <2>2
    <3>2. Quiet(ls[e.inc], e.seq + 1, e.seq)
      BY <1>4 DEF Quiet
    <3> QED
      BY <1>4, <3>1, <3>2 DEF Reaches
  <2> QED
    BY <1>2, <2>3, <2>4, <2>5, <2>6 DEF Parts
<1> QED
  BY <1>7, <1>8

\* One sequence after another.
AfterOneAnother(a, b, t) ==
  /\ t \in Seq(Envelopes) /\ Len(t) = Len(a) + Len(b)
  /\ \A k \in 1..Len(a) : k \in 1..Len(t) /\ t[k] = a[k]
  /\ \A k \in 1..Len(b) : Len(a) + k \in 1..Len(t) /\ t[Len(a) + k] = b[k]
  /\ \A k \in 1..Len(t) : k \in 1..Len(a) \/ \E l \in 1..Len(b) : k = Len(a) + l

LEMMA Joined ==
  ASSUME NEW a \in Seq(Envelopes), NEW b \in Seq(Envelopes)
  PROVE  AfterOneAnother(a, b, a \o b)
<1>1. PICK t : t = a \o b
  OBVIOUS
<1>2. Len(a) \in Nat /\ Len(b) \in Nat /\ t \in Seq(Envelopes) /\ Len(t) = Len(a) + Len(b)
  BY <1>1
<1>3. \A k \in 1..Len(a) : k \in 1..Len(t) /\ t[k] = a[k]
  BY <1>1, <1>2
<1>4. ASSUME NEW k \in 1..Len(b)
      PROVE  Len(a) + k \in 1..Len(t) /\ t[Len(a) + k] = b[k]
  BY <1>1, <1>2
<1>5. ASSUME NEW k \in 1..Len(t), k \notin 1..Len(a)
      PROVE  \E l \in 1..Len(b) : k = Len(a) + l
  <2>1. PICK l : l = k - Len(a)
    OBVIOUS
  <2>2. l \in 1..Len(b) /\ k = Len(a) + l
    BY <1>2, <1>5, <2>1
  <2> QED
    BY <2>2
<1> QED
  BY <1>1, <1>2, <1>3, <1>4, <1>5 DEF AfterOneAnother

\* A page of older messages, put before what is shown.
LEMMA PartsPrepended ==
  ASSUME NEW c \in Clients, NEW fl, NEW ls, NEW top \in Nat, top >= 1,
         NEW oldest \in Nat, oldest >= 1, NEW items, NEW next, Len(ls[top]) \in Nat,
         Parts(c, fl, ls, top), Len(c.timeline) >= 1,
         IsPage(items, next, top, ls[top], oldest, c.timeline[1].seq), NEW d,
         d.timeline = items \o c.timeline, d.cursor = c.cursor, d.cursorInc = c.cursorInc,
         d.phase = c.phase, d.stateSeq = c.stateSeq, d.stateInc = c.stateInc
  PROVE  Parts(d, fl, ls, top)
<1>1. PICK r, log : r = c.timeline /\ log = ls[top]
  OBVIOUS
<1>2. PICK t : t = d.timeline
  OBVIOUS
<1>3. /\ r \in Seq(Envelopes) /\ Len(r) \in Nat /\ Len(r) >= 1 /\ Len(log) \in Nat
      /\ 1 \in 1..Len(r) /\ Len(r) \in 1..Len(r)
      /\ \A k \in 1..Len(r) : r[k].seq \in Nat /\ r[k].inc \in Nat
  <2>1. r \in Seq(Envelopes)
    BY <1>1, ClientParts
  <2> QED
    BY <1>1, <2>1, Enveloped
<1>4. r[1].seq \in Nat /\ r[1].seq # Nil
  BY <1>3, NilIsNoNumber
<1>5. /\ items \in Seq(Envelopes) /\ Upwards(items) /\ Len(items) \in Nat
      /\ \A k \in 1..Len(items) :
           /\ items[k].inc = top /\ items[k].kind = "message"
           /\ items[k].seq \in oldest..Len(log)
           /\ log[items[k].seq] = "message" /\ items[k].seq < r[1].seq
      /\ \A s \in oldest..Len(log) :
           log[s] = "message" /\ s < r[1].seq /\ s >= items[1].seq
             => \E k \in 1..Len(items) : items[k].seq = s
  BY <1>1, <1>4, Enveloped DEF IsPage, Wanted
<1>6. Known(c, ls, top) /\ Arrives(c, fl, ls, top) /\ Exact(r, ls) /\ Follows(c, fl, ls, top)
  BY <1>1 DEF Parts
<1>7. /\ t \in Seq(Envelopes) /\ Len(t) = Len(items) + Len(r)
      /\ \A k \in 1..Len(items) : k \in 1..Len(t) /\ t[k] = items[k]
      /\ \A k \in 1..Len(r) : Len(items) + k \in 1..Len(t) /\ t[Len(items) + k] = r[k]
      /\ \A k \in 1..Len(t) :
           k \in 1..Len(items) \/ \E l \in 1..Len(r) : k = Len(items) + l
  <2>1. t = items \o r /\ items \in Seq(Envelopes) /\ r \in Seq(Envelopes)
    BY <1>1, <1>2, <1>3, <1>5
  <2>2. AfterOneAnother(items, r, t)
    BY <2>1, Joined
  <2> QED
    BY <2>2 DEF AfterOneAnother
<1>8. t[Len(t)] = r[Len(r)]
  BY <1>3, <1>7
<1>9. CASE Len(items) = 0
  <2>1. t = r
    BY <1>1, <1>2, <1>3, <1>5, <1>9
  <2> QED
    BY <1>1, <1>2, <1>6, <2>1, PartsRest DEF Known
<1>10. CASE Len(items) >= 1
  <2>1. 1 \in 1..Len(items) /\ t[1] = items[1] /\ t[1].inc = top /\ items[1].seq \in oldest..Len(log)
    BY <1>5, <1>7, <1>10
  <2>2. ASSUME OfOne(t) PROVE OfOne(r) /\ r[1].inc = top
    <3>1. \A k \in 1..Len(t) : t[k].inc = top
      BY <2>1, <2>2 DEF OfOne
    <3>2. \A k \in 1..Len(r) : r[k].inc = top
      BY <1>7, <3>1
    <3> QED
      BY <1>3, <3>2 DEF OfOne
  <2>3. Known(d, ls, top)
    <3>1. ASSUME NEW k \in 1..Len(items) PROVE Genuine(items[k], ls, top)
      <4>1. items[k].seq \in 1..Len(log) /\ top \in 1..top
        BY <1>5
      <4> QED
        BY <1>1, <1>5, <4>1 DEF Genuine
    <3>2. \A k \in 1..Len(r) : Genuine(r[k], ls, top)
      BY <1>1, <1>6 DEF Known
    <3>3. \A k \in 1..Len(t) : Genuine(t[k], ls, top)
      BY <1>7, <3>1, <3>2
    <3> QED
      BY <1>2, <1>6, <3>3 DEF Known
  <2>4. Arrives(d, fl, ls, top)
    <3>1. OfOne(t) => OfOne(r) /\ t[1].inc = r[1].inc
      BY <2>1, <2>2
    <3> QED
      BY <1>1, <1>2, <1>6, <3>1 DEF Arrives
  <2>5. Exact(t, ls)
    <3> SUFFICES ASSUME OfOne(t)
                 PROVE  Lists(t, top, log, items[1].seq, r[Len(r)].seq)
      BY <1>1, <1>8, <2>1 DEF Exact
    <3>1. r[1].inc = top /\ Lists(r, top, log, r[1].seq, r[Len(r)].seq)
      BY <1>1, <1>6, <2>2 DEF Exact
    <3>2. /\ \A k \in 1..Len(r) : r[1].seq <= r[k].seq /\ r[k].seq <= r[Len(r)].seq
          /\ \A k \in 1..Len(items) : items[1].seq <= items[k].seq
      BY <1>3, <1>5, <3>1, Ends DEF Lists
    <3>3. items[1].seq \in Nat /\ r[Len(r)].seq \in Nat /\ r[1].seq <= r[Len(r)].seq
      BY <1>3, <2>1, <3>2
    <3>4. r[1].seq <= Len(log)
      BY <1>1, <1>3, <1>6, <3>1 DEF Known, Genuine
    <3>5. Upwards(t)
      <4> SUFFICES ASSUME NEW k \in 1..Len(t), NEW l \in 1..Len(t), k < l
                   PROVE  t[k].seq < t[l].seq
        BY DEF Upwards
      <4>1. CASE k \in 1..Len(items) /\ l \in 1..Len(items)
        BY <1>5, <1>7, <4>1 DEF Upwards
      <4>2. CASE k \in 1..Len(items) /\ l \notin 1..Len(items)
        <5>1. PICK y \in 1..Len(r) : l = Len(items) + y
          BY <1>7, <4>2
        <5>2. t[l] = r[y] /\ t[k] = items[k]
          BY <1>7, <4>2, <5>1
        <5>3. items[k].seq < r[1].seq /\ r[1].seq <= r[y].seq /\ items[k].seq \in Nat
          BY <1>5, <3>2, <4>2
        <5>4. r[1].seq \in Nat /\ r[y].seq \in Nat
          BY <1>3
        <5>5. items[k].seq < r[y].seq
          BY <5>3, <5>4
        <5> QED
          BY <5>2, <5>5
      <4>3. CASE k \notin 1..Len(items)
        <5>1. PICK x \in 1..Len(r) : k = Len(items) + x
          BY <1>7, <4>3
        <5>2. l \notin 1..Len(items)
          BY <1>5, <4>3
        <5>3. PICK y \in 1..Len(r) : l = Len(items) + y
          BY <1>7, <5>2
        <5>4. t[k] = r[x] /\ t[l] = r[y] /\ x < y
          BY <1>5, <1>7, <5>1, <5>3
        <5> QED
          BY <3>1, <5>4 DEF Lists, Upwards
      <4> QED
        BY <4>1, <4>2, <4>3
    <3>6. ASSUME NEW k \in 1..Len(t)
          PROVE  /\ t[k].inc = top /\ t[k].seq \in items[1].seq..r[Len(r)].seq
                 /\ t[k].kind = "message" /\ log[t[k].seq] = "message"
      <4>1. CASE k \in 1..Len(items)
        <5>1. /\ items[k].inc = top /\ items[k].kind = "message"
              /\ items[k].seq \in Nat /\ log[items[k].seq] = "message"
              /\ items[k].seq < r[1].seq /\ items[1].seq <= items[k].seq
          BY <1>5, <3>2, <4>1
        <5>2. items[k].seq \in items[1].seq..r[Len(r)].seq
          BY <1>4, <3>3, <5>1
        <5> QED
          BY <1>7, <4>1, <5>1, <5>2
      <4>2. CASE k \notin 1..Len(items)
        <5>1. PICK x \in 1..Len(r) : k = Len(items) + x
          BY <1>7, <4>2
        <5>2. t[k] = r[x]
          BY <1>7, <5>1
        <5>3. r[x].inc = top /\ r[x].kind = "message" /\ log[r[x].seq] = "message"
          BY <3>1 DEF Lists
        <5>4. r[x].seq \in Nat /\ r[1].seq <= r[x].seq /\ r[x].seq <= r[Len(r)].seq
          BY <1>3, <3>2
        <5>6. items[1].seq < r[1].seq
          BY <1>5, <2>1
        <5>5. r[x].seq \in items[1].seq..r[Len(r)].seq
          BY <1>4, <3>3, <5>4, <5>6
        <5> QED
          BY <5>2, <5>3, <5>5
      <4> QED
        BY <4>1, <4>2
    <3>7. ASSUME NEW s \in items[1].seq..r[Len(r)].seq, log[s] = "message"
          PROVE  \E k \in 1..Len(t) : t[k].seq = s
      <4>1. CASE s < r[1].seq
        <5>1. s \in oldest..Len(log) /\ s >= items[1].seq
          BY <1>3, <1>4, <2>1, <3>3, <3>4, <4>1
        <5>2. PICK k \in 1..Len(items) : items[k].seq = s
          BY <1>5, <3>7, <4>1, <5>1
        <5> QED
          BY <1>7, <5>2
      <4>2. CASE s >= r[1].seq
        <5>1. s \in r[1].seq..r[Len(r)].seq
          BY <1>4, <3>3, <4>2
        <5>2. PICK k \in 1..Len(r) : r[k].seq = s
          BY <3>1, <3>7, <5>1 DEF Lists
        <5> QED
          BY <1>7, <5>2
      <4> QED
        BY <1>4, <3>3, <4>1, <4>2
    <3> QED
      BY <3>5, <3>6, <3>7 DEF Lists
  <2>6. Follows(d, fl, ls, top)
    <3> SUFFICES ASSUME d.phase = "stream", OfOne(t)
                 PROVE  \/ Reaches(t, c.cursor, ls)
                        \/ t[1].inc < top /\ \A e \in fl : e.inc # t[1].inc
      BY <1>2 DEF Follows
    <3>1. \/ Reaches(r, c.cursor, ls)
          \/ r[1].inc < top /\ \A e \in fl : e.inc # r[1].inc
      BY <1>1, <1>6, <2>2 DEF Follows
    <3>2. t[1].inc = r[1].inc
      BY <2>1, <2>2
    <3> QED
      BY <1>8, <3>1, <3>2 DEF Reaches
  <2> QED
    BY <1>2, <2>3, <2>4, <2>5, <2>6 DEF Parts
<1> QED
  BY <1>5, <1>9, <1>10

-----------------------------------------------------------------------------
\* When there is nothing older to ask for.

LEMMA WholeSeeded ==
  ASSUME NEW d \in Clients, NEW inc \in Nat, NEW log, Len(log) \in Nat, Len(log) >= 1,
         NEW oldest \in Nat, NEW items, NEW next, IsPage(items, next, inc, log, oldest, Nil),
         d.timeline = items, d.older = next,
         Len(items) >= 1 => d.cursor = items[Len(items)].seq,
         Len(items) = 0 /\ d.cursorInc = inc => d.cursor <= Len(log)
  PROVE  Whole(d, inc, log, oldest)
<1>1. /\ items \in Seq(Envelopes) /\ Len(items) \in Nat
      /\ \A k \in 1..Len(items) : items[k].seq \in oldest..Len(log)
      /\ \A s \in oldest..Len(log) : log[s] = "message" =>
           Len(items) >= 1 /\ (next = Nil => s >= items[1].seq)
  BY Enveloped DEF IsPage, Wanted
<1>2. d.cursor \in Nat
  BY ClientParts
<1>3. ASSUME d.cursorInc = inc PROVE d.cursor <= Len(log)
  <2>1. CASE Len(items) = 0
    BY <1>3, <2>1
  <2>2. CASE Len(items) >= 1
    <3>1. Len(items) \in 1..Len(items)
      BY <1>1, <2>2
    <3>2. items[Len(items)].seq \in oldest..Len(log)
      BY <1>1, <3>1
    <3> QED
      BY <2>2, <3>2
  <2> QED
    BY <1>1, <2>1, <2>2
<1>4. ASSUME d.older = Nil, d.cursorInc = inc
      PROVE  Quiet(log, oldest, IF Len(items) = 0 THEN d.cursor ELSE items[1].seq - 1)
  <2>1. CASE Len(items) = 0
    <3>1. \A s \in oldest..d.cursor : s \in oldest..Len(log)
      BY <1>2, <1>3, <1>4
    <3> QED
      BY <1>1, <2>1, <3>1 DEF Quiet
  <2>2. CASE Len(items) >= 1
    <3>1. 1 \in 1..Len(items)
      BY <1>1, <2>2
    <3>2. items[1].seq \in oldest..Len(log)
      BY <1>1, <3>1
    <3>3. \A s \in oldest..(items[1].seq - 1) : s \in oldest..Len(log) /\ ~(s >= items[1].seq)
      BY <3>2
    <3>4. Quiet(log, oldest, items[1].seq - 1)
      BY <1>1, <1>4, <3>3 DEF Quiet
    <3> QED
      BY <1>1, <2>2, <3>4
  <2> QED
    BY <1>1, <2>1, <2>2
<1> QED
  BY <1>3, <1>4 DEF Whole

LEMMA WholeFollowed ==
  ASSUME NEW c \in Clients, NEW inc \in Nat, NEW log, NEW oldest \in Nat,
         Whole(c, inc, log, oldest), c.phase = "stream", NEW e \in Envelopes,
         e.seq = c.cursor + 1, c.cursorInc <= e.inc, e.inc <= inc,
         e.inc = inc => e.seq <= Len(log) /\ e.kind = log[e.seq],
         NEW d, d = Followed(c, e)
  PROVE  Whole(d, inc, log, oldest)
<1>1. PICK r : r = c.timeline
  OBVIOUS
<1>2. PICK t : t = d.timeline
  OBVIOUS
<1>3. /\ t = (IF e.kind = "message" THEN Append(r, e) ELSE r)
      /\ d.cursor = e.seq /\ d.phase = c.phase /\ d.cursorInc = c.cursorInc
      /\ d.older = c.older
  BY <1>1, <1>2, FollowedFields
<1>4. /\ r \in Seq(Envelopes) /\ Len(r) \in Nat /\ c.cursor \in Nat /\ c.cursorInc \in Nat
      /\ e.inc \in Nat /\ e.seq \in Nat
  <2>1. r \in Seq(Envelopes) /\ c.cursor \in Nat /\ c.cursorInc \in Nat
    BY <1>1, ClientParts
  <2>2. e.inc \in Nat /\ e.seq \in Nat
    BY DEF Envelopes
  <2> QED
    BY <2>1, <2>2, Enveloped
<1>5. Len(log) >= 1
  BY DEF Whole
<1>6. ASSUME c.cursorInc = inc
      PROVE  e.seq <= Len(log) /\ e.kind = log[e.seq]
  <2>1. e.inc = inc
    BY <1>4, <1>6
  <2> QED
    BY <2>1
<1>7. ASSUME d.older = Nil, d.cursorInc = inc, \A k \in 1..Len(t) : t[k].inc = inc
      PROVE  Quiet(log, oldest, IF Len(t) = 0 THEN d.cursor ELSE t[1].seq - 1)
  <2>1. CASE Len(r) = 0
    <3>1. \A k \in 1..Len(r) : r[k].inc = inc
      BY <2>1
    <3>2. Quiet(log, oldest, c.cursor)
      BY <1>1, <1>3, <1>7, <2>1, <3>1 DEF Whole
    <3>3. CASE e.kind = "message"
      <4>1. t = Append(r, e)
        BY <1>3, <3>3
      <4>2. Len(t) = 1 /\ t[1] = e
        BY <1>4, <2>1, <4>1
      <4>3. t[1].seq - 1 = c.cursor
        BY <1>4, <4>2
      <4> QED
        BY <3>2, <4>2, <4>3
    <3>4. CASE e.kind # "message"
      <4>1. log[e.seq] # "message" /\ \A s \in oldest..e.seq : s = e.seq \/ s \in oldest..c.cursor
        BY <1>3, <1>4, <1>6, <1>7, <3>4
      <4>2. Quiet(log, oldest, e.seq)
        BY <3>2, <4>1 DEF Quiet
      <4> QED
        BY <1>3, <2>1, <3>4, <4>2
    <3> QED
      BY <3>3, <3>4
  <2>2. CASE Len(r) >= 1
    <3>1. Len(t) >= 1 /\ \A k \in 1..Len(r) : k \in 1..Len(t) /\ t[k] = r[k]
      <4>1. CASE e.kind = "message"
        <5>1. t = Append(r, e)
          BY <1>3, <4>1
        <5> QED
          BY <1>4, <2>2, <5>1
      <4>2. CASE e.kind # "message"
        BY <1>3, <2>2, <4>2
      <4> QED
        BY <4>1, <4>2
    <3>2. 1 \in 1..Len(r) /\ t[1] = r[1] /\ \A k \in 1..Len(r) : r[k].inc = inc
      BY <1>4, <1>7, <2>2, <3>1
    <3>3. Quiet(log, oldest, r[1].seq - 1)
      <4>1. Len(r) # 0
        BY <2>2
      <4> QED
        BY <1>1, <1>3, <1>7, <3>2, <4>1 DEF Whole
    <3>4. Len(t) # 0
      BY <3>1
    <3> QED
      BY <3>2, <3>3, <3>4
  <2> QED
    BY <1>4, <2>1, <2>2
<1> QED
  BY <1>2, <1>3, <1>5, <1>6, <1>7 DEF Whole

LEMMA WholePrepended ==
  ASSUME NEW c \in Clients, NEW inc \in Nat, NEW log, Len(log) \in Nat, NEW oldest \in Nat,
         Whole(c, inc, log, oldest), Len(c.timeline) >= 1,
         c.timeline[1].inc = inc => c.timeline[1].seq <= Len(log),
         NEW items, NEW next,
         IsPage(items, next, inc, log, oldest, c.timeline[1].seq),
         NEW d, d.timeline = items \o c.timeline, d.older = next,
         d.cursor = c.cursor, d.cursorInc = c.cursorInc, d.phase = c.phase
  PROVE  Whole(d, inc, log, oldest)
<1>1. PICK r : r = c.timeline
  OBVIOUS
<1>2. PICK t : t = d.timeline
  OBVIOUS
<1>3. r \in Seq(Envelopes) /\ Len(r) \in Nat /\ Len(r) >= 1 /\ 1 \in 1..Len(r) /\ r[1].seq \in Nat
  <2>1. r \in Seq(Envelopes)
    BY <1>1, ClientParts
  <2> QED
    BY <1>1, <2>1, Enveloped
<1>4. /\ items \in Seq(Envelopes) /\ Len(items) \in Nat
      /\ \A k \in 1..Len(items) : items[k].seq \in oldest..Len(log) /\ items[k].seq < r[1].seq
      /\ \A s \in oldest..Len(log) : log[s] = "message" /\ s < r[1].seq =>
           Len(items) >= 1 /\ (next = Nil => s >= items[1].seq)
  <2>1. r[1].seq # Nil
    BY <1>3, NilIsNoNumber
  <2> QED
    BY <1>1, <2>1, Enveloped DEF IsPage, Wanted
<1>5. AfterOneAnother(items, r, t)
  <2>1. t = items \o r
    BY <1>1, <1>2
  <2> QED
    BY <1>3, <1>4, <2>1, Joined
<1>6. ASSUME d.older = Nil, \A k \in 1..Len(t) : t[k].inc = inc
      PROVE  Quiet(log, oldest, IF Len(t) = 0 THEN d.cursor ELSE t[1].seq - 1)
  <2>1. Len(t) # 0 /\ r[1].inc = inc
    <3>1. Len(items) + 1 \in 1..Len(t) /\ t[Len(items) + 1] = r[1] /\ Len(t) = Len(items) + Len(r)
      BY <1>3, <1>5 DEF AfterOneAnother
    <3> QED
      BY <1>3, <1>4, <1>6, <3>1
  <2>2. r[1].seq <= Len(log)
    BY <1>1, <2>1
  <2>3. CASE Len(items) = 0
    <3>1. t[1] = r[1]
      <4>1. Len(items) + 1 = 1
        BY <2>3
      <4> QED
        BY <1>3, <1>5, <4>1 DEF AfterOneAnother
    <3>2. \A s \in oldest..(r[1].seq - 1) : s \in oldest..Len(log) /\ s < r[1].seq
      BY <1>3, <2>2
    <3>3. Quiet(log, oldest, r[1].seq - 1)
      BY <1>4, <2>3, <3>2 DEF Quiet
    <3> QED
      BY <2>1, <3>1, <3>3
  <2>4. CASE Len(items) >= 1
    <3>1. 1 \in 1..Len(items)
      BY <1>4, <2>4
    <3>2. t[1] = items[1] /\ items[1].seq \in oldest..Len(log) /\ items[1].seq < r[1].seq
      BY <1>4, <1>5, <3>1 DEF AfterOneAnother
    <3>3. \A s \in oldest..(items[1].seq - 1) :
            s \in oldest..Len(log) /\ s < r[1].seq /\ ~(s >= items[1].seq)
      <4>1. PICK lo, hi, len : lo = items[1].seq /\ hi = r[1].seq /\ len = Len(log)
        OBVIOUS
      <4>2. lo \in oldest..len /\ lo < hi /\ hi \in Nat /\ len \in Nat
        BY <1>3, <3>2, <4>1
      <4>3. \A s \in oldest..(lo - 1) : s \in oldest..len /\ s < hi /\ ~(s >= lo)
        BY <4>2
      <4> QED
        BY <4>1, <4>3
    <3>4. Quiet(log, oldest, items[1].seq - 1)
      BY <1>4, <1>6, <3>3 DEF Quiet
    <3> QED
      BY <2>1, <3>2, <3>4
  <2> QED
    BY <1>4, <2>3, <2>4
<1> QED
  BY <1>2, <1>6 DEF Whole

\* The journal has more, and less that is old.
LEMMA WholeGrows ==
  ASSUME NEW c \in Clients, NEW inc \in Nat, NEW log, NEW more, NEW oldest \in Nat,
         NEW older \in Nat, Whole(c, inc, log, oldest), oldest <= older, older >= 1,
         Len(log) \in Nat, Len(more) \in Nat, Len(log) <= Len(more),
         \A s \in 1..Len(log) : more[s] = log[s],
         \A k \in 1..Len(c.timeline) :
           c.timeline[k].inc = inc => c.timeline[k].seq <= Len(log)
  PROVE  Whole(c, inc, more, older)
<1>1. PICK r : r = c.timeline
  OBVIOUS
<1>2. r \in Seq(Envelopes) /\ Len(r) \in Nat /\ c.cursor \in Nat
  BY <1>1, ClientParts
<1>3. /\ Len(log) >= 1
      /\ c.phase = "stream" /\ c.cursorInc = inc => c.cursor <= Len(log)
  BY DEF Whole
<1>4. ASSUME c.phase = "stream", c.older = Nil, c.cursorInc = inc,
             \A k \in 1..Len(r) : r[k].inc = inc
      PROVE  Quiet(more, older, IF Len(r) = 0 THEN c.cursor ELSE r[1].seq - 1)
  <2>1. PICK hi : hi = IF Len(r) = 0 THEN c.cursor ELSE r[1].seq - 1
    OBVIOUS
  <2>2. Quiet(log, oldest, hi)
    BY <1>1, <1>4, <2>1 DEF Whole
  <2>3. hi \in Int /\ hi <= Len(log)
    <3>1. CASE Len(r) = 0
      BY <1>2, <1>3, <1>4, <2>1, <3>1
    <3>2. CASE Len(r) # 0
      <4>1. 1 \in 1..Len(r)
        BY <1>2, <3>2
      <4>2. r[1].seq \in Nat /\ r[1].seq <= Len(log)
        BY <1>1, <1>2, <1>4, <4>1, Enveloped
      <4> QED
        BY <2>1, <3>2, <4>2
    <3> QED
      BY <3>1, <3>2
  <2>4. \A s \in older..hi : s \in oldest..hi /\ s \in 1..Len(log)
    BY <2>3
  <2>5. Quiet(more, older, hi)
    BY <2>2, <2>4 DEF Quiet
  <2> QED
    BY <2>1, <2>5
<1>5. Len(more) >= 1 /\ (c.phase = "stream" /\ c.cursorInc = inc => c.cursor <= Len(more))
  BY <1>2, <1>3
<1> QED
  BY <1>1, <1>4, <1>5 DEF Whole

\* The same timeline and cursor, and no stream is begun.
LEMMA WholeRest ==
  ASSUME NEW c, NEW d, NEW inc, NEW log, NEW oldest, Whole(c, inc, log, oldest),
         d.timeline = c.timeline, d.cursor = c.cursor, d.cursorInc = c.cursorInc,
         d.older = c.older, d.phase = "stream" => c.phase = "stream"
  PROVE  Whole(d, inc, log, oldest)
BY DEF Whole

\* Nothing asked for counts any more.
LEMMA AsksNothing ==
  ASSUME NEW d, NEW qs, \A q \in qs : q.epoch <= d.epoch /\ q.epoch # d.epoch,
         d.older # Nil => Len(d.timeline) >= 1 /\ d.older = d.timeline[1].seq
  PROVE  Asks(d, qs)
BY DEF Asks

-----------------------------------------------------------------------------
\* Frames.

LEMMA FewerFly ==
  ASSUME NEW v, NEW w,
         \A i \in 1..Len(v) : v[i] \in Controls \/ \E k \in 1..Len(w) : v[i] = w[k]
  PROVE  Flying(v) \in SUBSET Flying(w)
BY DEF Flying

LEMMA NoneFly == Flying(<<>>) = {} /\ Flying(<<Reset>>) = {}
<1>1. Len(<<>>) = 0 /\ Len(<<Reset>>) = 1 /\ <<Reset>>[1] = Reset
  OBVIOUS
<1>2. \A i \in 1..1 : <<Reset>>[i] \in Controls
  BY <1>1 DEF Controls
<1> QED
  BY <1>1, <1>2 DEF Flying

LEMMA OneMoreFlies ==
  ASSUME NEW w \in Seq(Envelopes \cup Controls), NEW e \in Envelopes
  PROVE  /\ Append(w, e) \in Seq(Envelopes \cup Controls)
         /\ \A d \in Flying(Append(w, e)) : d \in Flying(w) \/ d = e
<1>1. PICK v : v = Append(w, e)
  OBVIOUS
<1>2. /\ v \in Seq(Envelopes \cup Controls) /\ Len(w) \in Nat /\ Len(v) = Len(w) + 1
      /\ v[Len(v)] = e /\ \A i \in 1..Len(w) : v[i] = w[i]
      /\ \A i \in 1..Len(v) : i \in 1..Len(w) \/ i = Len(v)
  BY <1>1
<1>3. \A d \in Flying(v) : d \in Flying(w) \/ d = e
  BY <1>2 DEF Flying
<1> QED
  BY <1>1, <1>2, <1>3

\* A frame that is no control frame is an envelope in flight.
LEMMA EnvelopeFlies ==
  ASSUME NEW w \in Seq(Envelopes \cup Controls), NEW i \in 1..Len(w), w[i] \notin Controls
  PROVE  w[i] \in Envelopes /\ w[i] \in Flying(w)
<1>1. w[i] \in Envelopes \cup Controls
  OBVIOUS
<1> QED
  BY <1>1 DEF Flying

\* What flies are envelopes.
LEMMA FlyingEnvelopes ==
  ASSUME NEW w \in Seq(Envelopes \cup Controls)
  PROVE  \A e \in Flying(w) : e \in Envelopes
<1>1. \A i \in 1..Len(w) : w[i] \in Envelopes \cup Controls
  OBVIOUS
<1> QED
  BY <1>1 DEF Flying

-----------------------------------------------------------------------------
\* The host's steps.

\* The log of an incarnation, and where the journal is in it.
LEMMA Logged ==
  ASSUME IInv
  PROVE  /\ Inc \in Nat /\ Incarnation \in Nat /\ Incarnation <= Inc
         /\ \A i \in 1..Inc : logs[i] \in Seq(Kinds) /\ Len(logs[i]) \in Nat
         /\ sess # "offline" => Inc >= 1
         /\ sess = "live" => /\ Incarnation = Inc
                             /\ Holds(journal, Entries(Inc, logs[Inc]))
<1>1. logs \in Seq(Seq(Kinds)) /\ Inc = Len(logs) /\ Inc \in Nat
  BY DEF IInv, Inc
<1>2. \A i \in 1..Inc : logs[i] \in Seq(Kinds)
  BY <1>1
<1>3. \A i \in 1..Inc : Len(logs[i]) \in Nat
  BY <1>2
<1>4. sess # "offline" => Inc >= 1
  BY DEF IInv
<1>5. Incarnation \in Nat /\ Incarnation <= Inc /\ (sess = "live" => Incarnation = Inc)
  BY <1>1, <1>4 DEF Incarnation
<1>6. sess = "live" => Holds(journal, Entries(Inc, logs[Inc]))
  BY DEF IInv, CurrentLog, Entries, Entry, Envelope
<1> QED
  BY <1>1, <1>2, <1>3, <1>4, <1>5, <1>6

\* Where the journal of a log begins and ends.
LEMMA Begins ==
  ASSUME NEW inc \in Nat, NEW log \in Seq(Kinds), Len(log) >= 1,
         NEW j, Holds(j, Entries(inc, log))
  PROVE  /\ OldestSeq(j) \in Nat /\ OldestSeq(j) >= 1
         /\ OldestSeq(j) = IF Len(log) <= Capacity THEN 1 ELSE Len(log) + 1 - Capacity
         /\ LatestSeq(j) = Len(log)
<1>1. Len(Entries(inc, log)) = Len(log) /\ Len(log) \in Nat
  BY DEF Entries
<1>2. /\ j.size \in 0..Capacity /\ j.nextSeq = Len(log) + 1
      /\ j.size <= Len(log) /\ (j.size = Len(log) \/ j.size = Capacity)
  BY <1>1 DEF Holds, Rings
<1>3. Capacity \in Nat /\ Capacity >= 1
  BY CapacityAssumption
<1>4. j.size \in Nat /\ j.size # 0
  BY <1>2, <1>3
<1>5. OldestSeq(j) = Len(log) + 1 - j.size /\ LatestSeq(j) = Len(log)
  BY <1>1, <1>2, <1>4 DEF OldestSeq, LatestSeq
<1> QED
  BY <1>1, <1>2, <1>3, <1>4, <1>5

\* Journaling a frame.
LEMMA JournaledGrows ==
  ASSUME IInv, sess # "offline", NEW kind \in Kinds, Journaled(kind)
  PROVE  /\ Inc' = Inc
         /\ Grew(logs, logs', Inc)
         /\ Len(logs'[Inc]) = Len(logs[Inc]) + 1
         /\ logs'[Inc][Len(logs[Inc]) + 1] = kind
         /\ journal.nextSeq = Len(logs[Inc]) + 1
<1>1. /\ logs \in Seq(Seq(Kinds)) /\ Inc = Len(logs) /\ Inc \in Nat /\ Inc >= 1 /\ Inc \in 1..Len(logs)
  BY Logged DEF IInv, Inc
<1>2. PICK old : old = logs[Inc]
  OBVIOUS
<1>3. old \in Seq(Kinds) /\ Len(old) \in Nat
  BY <1>1, <1>2
<1>4. PICK new : new = Append(old, kind)
  OBVIOUS
<1>5. /\ Len(new) = Len(old) + 1 /\ new[Len(old) + 1] = kind /\ Len(new) \in Nat
      /\ \A s \in 1..Len(old) : new[s] = old[s]
  BY <1>3, <1>4
<1>6. logs' = [logs EXCEPT ![Inc] = new]
  BY <1>2, <1>4 DEF Journaled
<1>7. Len(logs') = Len(logs) /\ logs'[Inc] = new /\ \A i \in 1..Inc : i # Inc => logs'[i] = logs[i]
  BY <1>1, <1>6
<1>8. Inc' = Inc
  BY <1>1, <1>7 DEF Inc
<1>9. Grew(logs, logs', Inc)
  <2> SUFFICES ASSUME NEW i \in 1..Inc
               PROVE  /\ Len(logs[i]) \in Nat /\ Len(logs'[i]) \in Nat
                      /\ Len(logs[i]) <= Len(logs'[i])
                      /\ \A s \in 1..Len(logs[i]) : logs'[i][s] = logs[i][s]
    BY DEF Grew
  <2>1. CASE i = Inc
    BY <1>2, <1>3, <1>5, <1>7, <2>1
  <2>2. CASE i # Inc
    <3>1. logs'[i] = logs[i] /\ Len(logs[i]) \in Nat
      BY <1>7, <2>2, Logged
    <3> QED
      BY <3>1
  <2> QED
    BY <2>1, <2>2
<1>10. journal.nextSeq = Len(old) + 1
  <2>1. Holds(journal, CurrentLog)
    BY DEF IInv
  <2>2. Len(CurrentLog) = Len(old)
    BY <1>2, <1>3 DEF CurrentLog
  <2> QED
    BY <2>1, <2>2 DEF Holds
<1> QED
  BY <1>2, <1>5, <1>7, <1>8, <1>9, <1>10

\* What a timeline of the current incarnation has is in its log.
LEMMA ShownIsLogged ==
  ASSUME NEW c \in Clients, NEW fl, NEW ls, NEW top, Parts(c, fl, ls, top), NEW inc
  PROVE  \A k \in 1..Len(c.timeline) :
           c.timeline[k].inc = inc => c.timeline[k].seq \in 1..Len(ls[inc])
BY DEF Parts, Known, Genuine

LEMMA FrameKeeps ==
  ASSUME SInv, IInv', NEW kind \in Kinds, Frame(kind)
  PROVE  CInv'
<1>1. /\ sess = "live" /\ sess' = "live" /\ Journaled(kind)
      /\ client' = client /\ requests' = requests
  BY DEF Frame
<1>2. /\ IInv /\ client \in Clients /\ requests \subseteq Requests /\ Wiring
      /\ Parts(client, Flying(wire), logs, Incarnation) /\ Asks(client, requests)
      /\ Whole(client, Inc, logs[Inc], OldestSeq(journal))
  BY <1>1 DEF SInv, CInv
<1>3. /\ Inc \in Nat /\ Inc >= 1 /\ Incarnation = Inc
      /\ logs[Inc] \in Seq(Kinds) /\ Len(logs[Inc]) \in Nat
      /\ Holds(journal, Entries(Inc, logs[Inc]))
  BY <1>1, <1>2, Logged
<1>4. /\ Inc' = Inc /\ Grew(logs, logs', Inc)
      /\ Len(logs'[Inc]) = Len(logs[Inc]) + 1
      /\ logs'[Inc][Len(logs[Inc]) + 1] = kind
      /\ journal.nextSeq = Len(logs[Inc]) + 1
  BY <1>1, <1>2, JournaledGrows
<1>5. Incarnation' = Inc
  BY <1>1, <1>4 DEF Incarnation
<1>6. /\ logs'[Inc] \in Seq(Kinds)
      /\ Holds(journal', Entries(Inc, logs'[Inc]))
  <2>1. logs' \in Seq(Seq(Kinds)) /\ Holds(journal', CurrentLog') /\ Inc' = Len(logs')
    BY <1>1 DEF IInv, Inc
  <2>2. CurrentLog' = Entries(Inc, logs'[Inc])
    BY <1>4 DEF CurrentLog, Entries, Entry, Envelope
  <2>3. Inc \in 1..Len(logs')
    BY <1>3, <1>4, <2>1
  <2> QED
    BY <2>1, <2>2, <2>3
<1>7. PICK e : e = [inc |-> Inc, seq |-> journal.nextSeq, kind |-> kind]
  OBVIOUS
<1>8. e \in Envelopes /\ e.inc = Inc /\ e.seq = Len(logs[Inc]) + 1 /\ e.kind = kind
  <2>1. journal.nextSeq \in Nat
    BY <1>3, <1>4
  <2> QED
    BY <1>3, <1>4, <1>7, <2>1 DEF Envelopes
<1>9. Genuine(e, logs', Inc)
  <2>1. Inc \in 1..Inc /\ e.seq \in 1..Len(logs'[Inc])
    BY <1>3, <1>4, <1>8
  <2> QED
    BY <1>4, <1>8, <2>1 DEF Genuine
<1>10. Parts(client, Flying(wire), logs', Inc)
  <2>1. Parts(client, Flying(wire), logs, Inc)
    BY <1>2, <1>3
  <2> QED
    BY <1>2, <1>3, <1>4, <2>1, PartsGrow
<1>11. Wiring' /\ Parts(client, Flying(wire'), logs', Inc)
  <2>1. CASE wire' = wire /\ (conn' = conn \/ conn' = "closing") /\ (conn = "attached" \/ conn' = conn)
    <3>1. Wiring'
      BY <1>1, <1>2, <1>4, <2>1 DEF Wiring
    <3> QED
      BY <1>10, <2>1, <3>1
  <2>2. CASE conn = "attached" /\ conn' = "attached" /\ wire' = Append(wire, e)
    <3>1. wire \in Seq(Envelopes \cup Controls) /\ \A d \in Flying(wire) : d.inc = Inc
      BY <1>2, <2>2 DEF Wiring
    <3>2. /\ wire' \in Seq(Envelopes \cup Controls)
          /\ \A d \in Flying(wire') : d \in Flying(wire) \/ d = e
      BY <1>8, <2>2, <3>1, OneMoreFlies
    <3>3. Wiring'
      <4>1. \A d \in Flying(wire') : d.inc = Inc'
        BY <1>4, <1>8, <3>1, <3>2
      <4>2. client'.phase # "stream" => conn' = "none"
        BY <1>1, <1>2, <2>2 DEF Wiring
      <4> QED
        BY <1>1, <2>2, <3>2, <4>1, <4>2 DEF Wiring
    <3>4. Parts(client, Flying(wire'), logs', Inc)
      <4>1. \A d \in Flying(wire') : d \notin Flying(wire) => Genuine(d, logs', Inc) /\ d.inc = Inc
        BY <1>8, <1>9, <3>2
      <4> QED
        BY <1>2, <1>3, <1>10, <3>1, <4>1, PartsRewired
    <3> QED
      BY <3>3, <3>4
  <2> QED
    BY <1>7, <2>1, <2>2 DEF Frame
<1>12. Whole(client, Inc, logs'[Inc], OldestSeq(journal'))
  <2>1. PICK log, more : log = logs[Inc] /\ more = logs'[Inc]
    OBVIOUS
  <2>2. Len(log) >= 1 /\ Len(log) \in Nat /\ Len(more) = Len(log) + 1
    BY <1>2, <1>3, <1>4, <2>1 DEF Whole
  <2>3. PICK old, new : old = OldestSeq(journal) /\ new = OldestSeq(journal')
    OBVIOUS
  <2>4. /\ old \in Nat /\ old >= 1
        /\ old = IF Len(log) <= Capacity THEN 1 ELSE Len(log) + 1 - Capacity
    BY <1>3, <2>1, <2>2, <2>3, Begins
  <2>5. /\ new \in Nat /\ new >= 1
        /\ new = IF Len(more) <= Capacity THEN 1 ELSE Len(more) + 1 - Capacity
    <3>1. Len(more) >= 1
      BY <2>2
    <3> QED
      BY <1>3, <1>6, <2>1, <2>3, <3>1, Begins
  <2>6. old <= new
    BY <2>2, <2>4, <2>5, CapacityAssumption
  <2>7. \A s \in 1..Len(log) : more[s] = log[s]
    BY <1>3, <1>4, <2>1 DEF Grew
  <2>8. \A k \in 1..Len(client.timeline) :
          client.timeline[k].inc = Inc => client.timeline[k].seq <= Len(log)
    <3>1. \A k \in 1..Len(client.timeline) :
            client.timeline[k].inc = Inc => client.timeline[k].seq \in 1..Len(log)
      BY <1>2, <2>1, ShownIsLogged
    <3> QED
      BY <2>2, <3>1
  <2>9. Whole(client, Inc, log, old)
    BY <1>2, <2>1, <2>3
  <2>10. Whole(client, Inc, more, new)
    BY <1>2, <1>3, <2>2, <2>4, <2>5, <2>6, <2>7, <2>8, <2>9, WholeGrows
  <2> QED
    BY <2>1, <2>3, <2>10
<1> QED
  BY <1>1, <1>2, <1>4, <1>5, <1>11, <1>12 DEF CInv

\* A step of the host that leaves wire and client alone while no session is live:
\* logs grow, or only the one that is loading changes.
LEMMA HostStepKeeps ==
  ASSUME SInv, NEW top \in Nat, NEW topp \in Nat, top = Incarnation, topp = Incarnation',
         top <= topp, Grew(logs, logs', top), conn # "attached",
         UNCHANGED <<client, requests, wire, conn>>,
         sess' = "live" => Whole(client, Inc', logs'[Inc'], OldestSeq(journal'))
  PROVE  CInv'
<1>1. /\ client \in Clients /\ requests \subseteq Requests /\ Wiring
      /\ Parts(client, Flying(wire), logs, top) /\ Asks(client, requests)
  BY DEF SInv, CInv
<1>2. Parts(client, Flying(wire), logs', topp)
  BY <1>1, PartsGrow
<1>3. Wiring'
  BY <1>1 DEF Wiring
<1> QED
  BY <1>1, <1>2, <1>3 DEF CInv

LEMMA BeginLoadKeeps ==
  ASSUME SInv, BeginLoad
  PROVE  CInv'
<1>1. /\ sess = "offline" /\ sess' = "loading" /\ logs' = Append(logs, <<>>)
      /\ UNCHANGED <<client, requests, wire, conn>> /\ IInv /\ Wiring
  BY DEF BeginLoad, SInv, CInv
<1>2. /\ logs \in Seq(Seq(Kinds)) /\ Inc = Len(logs) /\ Inc \in Nat
      /\ \A i \in 1..Inc : Len(logs[i]) \in Nat
  BY <1>1, Logged DEF IInv, Inc
<1>3. Len(logs') = Inc + 1 /\ \A i \in 1..Inc : logs'[i] = logs[i]
  <2>1. Len(Append(logs, <<>>)) = Len(logs) + 1
    BY <1>2, NewIncarnation
  <2>2. \A i \in 1..Len(logs) : Append(logs, <<>>)[i] = logs[i]
    BY <1>2
  <2> QED
    BY <1>1, <1>2, <2>1, <2>2
<1>4. Incarnation = Inc /\ Incarnation' = Inc
  BY <1>1, <1>2, <1>3 DEF Incarnation, Inc
<1>5. Grew(logs, logs', Inc)
  BY <1>2, <1>3 DEF Grew
<1>6. conn # "attached"
  BY <1>1 DEF Wiring
<1> QED
  BY <1>1, <1>2, <1>4, <1>5, <1>6, HostStepKeeps

\* A session that loads has journaled nothing yet that anyone could have seen.
LEMMA LoadStep ==
  ASSUME SInv, sess = "loading", NEW kind \in Kinds, Journaled(kind)
  PROVE  /\ Inc \in Nat /\ Inc - 1 \in Nat /\ Incarnation = Inc - 1
         /\ Inc' = Inc /\ Grew(logs, logs', Inc - 1)
         /\ conn # "attached" /\ Len(logs'[Inc]) >= 1
<1>1. IInv /\ Wiring
  BY DEF SInv, CInv
<1>2. Inc \in Nat /\ Inc >= 1 /\ Inc \in 1..Inc /\ Len(logs[Inc]) \in Nat
  BY <1>1, Logged
<1>3. Incarnation = Inc - 1 /\ Inc - 1 \in Nat
  BY <1>2 DEF Incarnation
<1>4. /\ Inc' = Inc /\ Grew(logs, logs', Inc) /\ Len(logs'[Inc]) = Len(logs[Inc]) + 1
  BY <1>1, JournaledGrows
<1>5. Grew(logs, logs', Inc - 1)
  <2>1. \A i \in 1..(Inc - 1) : i \in 1..Inc
    BY <1>2
  <2> QED
    BY <1>4, <2>1 DEF Grew
<1>6. conn # "attached"
  BY <1>1 DEF Wiring
<1>7. Len(logs'[Inc]) >= 1
  BY <1>2, <1>4
<1> QED
  BY <1>2, <1>3, <1>4, <1>5, <1>6, <1>7

LEMMA ReplayKeeps ==
  ASSUME SInv, Replay
  PROVE  CInv'
<1>1. /\ sess = "loading" /\ sess' = "loading" /\ Journaled("message") /\ "message" \in Kinds
      /\ UNCHANGED <<client, requests, wire, conn>>
  BY DEF Replay, Kinds
<1>2. /\ Inc - 1 \in Nat /\ Incarnation = Inc - 1 /\ Inc' = Inc /\ Grew(logs, logs', Inc - 1)
      /\ conn # "attached"
  BY <1>1, LoadStep
<1>3. Incarnation' = Inc - 1
  BY <1>1, <1>2 DEF Incarnation
<1> QED
  BY <1>1, <1>2, <1>3, HostStepKeeps

LEMMA LoadedKeeps ==
  ASSUME SInv, Loaded
  PROVE  CInv'
<1>1. /\ sess = "loading" /\ sess' = "live" /\ Journaled("state") /\ "state" \in Kinds
      /\ UNCHANGED <<client, requests, wire, conn>>
  BY DEF Loaded, Kinds
<1>2. /\ Inc \in Nat /\ Inc - 1 \in Nat /\ Incarnation = Inc - 1 /\ Inc' = Inc
      /\ Grew(logs, logs', Inc - 1) /\ conn # "attached" /\ Len(logs'[Inc]) >= 1
  BY <1>1, LoadStep
<1>3. Incarnation' = Inc
  BY <1>1, <1>2 DEF Incarnation
<1>4. client \in Clients /\ Known(client, logs, Inc - 1)
  BY <1>2 DEF SInv, CInv, Parts
<1>5. client.cursorInc # Inc
  <2>1. client.cursorInc <= Inc - 1 /\ client.cursorInc \in Nat
    BY <1>4, ClientParts DEF Known
  <2> QED
    BY <1>2, <2>1
<1>6. Whole(client, Inc, logs'[Inc], OldestSeq(journal'))
  BY <1>2, <1>5 DEF Whole
<1>7. Inc - 1 <= Inc
  BY <1>2
<1> QED
  BY <1>1, <1>2, <1>3, <1>6, <1>7, HostStepKeeps

LEMMA LoadFailsKeeps ==
  ASSUME SInv, LoadFails
  PROVE  CInv'
<1>1. /\ sess = "loading" /\ sess' = "offline" /\ logs' = SubSeq(logs, 1, Inc - 1)
      /\ requests' = requests
      /\ \/ wire' = wire /\ conn' = conn
         \/ conn = "opening" /\ wire' = <<Reset>> /\ conn' = "closing"
      /\ \/ client' = client
         \/ client.phase = "page" /\ client' = [client EXCEPT !.phase = "error"]
  BY DEF LoadFails
<1>2. /\ IInv /\ client \in Clients /\ requests \subseteq Requests /\ Wiring
      /\ Parts(client, Flying(wire), logs, Incarnation) /\ Asks(client, requests)
  BY DEF SInv, CInv
<1>3. /\ Inc \in Nat /\ Inc >= 1 /\ Inc - 1 \in Nat /\ Inc = Len(logs)
      /\ logs \in Seq(Seq(Kinds)) /\ \A i \in 1..Inc : Len(logs[i]) \in Nat
  BY <1>1, <1>2, Logged DEF IInv, Inc
<1>4. Len(logs') = Inc - 1 /\ \A i \in 1..(Inc - 1) : logs'[i] = logs[i] /\ i \in 1..Inc
  BY <1>1, <1>3
<1>5. Incarnation = Inc - 1 /\ Incarnation' = Inc - 1
  BY <1>1, <1>4 DEF Incarnation, Inc
<1>6. Grew(logs, logs', Inc - 1)
  <2> SUFFICES ASSUME NEW i \in 1..(Inc - 1)
               PROVE  /\ Len(logs[i]) \in Nat /\ Len(logs'[i]) \in Nat
                      /\ Len(logs[i]) <= Len(logs'[i])
                      /\ \A s \in 1..Len(logs[i]) : logs'[i][s] = logs[i][s]
    BY DEF Grew
  <2>1. logs'[i] = logs[i] /\ Len(logs[i]) \in Nat
    BY <1>3, <1>4
  <2> QED
    BY <2>1
<1>7. Parts(client, Flying(wire), logs', Inc - 1)
  BY <1>2, <1>3, <1>5, <1>6, PartsGrow
<1>8. /\ client' \in Clients /\ client'.timeline = client.timeline
      /\ client'.cursor = client.cursor /\ client'.cursorInc = client.cursorInc
      /\ client'.stateSeq = client.stateSeq /\ client'.stateInc = client.stateInc
      /\ client'.older = client.older /\ client'.epoch = client.epoch
      /\ \/ client' = client
         \/ client.phase = "page" /\ client'.phase = "error"
  <2>1. CASE client' = client
    BY <1>2, <2>1
  <2>2. CASE client.phase = "page" /\ client' = [client EXCEPT !.phase = "error"]
    BY <1>2, <2>2 DEF Clients
  <2> QED
    BY <1>1, <2>1, <2>2
<1>9. Parts(client', Flying(wire), logs', Inc - 1)
  <2>1. client'.phase = "stream" => client.phase = "stream"
    BY <1>8
  <2>2. client.stateSeq # 0 => /\ client.stateInc \in 1..(Inc - 1)
                               /\ client.stateSeq <= Len(logs'[client.stateInc])
    BY <1>7 DEF Parts, Known
  <2> QED
    BY <1>7, <1>8, <2>1, <2>2, PartsRest
<1>10. Wiring' /\ Flying(wire') \in SUBSET Flying(wire)
  <2>1. CASE wire' = wire /\ conn' = conn
    <3>1. client'.phase # "stream" => client.phase # "stream"
      BY <1>8
    <3>2. conn # "attached"
      BY <1>1, <1>2 DEF Wiring
    <3>3. Wiring'
      BY <1>2, <2>1, <3>1, <3>2 DEF Wiring
    <3> QED
      BY <2>1, <3>3
  <2>2. CASE conn = "opening" /\ wire' = <<Reset>> /\ conn' = "closing"
    <3>1. client.phase = "stream" /\ client'.phase = "stream"
      BY <1>2, <1>8, <2>2 DEF Wiring
    <3>2. Flying(wire') = {}
      BY <2>2, NoneFly
    <3>3. wire' \in Seq(Envelopes \cup Controls)
      BY <2>2 DEF Controls
    <3> QED
      BY <2>2, <3>1, <3>2, <3>3 DEF Wiring
  <2> QED
    BY <1>1, <2>1, <2>2
<1>11. Parts(client', Flying(wire'), logs', Inc - 1)
  <2>1. \A e \in Flying(wire') : e \in Flying(wire)
    BY <1>10
  <2> QED
    BY <1>3, <1>8, <1>9, <2>1, PartsRewired
<1>12. Asks(client', requests)
  <2>1. CASE client' = client
    BY <1>2, <2>1
  <2>2. CASE client.phase = "page" /\ client'.phase = "error"
    <3>1. \A q \in requests : q.epoch <= client'.epoch /\ q.epoch # client'.epoch
      BY <1>2, <1>8, <2>2 DEF Asks
    <3>2. client'.older # Nil => Len(client'.timeline) >= 1
                                 /\ client'.older = client'.timeline[1].seq
      BY <1>2, <1>8 DEF Asks
    <3> QED
      BY <3>1, <3>2, AsksNothing
  <2> QED
    BY <1>8, <2>1, <2>2
<1> QED
  BY <1>1, <1>2, <1>5, <1>8, <1>10, <1>11, <1>12 DEF CInv

LEMMA HostRestartKeeps ==
  ASSUME SInv, HostRestart
  PROVE  CInv'
<1>1. /\ sess = "live" /\ sess' = "offline"
      /\ conn' = IF conn = "none" THEN "none" ELSE "closing"
      /\ UNCHANGED <<logs, client, wire, requests>>
  BY DEF HostRestart
<1>2. /\ IInv /\ client \in Clients /\ requests \subseteq Requests /\ Wiring
      /\ Parts(client, Flying(wire), logs, Incarnation) /\ Asks(client, requests)
  BY DEF SInv, CInv
<1>3. Incarnation' = Incarnation
  BY <1>1 DEF Incarnation, Inc
<1>4. Wiring'
  BY <1>1, <1>2 DEF Wiring
<1> QED
  BY <1>1, <1>2, <1>3, <1>4 DEF CInv

-----------------------------------------------------------------------------
\* The steps of the connection.

\* Only the wire changes: fewer frames, or the first ones of a stream.
LEMMA WireKeeps ==
  ASSUME SInv, UNCHANGED <<sess, journal, logs, client, requests>>, Wiring',
         \A e \in Flying(wire') : e \notin Flying(wire) =>
           Genuine(e, logs, Incarnation) /\ e.inc = Incarnation,
         (\E e \in Flying(wire') : e \notin Flying(wire)) => Flying(wire) = {}
  PROVE  CInv'
<1>1. /\ IInv /\ client \in Clients /\ requests \subseteq Requests
      /\ Parts(client, Flying(wire), logs, Incarnation) /\ Asks(client, requests)
      /\ sess = "live" => Whole(client, Inc, logs[Inc], OldestSeq(journal))
  BY DEF SInv, CInv
<1>2. Incarnation' = Incarnation /\ Inc' = Inc
  BY DEF Incarnation, Inc
<1>3. Incarnation \in Nat
  BY <1>1, Logged
<1>4. (\E e \in Flying(wire') : e \notin Flying(wire)) =>
        \A e \in Flying(wire) : e.inc = Incarnation
  OBVIOUS
<1>5. Parts(client, Flying(wire'), logs, Incarnation)
  BY <1>1, <1>3, <1>4, PartsRewired
<1>6. sess' = "live" => Whole(client', Inc', logs'[Inc'], OldestSeq(journal'))
  BY <1>1, <1>2
<1> QED
  BY <1>1, <1>2, <1>5, <1>6 DEF CInv

\* Frames were only taken off the wire, or put there that carry nothing.
LEMMA FewerFramesKeep ==
  ASSUME SInv, UNCHANGED <<sess, journal, logs, client, requests>>,
         wire' \in Seq(Envelopes \cup Controls), Flying(wire') \in SUBSET Flying(wire),
         conn' \in {"none", "opening", "attached", "closing"},
         client.phase # "stream" => conn' = "none",
         conn' \in {"none", "opening"} => wire' = <<>>,
         conn' = "attached" => conn = "attached"
  PROVE  CInv'
<1>1. Wiring
  BY DEF SInv, CInv
<1>2. Inc' = Inc
  BY DEF Inc
<1>3. \A e \in Flying(wire') : e \in Flying(wire)
  OBVIOUS
<1>4. conn' = "attached" => sess' = "live" /\ \A e \in Flying(wire') : e.inc = Inc'
  BY <1>1, <1>2, <1>3 DEF Wiring
<1>5. Wiring'
  BY <1>4 DEF Wiring
<1> QED
  BY <1>3, <1>5, WireKeeps

LEMMA CutKeeps ==
  ASSUME SInv, Cut
  PROVE  CInv'
<1>1. /\ UNCHANGED <<sess, journal, logs, client, requests>> /\ conn' = "none" /\ wire' = <<>>
  BY DEF Cut
<1>2. Flying(wire') \in SUBSET Flying(wire) /\ wire' \in Seq(Envelopes \cup Controls)
  BY <1>1, NoneFly
<1> QED
  BY <1>1, <1>2, FewerFramesKeep

LEMMA ConnectKeeps ==
  ASSUME SInv, Connect
  PROVE  CInv'
<1>1. /\ UNCHANGED <<sess, journal, logs, client, requests>> /\ conn' = "opening" /\ wire' = wire
      /\ conn = "none" /\ client.phase = "stream"
  BY DEF Connect
<1>2. wire = <<>> /\ wire \in Seq(Envelopes \cup Controls)
  BY <1>1 DEF SInv, CInv, Wiring
<1> QED
  BY <1>1, <1>2, FewerFramesKeep

LEMMA CloseSeenKeeps ==
  ASSUME SInv, CloseSeen
  PROVE  CInv'
<1>1. /\ UNCHANGED <<sess, journal, logs, client, requests>> /\ conn' = "none" /\ wire' = wire
      /\ wire = <<>>
  BY DEF CloseSeen
<1>2. wire \in Seq(Envelopes \cup Controls)
  BY DEF SInv, CInv, Wiring
<1> QED
  BY <1>1, <1>2, FewerFramesKeep

LEMMA DisturbKeeps ==
  ASSUME SInv, Disturb
  PROVE  CInv'
<1>1. /\ UNCHANGED <<sess, journal, logs, client, requests>> /\ conn' = conn
      /\ Wiring
  BY DEF Disturb, SInv, CInv
<1>2. wire \in Seq(Envelopes \cup Controls) /\ Len(wire) \in Nat
  BY <1>1 DEF Wiring
<1>3. PICK i \in 1..Len(wire) :
        \/ wire' = SubSeq(wire, 1, i - 1) \o SubSeq(wire, i + 1, Len(wire))
        \/ wire' = [wire EXCEPT ![i] = Garbled]
        \/ wire' = SubSeq(wire, 1, i) \o SubSeq(wire, i, Len(wire))
  BY DEF Disturb
<1>4. PICK w : w = wire'
  OBVIOUS
<1>5. /\ w \in Seq(Envelopes \cup Controls)
      /\ \A n \in 1..Len(w) : w[n] \in Controls \/ \E k \in 1..Len(wire) : w[n] = wire[k]
  <2>1. CASE w = SubSeq(wire, 1, i - 1) \o SubSeq(wire, i + 1, Len(wire))
    <3>1. PICK a, b : a = SubSeq(wire, 1, i - 1) /\ b = SubSeq(wire, i + 1, Len(wire))
      OBVIOUS
    <3>2. /\ a \in Seq(Envelopes \cup Controls) /\ Len(a) = i - 1
          /\ \A n \in 1..(i - 1) : a[n] = wire[n]
      BY <1>2, <3>1
    <3>3. /\ b \in Seq(Envelopes \cup Controls) /\ Len(b) = Len(wire) - i
          /\ \A n \in 1..(Len(wire) - i) : b[n] = wire[i + n]
      BY <1>2, <3>1
    <3>4. w = a \o b
      BY <2>1, <3>1
    <3>5. w \in Seq(Envelopes \cup Controls) /\ Len(w) = Len(wire) - 1
      BY <1>2, <3>2, <3>3, <3>4
    <3>6. ASSUME NEW n \in 1..Len(w) PROVE \E k \in 1..Len(wire) : w[n] = wire[k]
      <4>1. CASE n < i
        <5>1. n \in 1..Len(wire) /\ n \in 1..Len(a)
          BY <1>2, <3>2, <3>5, <4>1
        <5>2. w[n] = a[n] /\ a[n] = wire[n]
          BY <3>2, <3>3, <3>4, <5>1
        <5> QED
          BY <5>1, <5>2
      <4>2. CASE n >= i
        <5>1. PICK m : m = n - i + 1
          OBVIOUS
        <5>2. m \in 1..Len(b) /\ n = Len(a) + m /\ i + m \in 1..Len(wire)
          BY <1>2, <3>2, <3>3, <3>5, <4>2, <5>1
        <5>3. w[n] = b[m]
          BY <3>2, <3>3, <3>4, <5>2
        <5> QED
          BY <3>3, <5>2, <5>3
      <4> QED
        BY <4>1, <4>2
    <3> QED
      BY <3>5, <3>6
  <2>2. CASE w = [wire EXCEPT ![i] = Garbled]
    <3>1. Garbled \in Controls
      BY DEF Controls
    <3>2. PICK g : g = Garbled
      OBVIOUS
    <3>3. w = [wire EXCEPT ![i] = g] /\ g \in Controls
      BY <2>2, <3>1, <3>2
    <3>4. w \in Seq(Envelopes \cup Controls) /\ Len(w) = Len(wire)
      BY <1>2, <3>3
    <3>5. \A n \in 1..Len(w) : w[n] = g \/ w[n] = wire[n]
      BY <1>2, <3>3, <3>4
    <3> QED
      BY <3>3, <3>4, <3>5
  <2>3. CASE w = SubSeq(wire, 1, i) \o SubSeq(wire, i, Len(wire))
    <3>1. /\ w \in Seq(Envelopes \cup Controls) /\ Len(w) = Len(wire) + 1
      BY <1>2, <2>3
    <3>2. ASSUME NEW n \in 1..Len(w) PROVE \E k \in 1..Len(wire) : w[n] = wire[k]
      <4>1. CASE n <= i
        <5>1. n \in 1..Len(wire) /\ w[n] = wire[n]
          BY <1>2, <2>3, <3>1, <4>1
        <5> QED
          BY <5>1
      <4>2. CASE n > i
        <5>1. n - 1 \in 1..Len(wire) /\ w[n] = wire[n - 1]
          BY <1>2, <2>3, <3>1, <4>2
        <5> QED
          BY <5>1
      <4> QED
        BY <4>1, <4>2
    <3> QED
      BY <3>1, <3>2
  <2> QED
    BY <1>3, <1>4, <2>1, <2>2, <2>3
<1>6. Flying(w) \in SUBSET Flying(wire)
  BY <1>5, FewerFly
<1>7. wire # <<>>
  BY <1>2
<1> QED
  BY <1>1, <1>4, <1>5, <1>6, <1>7, FewerFramesKeep DEF Wiring

\* All that After serves was journaled by the incarnation of the journal.
LEMMA BacklogIsGenuine ==
  ASSUME IInv, sess = "live", NEW since \in Nat,
         NEW b, b = After(journal, since), b # Nil
  PROVE  /\ b \in Seq(Envelopes)
         /\ \A i \in 1..Len(b) : Genuine(b[i], logs, Inc) /\ b[i].inc = Inc
<1>1. /\ Inc \in Nat /\ Inc >= 1 /\ logs[Inc] \in Seq(Kinds)
      /\ Holds(journal, Entries(Inc, logs[Inc]))
  BY Logged
<1>2. PICK n, s : n = Len(logs[Inc]) /\ s = Entries(Inc, logs[Inc])
  OBVIOUS
<1>3. n \in Nat /\ s = [i \in 1..n |-> Entry(Inc, logs[Inc], i)]
  BY <1>1, <1>2 DEF Entries
<1>4. ASSUME NEW i \in 1..n
      PROVE  /\ s[i] \in Envelopes /\ Entry(Inc, logs[Inc], i) \in Envelopes
             /\ s[i].inc = Inc /\ s[i].seq = i /\ s[i].kind = logs[Inc][i]
  <2>1. logs[Inc][i] \in Kinds /\ i \in Nat
    BY <1>1, <1>2
  <2> QED
    BY <1>1, <1>3, <2>1 DEF Entry, Envelopes
<1>5. s \in Seq(Envelopes) /\ Len(s) = n
  BY <1>3, <1>4
<1>6. After(journal, since) = IF since \in (Len(s) - Capacity)..Len(s)
                              THEN [i \in 1..(Len(s) - since) |-> s[since + i]] ELSE Nil
  BY <1>1, <1>2, <1>5, AfterServes
<1>7. since <= n /\ b = [i \in 1..(n - since) |-> s[since + i]]
  BY <1>3, <1>5, <1>6, CapacityAssumption
<1>8. ASSUME NEW i \in 1..(n - since)
      PROVE  since + i \in 1..n /\ b[i] = s[since + i] /\ b[i] \in Envelopes
  <2>1. since + i \in 1..n
    BY <1>3
  <2> QED
    BY <1>4, <1>7, <2>1
<1>9. n - since \in Nat
  BY <1>3, <1>7
<1>10. b \in Seq(Envelopes) /\ Len(b) = n - since
  BY <1>7, <1>8, <1>9
<1>11. ASSUME NEW i \in 1..Len(b) PROVE Genuine(b[i], logs, Inc) /\ b[i].inc = Inc
  <2>1. PICK k \in 1..n : b[i] = s[k]
    BY <1>8, <1>10
  <2>2. Inc \in 1..Inc
    BY <1>1
  <2> QED
    BY <1>2, <1>4, <2>1, <2>2 DEF Genuine
<1> QED
  BY <1>10, <1>11

LEMMA AttachKeeps ==
  ASSUME SInv, Attach
  PROVE  CInv'
<1>1. PICK b : b = After(journal, client.cursor)
  OBVIOUS
<1>2. /\ UNCHANGED <<sess, journal, logs, client, requests>>
      /\ conn = "opening" /\ sess = "live"
      /\ \/ b = Nil /\ wire' = <<Reset>> /\ conn' = "closing"
         \/ b # Nil /\ wire' = b /\ conn' = "attached"
         \/ /\ b # Nil /\ conn' = "closing"
            /\ \E k \in 1..(Len(b) - 1) : wire' = SubSeq(b, 1, k)
  BY <1>1 DEF Attach
<1>3. /\ IInv /\ client \in Clients /\ client.phase = "stream" /\ wire = <<>>
  BY <1>2 DEF SInv, CInv, Wiring
<1>4. client.cursor \in Nat /\ Incarnation = Inc /\ Inc' = Inc
  BY <1>2, <1>3, ClientParts, Logged DEF Inc
<1>5. PICK w : w = wire'
  OBVIOUS
<1>6. /\ w \in Seq(Envelopes \cup Controls)
      /\ \A e \in Flying(w) : Genuine(e, logs, Inc) /\ e.inc = Inc
  <2>1. CASE b = Nil
    <3>1. w = <<Reset>> /\ Reset \in Controls
      BY <1>2, <1>5, <2>1 DEF Controls
    <3> QED
      BY <3>1, NoneFly
  <2>2. CASE b # Nil
    <3>1. /\ b \in Seq(Envelopes)
          /\ \A i \in 1..Len(b) : Genuine(b[i], logs, Inc) /\ b[i].inc = Inc
      BY <1>1, <1>2, <1>3, <1>4, <2>2, BacklogIsGenuine
    <3>2. Len(b) \in Nat /\ \A i \in 1..Len(b) : b[i] \in Envelopes
      BY <3>1, Enveloped
    <3>3. w \in Seq(Envelopes) /\ \A i \in 1..Len(w) : i \in 1..Len(b) /\ w[i] = b[i]
      <4>1. CASE w = b
        BY <3>1, <4>1
      <4>2. ASSUME NEW k \in 1..(Len(b) - 1), w = SubSeq(b, 1, k)
            PROVE  w \in Seq(Envelopes) /\ \A i \in 1..Len(w) : i \in 1..Len(b) /\ w[i] = b[i]
        BY <3>1, <3>2, <4>2
      <4> QED
        BY <1>2, <1>5, <2>2, <4>1, <4>2
    <3>4. w \in Seq(Envelopes \cup Controls)
      BY <3>3
    <3> QED
      BY <3>1, <3>3, <3>4 DEF Flying
  <2> QED
    BY <2>1, <2>2
<1>7. Wiring'
  BY <1>2, <1>3, <1>4, <1>5, <1>6 DEF Wiring
<1>8. Flying(wire) = {}
  BY <1>3, NoneFly
<1> QED
  BY <1>2, <1>4, <1>5, <1>6, <1>7, <1>8, WireKeeps

-----------------------------------------------------------------------------
\* The client's steps.

\* The client asks for something else, and shows what it showed.
LEMMA ClientRests ==
  ASSUME SInv, UNCHANGED <<sess, journal, logs>>, NEW d \in Clients, client' = d,
         d.timeline = client.timeline, d.cursor = client.cursor,
         d.cursorInc = client.cursorInc, d.older = client.older,
         d.phase = "stream" => client.phase = "stream",
         d.stateSeq # 0 => d.stateInc \in 1..Incarnation /\ d.stateSeq <= Len(logs[d.stateInc]),
         Flying(wire') \in SUBSET Flying(wire), Wiring',
         requests' \in SUBSET Requests, Asks(d, requests')
  PROVE  CInv'
<1>1. /\ IInv /\ client \in Clients /\ Parts(client, Flying(wire), logs, Incarnation)
      /\ sess = "live" => Whole(client, Inc, logs[Inc], OldestSeq(journal))
  BY DEF SInv, CInv
<1>2. Incarnation' = Incarnation /\ Inc' = Inc /\ Incarnation \in Nat
  BY <1>1, Logged DEF Incarnation, Inc
<1>3. Parts(d, Flying(wire), logs, Incarnation)
  BY <1>1, PartsRest
<1>4. \A e \in Flying(wire') : e \in Flying(wire)
  OBVIOUS
<1>5. Parts(d, Flying(wire'), logs, Incarnation)
  BY <1>2, <1>3, <1>4, PartsRewired
<1>6. sess = "live" => Whole(d, Inc, logs[Inc], OldestSeq(journal))
  BY <1>1, WholeRest
<1> QED
  BY <1>2, <1>5, <1>6 DEF CInv

LEMMA StartResyncKeeps ==
  ASSUME SInv, StartResync, UNCHANGED <<sess, journal, logs, requests>>
  PROVE  CInv'
<1>1. /\ client \in Clients /\ requests \in SUBSET Requests /\ Wiring
      /\ Asks(client, requests) /\ Known(client, logs, Incarnation)
  BY DEF SInv, CInv, Parts
<1>2. PICK d : d = Resynced(client)
  OBVIOUS
<1>3. client' = d /\ conn' = "none" /\ wire' = <<>>
  BY <1>2 DEF StartResync
<1>4. /\ d \in Clients /\ d.timeline = client.timeline /\ d.cursor = client.cursor
      /\ d.cursorInc = client.cursorInc /\ d.older = client.older /\ d.phase = "get"
      /\ d.epoch = client.epoch + 1 /\ client.epoch \in Nat
      /\ d.stateSeq = client.stateSeq /\ d.stateInc = client.stateInc
  <2>1. PICK n : n = client.epoch + 1
    OBVIOUS
  <2>2. client.epoch \in Nat /\ n \in Nat
    BY <1>1, <2>1, ClientParts
  <2>3. d = [client EXCEPT !.phase = "get", !.epoch = n, !.loadingOlder = FALSE]
    BY <1>1, <1>2, <2>1 DEF Resynced
  <2> QED
    BY <1>1, <2>1, <2>2, <2>3 DEF Clients
<1>5. Asks(d, requests)
  <2>1. \A q \in requests : q.epoch \in Nat /\ q.epoch <= client.epoch
    BY <1>1 DEF Requests, Asks
  <2>2. \A q \in requests : q.epoch <= d.epoch /\ q.epoch # d.epoch
    BY <1>4, <2>1
  <2>3. d.older # Nil => Len(d.timeline) >= 1 /\ d.older = d.timeline[1].seq
    BY <1>1, <1>4 DEF Asks
  <2> QED
    BY <2>2, <2>3, AsksNothing
<1>6. Wiring' /\ Flying(wire') \in SUBSET Flying(wire)
  <2>1. wire' \in Seq(Envelopes \cup Controls) /\ Flying(wire') = {}
    BY <1>3, NoneFly
  <2>2. Wiring'
    BY <1>3, <2>1 DEF Wiring
  <2> QED
    BY <2>1, <2>2
<1>7. d.stateSeq # 0 => d.stateInc \in 1..Incarnation /\ d.stateSeq <= Len(logs[d.stateInc])
  BY <1>1, <1>4 DEF Known
<1>8. d.phase = "stream" => client.phase = "stream"
  BY <1>4
<1> QED
  BY <1>1, <1>3, <1>4, <1>5, <1>6, <1>7, <1>8, ClientRests

LEMMA RefreshKeeps ==
  ASSUME SInv, Refresh
  PROVE  CInv'
BY StartResyncKeeps DEF Refresh

LEMMA GetAnsweredKeeps ==
  ASSUME SInv, GetAnswered
  PROVE  CInv'
<1>1. /\ IInv /\ client \in Clients /\ requests \in SUBSET Requests /\ Wiring
      /\ Asks(client, requests)
      /\ sess = "live" => Whole(client, Inc, logs[Inc], OldestSeq(journal))
  BY DEF SInv, CInv
<1>2. PICK n, m : /\ n = (IF sess = "live" THEN LatestSeq(journal) ELSE 0)
                  /\ m = (IF sess = "live" THEN Inc ELSE 0)
  OBVIOUS
<1>3. /\ client.phase = "get" /\ UNCHANGED <<sess, journal, logs, conn, wire, requests>>
      /\ client' = [client EXCEPT !.phase = "page", !.stateSeq = n, !.stateInc = m]
  BY <1>2 DEF GetAnswered
<1>4. /\ Inc \in Nat /\ Incarnation \in Nat
      /\ sess = "live" => /\ Incarnation = Inc /\ Inc >= 1 /\ logs[Inc] \in Seq(Kinds)
                          /\ Holds(journal, Entries(Inc, logs[Inc]))
  BY <1>1, Logged
<1>5. sess = "live" => LatestSeq(journal) = Len(logs[Inc]) /\ Len(logs[Inc]) \in Nat
  <2> SUFFICES ASSUME sess = "live" PROVE LatestSeq(journal) = Len(logs[Inc]) /\ Len(logs[Inc]) \in Nat
    OBVIOUS
  <2>1. Len(logs[Inc]) >= 1
    BY <1>1 DEF Whole
  <2> QED
    BY <1>4, <2>1, Begins
<1>6. n \in Nat /\ m \in Nat
  BY <1>2, <1>4, <1>5
<1>7. n # 0 => m \in 1..Incarnation /\ n <= Len(logs[m])
  BY <1>2, <1>4, <1>5
<1>8. PICK d : d = client'
  OBVIOUS
<1>9. /\ d \in Clients /\ d.timeline = client.timeline /\ d.cursor = client.cursor
      /\ d.cursorInc = client.cursorInc /\ d.older = client.older /\ d.phase = "page"
      /\ d.epoch = client.epoch /\ d.stateSeq = n /\ d.stateInc = m
  BY <1>1, <1>3, <1>6, <1>8 DEF Clients
<1>10. Asks(d, requests)
  <2>1. \A q \in requests : q.epoch <= d.epoch /\ q.epoch # d.epoch
    BY <1>1, <1>3, <1>9 DEF Asks
  <2>2. d.older # Nil => Len(d.timeline) >= 1 /\ d.older = d.timeline[1].seq
    BY <1>1, <1>9 DEF Asks
  <2> QED
    BY <2>1, <2>2, AsksNothing
<1>11. Wiring'
  <2>1. client'.phase # "stream" /\ client.phase # "stream" /\ Inc' = Inc
    BY <1>3, <1>8, <1>9 DEF Inc
  <2> QED
    BY <1>1, <1>3, <2>1 DEF Wiring
<1> QED
  BY <1>1, <1>3, <1>7, <1>8, <1>9, <1>10, <1>11, ClientRests

LEMMA ResyncFailsKeeps ==
  ASSUME SInv, ResyncFails
  PROVE  CInv'
<1>1. /\ client \in Clients /\ requests \in SUBSET Requests /\ Wiring
      /\ Asks(client, requests) /\ Known(client, logs, Incarnation)
  BY DEF SInv, CInv, Parts
<1>2. /\ client.phase \in {"get", "page"}
      /\ UNCHANGED <<sess, journal, logs, conn, wire, requests>>
      /\ client' = [client EXCEPT !.phase = "error"]
  BY DEF ResyncFails
<1>3. PICK d : d = client'
  OBVIOUS
<1>4. /\ d \in Clients /\ d.timeline = client.timeline /\ d.cursor = client.cursor
      /\ d.cursorInc = client.cursorInc /\ d.older = client.older /\ d.phase = "error"
      /\ d.epoch = client.epoch /\ d.stateSeq = client.stateSeq /\ d.stateInc = client.stateInc
  BY <1>1, <1>2, <1>3 DEF Clients
<1>5. Asks(d, requests)
  <2>1. \A q \in requests : q.epoch <= d.epoch /\ q.epoch # d.epoch
    BY <1>1, <1>2, <1>4 DEF Asks
  <2>2. d.older # Nil => Len(d.timeline) >= 1 /\ d.older = d.timeline[1].seq
    BY <1>1, <1>4 DEF Asks
  <2> QED
    BY <2>1, <2>2, AsksNothing
<1>6. Wiring'
  <2>1. client'.phase # "stream" /\ client.phase # "stream" /\ Inc' = Inc
    BY <1>2, <1>3, <1>4 DEF Inc
  <2> QED
    BY <1>1, <1>2, <2>1 DEF Wiring
<1>7. d.stateSeq # 0 => d.stateInc \in 1..Incarnation /\ d.stateSeq <= Len(logs[d.stateInc])
  BY <1>1, <1>4 DEF Known
<1> QED
  BY <1>1, <1>2, <1>3, <1>4, <1>5, <1>6, <1>7, ClientRests

LEMMA PageAnsweredKeeps ==
  ASSUME SInv, PageAnswered
  PROVE  CInv'
<1>1. /\ client.phase = "page" /\ sess = "live"
      /\ UNCHANGED <<sess, journal, logs, conn, wire, requests>>
      /\ client' = Seeded(client, Page(journal, Nil, PageSize))
  BY DEF PageAnswered
<1>2. /\ IInv /\ client \in Clients /\ requests \in SUBSET Requests /\ Wiring
      /\ Asks(client, requests) /\ Known(client, logs, Incarnation)
      /\ Whole(client, Inc, logs[Inc], OldestSeq(journal))
  BY <1>1 DEF SInv, CInv, Parts
<1>3. /\ Inc \in Nat /\ Inc >= 1 /\ Incarnation = Inc
      /\ logs[Inc] \in Seq(Kinds) /\ Len(logs[Inc]) \in Nat /\ Len(logs[Inc]) >= 1
      /\ Holds(journal, Entries(Inc, logs[Inc]))
  BY <1>1, <1>2, Logged DEF Whole
<1>4. PICK log, oldest : log = logs[Inc] /\ oldest = OldestSeq(journal)
  OBVIOUS
<1>5. oldest \in Nat /\ oldest >= 1
  BY <1>3, <1>4, Begins
<1>6. PICK page : page = Page(journal, Nil, PageSize)
  OBVIOUS
<1>7. PICK items, next : items = page.items /\ next = page.nextBefore
  OBVIOUS
<1>8. IsPage(items, next, Inc, log, oldest, Nil)
  <2>1. log # <<>>
    BY <1>3, <1>4
  <2>2. Nil \in Nat \cup {Nil}
    OBVIOUS
  <2> QED
    BY <1>3, <1>4, <1>6, <1>7, <2>1, <2>2, PageServes
<1>9. items \in Seq(Envelopes) /\ (next # Nil => Len(items) >= 1 /\ next = items[1].seq)
  BY <1>8 DEF IsPage
<1>10. /\ Len(items) \in Nat /\ (items # <<>> <=> Len(items) >= 1)
       /\ \A k \in 1..Len(items) : items[k].seq \in Nat
  BY <1>9, Enveloped
<1>11. PICK n, m : /\ n = (IF items # <<>> THEN items[Len(items)].seq ELSE client.stateSeq)
                   /\ m = (IF items # <<>> \/ client.stateSeq = 0 THEN Inc ELSE client.stateInc)
  OBVIOUS
<1>12. /\ client.stateSeq \in Nat /\ client.stateInc \in Nat
       /\ client.stateSeq # 0 => /\ client.stateInc \in 1..Inc
                                 /\ client.stateSeq <= Len(logs[client.stateInc])
  BY <1>2, <1>3, ClientParts DEF Known
<1>13. n \in Nat /\ m \in Nat /\ m <= Inc
  <2>1. n \in Nat
    <3>1. CASE items # <<>>
      <4>1. Len(items) \in 1..Len(items)
        BY <1>10, <3>1
      <4> QED
        BY <1>10, <1>11, <3>1, <4>1
    <3>2. CASE items = <<>>
      BY <1>11, <1>12, <3>2
    <3> QED
      BY <3>1, <3>2
  <2>2. m \in Nat /\ m <= Inc
    BY <1>3, <1>11, <1>12
  <2> QED
    BY <2>1, <2>2
<1>14. next \in Nat \cup {Nil}
  BY <1>9, <1>10
<1>15. PICK d : d = client'
  OBVIOUS
<1>16. d = [client EXCEPT !.phase = "stream", !.timeline = items, !.older = next,
                          !.loadingOlder = FALSE, !.cursor = n, !.cursorInc = m]
  BY <1>1, <1>6, <1>7, <1>11, <1>15 DEF Seeded
<1>17. /\ d \in Clients /\ d.phase = "stream" /\ d.timeline = items /\ d.older = next
       /\ d.cursor = n /\ d.cursorInc = m /\ d.epoch = client.epoch
       /\ d.stateSeq = client.stateSeq /\ d.stateInc = client.stateInc
  BY <1>2, <1>9, <1>13, <1>14, <1>16 DEF Clients
<1>18. Len(items) >= 1 => d.cursor = items[Len(items)].seq
  BY <1>10, <1>11, <1>17
<1>19. Parts(d, {}, logs, Inc)
  <2>1. d.cursorInc <= Inc
    BY <1>13, <1>17
  <2>2. d.stateSeq # 0 => d.stateInc \in 1..Inc /\ d.stateSeq <= Len(logs[d.stateInc])
    BY <1>12, <1>17
  <2>3. IsPage(items, next, Inc, logs[Inc], oldest, Nil)
    BY <1>4, <1>8
  <2> QED
    BY <1>3, <1>5, <1>17, <1>18, <2>1, <2>2, <2>3, PartsSeeded
<1>20. Whole(d, Inc, log, oldest)
  <2>1. ASSUME Len(items) = 0, d.cursorInc = Inc PROVE d.cursor <= Len(log)
    <3>1. items = <<>> /\ d.cursor = client.stateSeq
      BY <1>10, <1>11, <1>17, <2>1
    <3>2. CASE client.stateSeq = 0
      BY <1>3, <1>4, <3>1, <3>2
    <3>3. CASE client.stateSeq # 0
      <4>1. client.stateInc = Inc
        BY <1>11, <1>17, <2>1, <3>1, <3>3
      <4> QED
        BY <1>4, <1>12, <3>1, <3>3, <4>1
    <3> QED
      BY <3>2, <3>3
  <2>2. Len(log) \in Nat /\ Len(log) >= 1
    BY <1>3, <1>4
  <2> QED
    BY <1>3, <1>5, <1>8, <1>17, <1>18, <2>1, <2>2, WholeSeeded
<1>21. Asks(d, requests)
  <2>1. \A q \in requests : q.epoch <= d.epoch /\ q.epoch # d.epoch
    BY <1>1, <1>2, <1>17 DEF Asks
  <2>2. d.older # Nil => Len(d.timeline) >= 1 /\ d.older = d.timeline[1].seq
    BY <1>9, <1>17
  <2> QED
    BY <2>1, <2>2, AsksNothing
<1>22. conn = "none" /\ wire = <<>> /\ wire \in Seq(Envelopes \cup Controls)
  BY <1>1, <1>2 DEF Wiring
<1>23. Wiring' /\ Flying(wire') = {}
  BY <1>1, <1>15, <1>17, <1>22, NoneFly DEF Wiring
<1>24. Inc' = Inc /\ Incarnation' = Inc
  BY <1>1, <1>3 DEF Inc, Incarnation
<1> QED
  BY <1>1, <1>2, <1>4, <1>15, <1>17, <1>19, <1>20, <1>21, <1>23, <1>24 DEF CInv

\* What is left when the first frame is taken.
LEMMA TailFlies ==
  ASSUME NEW w \in Seq(Envelopes \cup Controls), w # <<>>
  PROVE  /\ Tail(w) \in Seq(Envelopes \cup Controls)
         /\ Flying(Tail(w)) \in SUBSET Flying(w)
         /\ Head(w) = w[1] /\ 1 \in 1..Len(w)
<1>1. PICK v : v = Tail(w)
  OBVIOUS
<1>2. /\ Len(w) \in Nat /\ 1 \in 1..Len(w) /\ Head(w) = w[1]
      /\ v \in Seq(Envelopes \cup Controls)
      /\ \A i \in 1..Len(v) : i + 1 \in 1..Len(w) /\ v[i] = w[i + 1]
  BY <1>1
<1>3. \A i \in 1..Len(v) : v[i] \in Controls \/ \E k \in 1..Len(w) : v[i] = w[k]
  BY <1>2
<1>4. Flying(v) \in SUBSET Flying(w)
  BY <1>3, FewerFly
<1> QED
  BY <1>1, <1>2, <1>4

\* Following an envelope leaves what older messages are asked for.
LEMMA AsksOn ==
  ASSUME NEW c \in Clients, NEW e \in Envelopes, NEW qs, Asks(c, qs),
         NEW d, d = Followed(c, e)
  PROVE  Asks(d, qs)
<1>1. PICK r, t : r = c.timeline /\ t = d.timeline
  OBVIOUS
<1>2. /\ t = (IF e.kind = "message" THEN Append(r, e) ELSE r)
      /\ d.phase = c.phase /\ d.epoch = c.epoch /\ d.older = c.older
      /\ d.loadingOlder = c.loadingOlder
  BY <1>1, FollowedFields
<1>3. r \in Seq(Envelopes) /\ Len(r) \in Nat
  BY <1>1, ClientParts
<1>4. Len(r) >= 1 => Len(t) >= 1 /\ t[1] = r[1]
  <2>1. CASE t = r
    BY <2>1
  <2>2. CASE t = Append(r, e)
    <3> SUFFICES ASSUME Len(r) >= 1 PROVE Len(t) >= 1 /\ t[1] = r[1]
      OBVIOUS
    <3>1. 1 \in 1..Len(r)
      BY <1>3
    <3> QED
      BY <1>3, <2>2, <3>1
  <2> QED
    BY <1>2, <2>1, <2>2
<1>5. d.older # Nil => Len(t) >= 1 /\ d.older = t[1].seq
  BY <1>1, <1>2, <1>4 DEF Asks
<1> QED
  BY <1>1, <1>2, <1>5 DEF Asks

LEMMA ReceiveKeeps ==
  ASSUME SInv, Receive
  PROVE  CInv'
<1>1. /\ wire # <<>> /\ UNCHANGED <<sess, journal, logs, requests>>
      /\ \/ Head(wire) = Reset /\ StartResync
         \/ Head(wire) = Garbled /\ conn' = "none" /\ wire' = <<>> /\ client' = client
         \/ Head(wire) \notin {Reset, Garbled} /\ Deliver(Head(wire))
  BY DEF Receive
<1>2. /\ IInv /\ client \in Clients /\ requests \in SUBSET Requests /\ Wiring
      /\ Asks(client, requests) /\ Parts(client, Flying(wire), logs, Incarnation)
      /\ sess = "live" => Whole(client, Inc, logs[Inc], OldestSeq(journal))
  BY DEF SInv, CInv
<1>3. /\ wire \in Seq(Envelopes \cup Controls) /\ conn \in {"attached", "closing"}
      /\ client.phase = "stream"
  BY <1>1, <1>2 DEF Wiring
<1>4. CASE Head(wire) = Reset /\ StartResync
  BY <1>1, <1>4, StartResyncKeeps
<1>5. CASE conn' = "none" /\ wire' = <<>> /\ client' = client
  <2>1. Flying(wire') \in SUBSET Flying(wire) /\ wire' \in Seq(Envelopes \cup Controls)
    BY <1>5, NoneFly
  <2> QED
    BY <1>1, <1>5, <2>1, FewerFramesKeep
<1>6. CASE wire' = Tail(wire) /\ UNCHANGED <<client, conn>>
  <2>1. Flying(wire') \in SUBSET Flying(wire) /\ wire' \in Seq(Envelopes \cup Controls)
    BY <1>1, <1>3, <1>6, TailFlies
  <2> QED
    BY <1>1, <1>3, <1>6, <2>1, FewerFramesKeep
<1>7. ASSUME NEW e, e = Head(wire), e \notin {Reset, Garbled}, e.seq > client.cursor,
             ~IsGap(e.seq), client' = Followed(client, e), wire' = Tail(wire), conn' = conn
      PROVE  CInv'
  <2>1. /\ e \in Envelopes /\ e \in Flying(wire)
        /\ Flying(wire') \in SUBSET Flying(wire) /\ wire' \in Seq(Envelopes \cup Controls)
    <3>1. e = wire[1] /\ 1 \in 1..Len(wire) /\ wire[1] \notin Controls
      BY <1>1, <1>3, <1>7, TailFlies DEF Controls
    <3>2. e \in Envelopes /\ e \in Flying(wire)
      BY <1>3, <3>1, EnvelopeFlies
    <3> QED
      BY <1>1, <1>3, <1>7, <3>2, TailFlies
  <2>2. e.seq \in Nat /\ e.inc \in Nat /\ client.cursor \in Nat /\ client.cursorInc \in Nat
    <3>1. e.seq \in Nat /\ e.inc \in Nat
      BY <2>1 DEF Envelopes
    <3> QED
      BY <1>2, <3>1, ClientParts
  <2>3. e.seq = client.cursor + 1
    BY <1>7, <2>2 DEF IsGap
  <2>4. PICK d : d = client'
    OBVIOUS
  <2>5. d = Followed(client, e)
    BY <1>7, <2>4
  <2>6. d \in Clients /\ d.phase = "stream"
    BY <1>2, <1>3, <2>1, <2>5, FollowedFields
  <2>7. /\ Inc \in Nat /\ Incarnation \in Nat /\ \A i \in 1..Inc : Len(logs[i]) \in Nat
        /\ Incarnation <= Inc /\ (sess = "live" => Incarnation = Inc)
    BY <1>2, Logged
  <2>8. \A i \in 1..Incarnation : Len(logs[i]) \in Nat
    BY <2>7
  <2>9. Parts(d, Flying(wire'), logs, Incarnation)
    <3>1. PICK gl : gl = Flying(wire')
      OBVIOUS
    <3>2. gl \in SUBSET Flying(wire)
      BY <2>1, <3>1
    <3>3. Parts(d, gl, logs, Incarnation)
      BY <1>2, <1>3, <2>1, <2>3, <2>5, <2>7, <2>8, <3>2, PartsFollowed
    <3> QED
      BY <3>1, <3>3
  <2>10. ASSUME sess = "live" PROVE Whole(d, Inc, logs[Inc], OldestSeq(journal))
    <3>1. Genuine(e, logs, Inc) /\ client.cursorInc <= e.inc
      BY <1>2, <2>1, <2>7, <2>10 DEF Parts, Arrives
    <3>2. e.inc <= Inc /\ (e.inc = Inc => e.seq <= Len(logs[Inc]) /\ e.kind = logs[Inc][e.seq])
      BY <2>2, <2>7, <3>1 DEF Genuine
    <3>3. PICK log, oldest : log = logs[Inc] /\ oldest = OldestSeq(journal)
      OBVIOUS
    <3>4. oldest \in Nat
      <4>1. /\ log \in Seq(Kinds) /\ Len(log) >= 1 /\ Holds(journal, Entries(Inc, log))
        <5>1. logs[Inc] \in Seq(Kinds) /\ Holds(journal, Entries(Inc, logs[Inc]))
          BY <1>2, <2>10, Logged
        <5>2. Len(logs[Inc]) >= 1
          BY <1>2, <2>10 DEF Whole
        <5> QED
          BY <3>3, <5>1, <5>2
      <4> QED
        BY <2>7, <3>3, <4>1, Begins
    <3>5. Whole(client, Inc, log, oldest)
      BY <1>2, <2>10, <3>3
    <3>6. e.inc = Inc => e.seq <= Len(log) /\ e.kind = log[e.seq]
      BY <3>2, <3>3
    <3>7. Whole(d, Inc, log, oldest)
      BY <1>2, <1>3, <2>1, <2>3, <2>5, <2>7, <3>1, <3>2, <3>4, <3>5, <3>6, WholeFollowed
    <3> QED
      BY <3>3, <3>7
  <2>11. Asks(d, requests)
    BY <1>2, <2>1, <2>5, AsksOn
  <2>12. Inc' = Inc /\ Incarnation' = Incarnation
    BY <1>1 DEF Inc, Incarnation
  <2>13. Wiring'
    <3>1. \A a \in Flying(wire') : a \in Flying(wire)
      BY <2>1
    <3>2. client'.phase = "stream" /\ conn' \in {"attached", "closing"}
      BY <1>3, <1>7, <2>4, <2>6
    <3>3. conn' = "attached" => sess' = "live" /\ \A a \in Flying(wire') : a.inc = Inc'
      BY <1>1, <1>2, <1>7, <2>12, <3>1 DEF Wiring
    <3> QED
      BY <2>1, <3>2, <3>3 DEF Wiring
  <2> QED
    BY <1>1, <1>2, <2>4, <2>6, <2>9, <2>10, <2>11, <2>12, <2>13 DEF CInv
<1> QED
  BY <1>1, <1>4, <1>5, <1>6, <1>7 DEF Deliver

-----------------------------------------------------------------------------
\* Scrolling back.

\* A user who does not scroll while a resync is under way asks for older messages
\* of what the stream goes on from.
LEMMA LoadOlderKeeps ==
  ASSUME ~ScrollsInResync, SInv, LoadOlder
  PROVE  CInv'
<1>1. /\ client.older # Nil /\ ~client.loadingOlder /\ client.phase \in {"stream", "error"}
      /\ client' = [client EXCEPT !.loadingOlder = TRUE]
      /\ requests' = requests \cup {[epoch |-> client.epoch, before |-> client.older]}
      /\ UNCHANGED <<sess, journal, logs, conn, wire>>
  BY DEF LoadOlder
<1>2. /\ client \in Clients /\ requests \in SUBSET Requests /\ Wiring
      /\ Asks(client, requests) /\ Known(client, logs, Incarnation)
  BY DEF SInv, CInv, Parts
<1>3. PICK d : d = client'
  OBVIOUS
<1>4. /\ d \in Clients /\ d.timeline = client.timeline /\ d.cursor = client.cursor
      /\ d.cursorInc = client.cursorInc /\ d.older = client.older /\ d.phase = client.phase
      /\ d.epoch = client.epoch /\ d.stateSeq = client.stateSeq
      /\ d.stateInc = client.stateInc /\ d.loadingOlder = TRUE
  BY <1>1, <1>2, <1>3 DEF Clients
<1>5. PICK r : r = [epoch |-> client.epoch, before |-> client.older]
  OBVIOUS
<1>6. r \in Requests /\ r.epoch = client.epoch /\ r.before = client.older
  <2>1. client.epoch \in Nat /\ client.older \in Nat
    BY <1>1, <1>2, ClientParts
  <2> QED
    BY <1>5, <2>1 DEF Requests
<1>7. requests' \in SUBSET Requests
  BY <1>1, <1>2, <1>5, <1>6
<1>8. Asks(d, requests')
  <2>1. d.older # Nil => Len(d.timeline) >= 1 /\ d.older = d.timeline[1].seq
    BY <1>2, <1>4 DEF Asks
  <2>2. ASSUME NEW q \in requests'
        PROVE  /\ q.epoch <= d.epoch
               /\ q.epoch = d.epoch =>
                    d.loadingOlder /\ d.phase \in {"stream", "error"} /\ q.before = d.older
    <3>1. CASE q \in requests
      BY <1>1, <1>2, <1>4, <3>1 DEF Asks
    <3>2. CASE q = r
      <4>1. q.epoch = d.epoch /\ q.before = d.older /\ d.epoch \in Nat
        BY <1>4, <1>6, <3>2, ClientParts
      <4> QED
        BY <1>1, <1>4, <4>1
    <3> QED
      BY <1>1, <1>5, <3>1, <3>2
  <2> QED
    BY <2>1, <2>2 DEF Asks
<1>9. Wiring'
  BY <1>1, <1>2, <1>3, <1>4 DEF Wiring, Inc
<1>10. d.stateSeq # 0 => d.stateInc \in 1..Incarnation /\ d.stateSeq <= Len(logs[d.stateInc])
  BY <1>2, <1>4 DEF Known
<1> QED
  BY <1>1, <1>2, <1>3, <1>4, <1>7, <1>8, <1>9, <1>10, ClientRests

\* Only one request counts.
LEMMA OneCounts ==
  ASSUME NEW c, NEW qs \in SUBSET Requests, Asks(c, qs), NEW r \in qs, r.epoch = c.epoch
  PROVE  /\ r.before = c.older /\ c.phase \in {"stream", "error"}
         /\ \A q \in qs \ {r} : q.epoch <= c.epoch /\ q.epoch # c.epoch
<1>1. r.before = c.older /\ c.phase \in {"stream", "error"}
  BY DEF Asks
<1>2. ASSUME NEW q \in qs, q.epoch = c.epoch PROVE q = r
  <2>1. q.before = r.before /\ q.epoch = r.epoch
    BY <1>1, <1>2 DEF Asks
  <2> QED
    BY <2>1 DEF Requests
<1> QED
  BY <1>1, <1>2 DEF Asks

LEMMA OlderFailsKeeps ==
  ASSUME SInv, NEW r \in requests, OlderFails(r)
  PROVE  CInv'
<1>1. /\ UNCHANGED <<sess, journal, logs, conn, wire>> /\ requests' = requests \ {r}
      /\ client' = IF IsCurrent(r) THEN [client EXCEPT !.loadingOlder = FALSE] ELSE client
  BY DEF OlderFails
<1>2. /\ client \in Clients /\ requests \in SUBSET Requests /\ Wiring
      /\ Asks(client, requests) /\ Known(client, logs, Incarnation)
  BY DEF SInv, CInv, Parts
<1>3. PICK d : d = client'
  OBVIOUS
<1>4. /\ d \in Clients /\ d.timeline = client.timeline /\ d.cursor = client.cursor
      /\ d.cursorInc = client.cursorInc /\ d.older = client.older /\ d.phase = client.phase
      /\ d.epoch = client.epoch /\ d.stateSeq = client.stateSeq
      /\ d.stateInc = client.stateInc
  <2>1. CASE d = client
    BY <1>2, <2>1
  <2>2. CASE d = [client EXCEPT !.loadingOlder = FALSE]
    BY <1>2, <2>2 DEF Clients
  <2> QED
    BY <1>1, <1>3, <2>1, <2>2
<1>5. Asks(d, requests')
  <2>1. CASE r.epoch = client.epoch
    <3>1. \A q \in requests' : q.epoch <= d.epoch /\ q.epoch # d.epoch
      BY <1>1, <1>2, <1>4, <2>1, OneCounts
    <3>2. d.older # Nil => Len(d.timeline) >= 1 /\ d.older = d.timeline[1].seq
      BY <1>2, <1>4 DEF Asks
    <3> QED
      BY <3>1, <3>2, AsksNothing
  <2>2. CASE r.epoch # client.epoch
    <3>1. d = client
      BY <1>1, <1>3, <2>2 DEF IsCurrent
    <3> QED
      BY <1>1, <1>2, <3>1 DEF Asks
  <2> QED
    BY <2>1, <2>2
<1>6. Wiring'
  BY <1>1, <1>2, <1>3, <1>4 DEF Wiring, Inc
<1>7. d.stateSeq # 0 => d.stateInc \in 1..Incarnation /\ d.stateSeq <= Len(logs[d.stateInc])
  BY <1>2, <1>4 DEF Known
<1>8. requests' \in SUBSET Requests
  BY <1>1, <1>2
<1> QED
  BY <1>1, <1>2, <1>3, <1>4, <1>5, <1>6, <1>7, <1>8, ClientRests

LEMMA OlderAnsweredKeeps ==
  ASSUME SInv, NEW q \in requests, OlderAnswered(q)
  PROVE  CInv'
<1>1. PICK page : page = Page(journal, q.before, PageSize)
  OBVIOUS
<1>2. PICK items, next : items = page.items /\ next = page.nextBefore
  OBVIOUS
<1>3. /\ sess = "live" /\ UNCHANGED <<sess, journal, logs, conn, wire>>
      /\ requests' = requests \ {q}
      /\ IF q.epoch = client.epoch
         THEN client' = [client EXCEPT !.timeline = items \o @, !.older = next,
                                       !.loadingOlder = FALSE]
         ELSE client' = client
  BY <1>1, <1>2 DEF OlderAnswered, IsCurrent
<1>4. /\ IInv /\ client \in Clients /\ requests \in SUBSET Requests /\ Wiring
      /\ Asks(client, requests) /\ Parts(client, Flying(wire), logs, Incarnation)
      /\ Known(client, logs, Incarnation)
      /\ Whole(client, Inc, logs[Inc], OldestSeq(journal))
  BY <1>3 DEF SInv, CInv, Parts
<1>5. requests' \in SUBSET Requests
  BY <1>3, <1>4
<1>6. CASE q.epoch # client.epoch
  <2>1. PICK d : d = client'
    OBVIOUS
  <2>2. d = client
    BY <1>3, <1>6, <2>1
  <2>3. Asks(d, requests')
    BY <1>3, <1>4, <2>2 DEF Asks
  <2>4. Wiring'
    BY <1>3, <1>4, <2>1, <2>2 DEF Wiring, Inc
  <2>5. d.stateSeq # 0 => d.stateInc \in 1..Incarnation /\ d.stateSeq <= Len(logs[d.stateInc])
    BY <1>4, <2>2 DEF Known
  <2>6. Flying(wire') \in SUBSET Flying(wire)
    BY <1>3
  <2> QED
    BY <1>3, <1>4, <1>5, <2>1, <2>2, <2>3, <2>4, <2>5, <2>6, ClientRests
<1>7. CASE q.epoch = client.epoch
  <2>1. /\ Inc \in Nat /\ Inc >= 1 /\ Incarnation = Inc
        /\ logs[Inc] \in Seq(Kinds) /\ Len(logs[Inc]) \in Nat /\ Len(logs[Inc]) >= 1
        /\ Holds(journal, Entries(Inc, logs[Inc]))
    BY <1>3, <1>4, Logged DEF Whole
  <2>2. PICK log, oldest : log = logs[Inc] /\ oldest = OldestSeq(journal)
    OBVIOUS
  <2>3. oldest \in Nat /\ oldest >= 1
    BY <2>1, <2>2, Begins
  <2>4. /\ q.before = client.older /\ q.before \in Nat
        /\ \A a \in requests \ {q} : a.epoch <= client.epoch /\ a.epoch # client.epoch
    <3>1. q.before \in Nat
      BY <1>4 DEF Requests
    <3> QED
      BY <1>4, <1>7, <3>1, OneCounts
  <2>5. Len(client.timeline) >= 1 /\ q.before = client.timeline[1].seq
    <3>1. client.older # Nil
      BY <2>4, NilIsNoNumber
    <3> QED
      BY <1>4, <2>4, <3>1 DEF Asks
  <2>6. IsPage(items, next, Inc, log, oldest, client.timeline[1].seq)
    <3>1. log # <<>> /\ log \in Seq(Kinds) /\ Holds(journal, Entries(Inc, log))
      BY <2>1, <2>2
    <3>2. q.before \in Nat \cup {Nil}
      BY <2>4
    <3>3. IsPage(items, next, Inc, log, oldest, q.before)
      BY <1>1, <1>2, <2>1, <2>2, <3>1, <3>2, PageServes
    <3> QED
      BY <2>5, <3>3
  <2>7. items \in Seq(Envelopes) /\ (next # Nil => Len(items) >= 1 /\ next = items[1].seq)
    BY <2>6 DEF IsPage
  <2>8. /\ Len(items) \in Nat /\ \A k \in 1..Len(items) : items[k].seq \in Nat
    BY <2>7, Enveloped
  <2>9. next \in Nat \cup {Nil}
    BY <2>7, <2>8
  <2>10. PICK r, t : r = client.timeline /\ t = items \o r
    OBVIOUS
  <2>11. /\ r \in Seq(Envelopes) /\ t \in Seq(Envelopes)
         /\ Len(items) >= 1 => Len(t) >= 1 /\ t[1] = items[1]
    <3>1. r \in Seq(Envelopes)
      BY <1>4, <2>10, ClientParts
    <3>2. AfterOneAnother(items, r, t)
      BY <2>7, <2>10, <3>1, Joined
    <3>3. Len(items) >= 1 => 1 \in 1..Len(items)
      BY <2>8
    <3>4. t \in Seq(Envelopes) /\ \A k \in 1..Len(items) : k \in 1..Len(t) /\ t[k] = items[k]
      BY <3>2 DEF AfterOneAnother
    <3>5. Len(t) \in Nat
      BY <3>4
    <3> QED
      BY <3>1, <3>3, <3>4, <3>5
  <2>12. PICK d : d = client'
    OBVIOUS
  <2>13. d = [client EXCEPT !.timeline = t, !.older = next, !.loadingOlder = FALSE]
    BY <1>3, <1>4, <1>7, <2>10, <2>12 DEF Clients
  <2>14. /\ d \in Clients /\ d.timeline = t /\ d.older = next /\ d.phase = client.phase
         /\ d.cursor = client.cursor /\ d.cursorInc = client.cursorInc
         /\ d.epoch = client.epoch /\ d.stateSeq = client.stateSeq
         /\ d.stateInc = client.stateInc
    BY <1>4, <2>9, <2>11, <2>13 DEF Clients
  <2>15. d.timeline = items \o client.timeline
    BY <2>10, <2>14
  <2>16. Parts(d, Flying(wire), logs, Inc)
    <3>1. Parts(client, Flying(wire), logs, Inc) /\ IsPage(items, next, Inc, logs[Inc], oldest, client.timeline[1].seq)
      BY <1>4, <2>1, <2>2, <2>6
    <3> QED
      BY <1>4, <2>1, <2>3, <2>5, <2>14, <2>15, <3>1, PartsPrepended
  <2>17. Whole(d, Inc, log, oldest)
    <3>1. client.timeline[1].inc = Inc => client.timeline[1].seq <= Len(log)
      <4>1. 1 \in 1..Len(client.timeline)
        BY <1>4, <2>5, ClientParts
      <4>2. client.timeline[1].inc = Inc => client.timeline[1].seq \in 1..Len(log)
        BY <1>4, <2>2, <4>1, ShownIsLogged
      <4> QED
        BY <2>1, <2>2, <4>2
    <3>2. Len(log) \in Nat /\ Whole(client, Inc, log, oldest)
      BY <1>4, <2>1, <2>2
    <3> QED
      BY <1>4, <2>1, <2>3, <2>5, <2>6, <2>14, <2>15, <3>1, <3>2, WholePrepended
  <2>18. Asks(d, requests')
    <3>1. \A a \in requests' : a.epoch <= d.epoch /\ a.epoch # d.epoch
      BY <1>3, <2>4, <2>14
    <3>2. d.older # Nil => Len(d.timeline) >= 1 /\ d.older = d.timeline[1].seq
      BY <2>7, <2>11, <2>14
    <3> QED
      BY <3>1, <3>2, AsksNothing
  <2>19. Wiring'
    BY <1>3, <1>4, <2>12, <2>14 DEF Wiring, Inc
  <2>20. Inc' = Inc /\ Incarnation' = Inc
    BY <1>3, <2>1 DEF Inc, Incarnation
  <2> QED
    BY <1>3, <1>5, <2>2, <2>12, <2>14, <2>16, <2>17, <2>18, <2>19, <2>20 DEF CInv
<1> QED
  BY <1>6, <1>7

-----------------------------------------------------------------------------
\* What always holds.

LEMMA InitKeeps == Init => SInv
<1> SUFFICES ASSUME Init PROVE SInv
  OBVIOUS
<1>1. /\ IInv /\ sess = "offline" /\ logs = <<>> /\ conn = "none" /\ wire = <<>>
      /\ requests = {}
      /\ client = [phase |-> "get", epoch |-> 1, stateSeq |-> 0, stateInc |-> 0,
                   cursor |-> 0, cursorInc |-> 0, timeline |-> <<>>,
                   older |-> Nil, loadingOlder |-> FALSE]
  BY InitHolds DEF Init
<1>2. Incarnation = 0 /\ Flying(wire) = {}
  BY <1>1, NoneFly DEF Incarnation, Inc
<1>3. PICK none : none = <<>>
  OBVIOUS
<1>4. none \in Seq(Envelopes) /\ Len(none) = 0
  BY <1>3
<1>5. /\ client \in Clients /\ client.timeline = none /\ client.cursorInc = 0
      /\ client.stateSeq = 0 /\ client.older = Nil /\ client.phase = "get"
  <2>1. client = [phase |-> "get", epoch |-> 1, stateSeq |-> 0, stateInc |-> 0,
                  cursor |-> 0, cursorInc |-> 0, timeline |-> none,
                  older |-> Nil, loadingOlder |-> FALSE]
    BY <1>1, <1>3
  <2> QED
    BY <1>4, <2>1 DEF Clients
<1>6. Parts(client, {}, logs, 0)
  BY <1>4, <1>5 DEF Parts, Known, Arrives, Exact, Follows, OfOne
<1>7. Asks(client, requests)
  BY <1>1, <1>5 DEF Asks
<1>8. Wiring
  BY <1>1, <1>2 DEF Wiring
<1> QED
  BY <1>1, <1>2, <1>5, <1>6, <1>7, <1>8 DEF SInv, CInv

LEMMA StepKeeps ==
  ASSUME ~ScrollsInResync, SInv, [Next]_vars
  PROVE  SInv'
<1>1. IInv'
  BY NextHolds DEF SInv
<1> SUFFICES CInv'
  BY <1>1 DEF SInv
<1>2. ASSUME NEW kind \in Kinds, Frame(kind) PROVE CInv'
  BY <1>1, <1>2, FrameKeeps
<1>3. CASE BeginLoad
  BY <1>3, BeginLoadKeeps
<1>4. CASE Replay
  BY <1>4, ReplayKeeps
<1>5. CASE Loaded
  BY <1>5, LoadedKeeps
<1>6. CASE LoadFails
  BY <1>6, LoadFailsKeeps
<1>7. CASE HostRestart
  BY <1>7, HostRestartKeeps
<1>8. CASE Attach
  BY <1>8, AttachKeeps
<1>9. CASE Cut
  BY <1>9, CutKeeps
<1>10. CASE Disturb
  BY <1>10, DisturbKeeps
<1>11. CASE Refresh
  BY <1>11, RefreshKeeps
<1>12. CASE GetAnswered
  BY <1>12, GetAnsweredKeeps
<1>13. CASE PageAnswered
  BY <1>13, PageAnsweredKeeps
<1>14. CASE ResyncFails
  BY <1>14, ResyncFailsKeeps
<1>15. CASE Connect
  BY <1>15, ConnectKeeps
<1>16. CASE Receive
  BY <1>16, ReceiveKeeps
<1>17. CASE CloseSeen
  BY <1>17, CloseSeenKeeps
<1>18. CASE LoadOlder
  BY <1>18, LoadOlderKeeps
<1>19. ASSUME NEW r \in requests, OlderAnswered(r) PROVE CInv'
  BY <1>19, OlderAnsweredKeeps
<1>20. ASSUME NEW r \in requests, OlderFails(r) PROVE CInv'
  BY <1>20, OlderFailsKeeps
<1>21. CASE UNCHANGED vars
  <2>1. CInv
    BY DEF SInv
  <2> QED
    BY <1>21, <2>1 DEF vars, CInv, Wiring, Incarnation, Inc
<1> QED
  BY <1>2, <1>3, <1>4, <1>5, <1>6, <1>7, <1>8, <1>9, <1>10, <1>11, <1>12, <1>13, <1>14,
     <1>15, <1>16, <1>17, <1>18, <1>19, <1>20, <1>21 DEF Next

\* What is shown, when it is of one incarnation.
LEMMA ShownIsExact ==
  ASSUME SInv, OfOne(Shown)
  PROVE  /\ Shown \in Seq(Envelopes) /\ Len(Shown) \in Nat /\ 1 \in 1..Len(Shown)
         /\ Shown[1].inc \in Nat /\ Shown[1].seq \in Nat \ {0}
         /\ Shown[1].seq <= LastShown.seq /\ LastShown.seq \in Nat
         /\ LastShown.seq <= Len(logs[Shown[1].inc]) /\ logs[Shown[1].inc] \in Seq(Kinds)
         /\ Lists(Shown, Shown[1].inc, logs[Shown[1].inc], Shown[1].seq, LastShown.seq)
<1>1. PICK r : r = Shown
  OBVIOUS
<1>2. /\ IInv /\ client \in Clients /\ Known(client, logs, Incarnation)
      /\ Exact(client.timeline, logs)
  BY DEF SInv, CInv, Parts
<1>3. /\ r \in Seq(Envelopes) /\ Len(r) \in Nat /\ Len(r) >= 1
      /\ \A k \in 1..Len(r) : r[k].inc \in Nat /\ r[k].seq \in Nat
  <2>1. r \in Seq(Envelopes) /\ Len(r) >= 1
    BY <1>1, <1>2, ClientParts DEF Shown, OfOne
  <2> QED
    BY <2>1, Enveloped
<1>4. 1 \in 1..Len(r) /\ Len(r) \in 1..Len(r)
  BY <1>3
<1>5. Genuine(r[1], logs, Incarnation) /\ Genuine(r[Len(r)], logs, Incarnation)
  BY <1>1, <1>2, <1>4 DEF Known, Shown
<1>6. r[Len(r)].inc = r[1].inc
  BY <1>1, <1>4 DEF OfOne
<1>7. Lists(r, r[1].inc, logs[r[1].inc], r[1].seq, r[Len(r)].seq)
  BY <1>1, <1>2 DEF Exact, Shown
<1>8. r[1].seq <= r[Len(r)].seq
  <2>1. Upwards(r)
    BY <1>7 DEF Lists
  <2> QED
    BY <1>3, <1>4, <2>1, Ends
<1>9. /\ r[1].inc \in 1..Inc /\ r[1].seq \in 1..Len(logs[r[1].inc])
      /\ r[Len(r)].seq \in 1..Len(logs[r[1].inc])
  <2>1. Incarnation \in Nat /\ Inc \in Nat /\ Incarnation <= Inc
    BY <1>2, Logged
  <2>2. r[1].inc \in 1..Incarnation
    BY <1>5 DEF Genuine
  <2> QED
    BY <1>5, <1>6, <2>1, <2>2 DEF Genuine
<1>10. logs[r[1].inc] \in Seq(Kinds) /\ Len(logs[r[1].inc]) \in Nat
  BY <1>2, <1>9, Logged
<1>11. LastShown = r[Len(r)]
  BY <1>1 DEF LastShown
<1>12. r[1].seq # 0 /\ r[Len(r)].seq <= Len(logs[r[1].inc])
  BY <1>3, <1>4, <1>9, <1>10
<1> QED
  BY <1>1, <1>3, <1>4, <1>7, <1>8, <1>10, <1>11, <1>12

LEMMA SInvImpliesExact == SInv => TimelineIsExact
<1> SUFFICES ASSUME SInv, Shown # <<>>, OneIncarnation PROVE IsExact
  BY DEF TimelineIsExact
<1>1. Shown \in Seq(Envelopes)
  BY ClientParts DEF SInv, CInv, Shown
<1>2. Len(Shown) >= 1 /\ FirstShown = Shown[1] /\ DOMAIN Shown = 1..Len(Shown)
  BY <1>1 DEF FirstShown
<1>3. OfOne(Shown)
  BY <1>2 DEF OneIncarnation, OfOne
<1>4. PICK inc, log, lo, hi : /\ inc = Shown[1].inc /\ log = logs[inc]
                              /\ lo = Shown[1].seq /\ hi = LastShown.seq
  OBVIOUS
<1>5. /\ inc \in Nat /\ log \in Seq(Kinds) /\ lo \in Nat \ {0} /\ hi \in Nat
      /\ lo <= hi /\ hi <= Len(log) /\ Lists(Shown, inc, log, lo, hi)
  BY <1>3, <1>4, ShownIsExact
<1>6. PICK r : r = MessagesOf(inc, lo, hi)
  OBVIOUS
<1>7. r \in Seq(Envelopes) /\ Lists(r, inc, log, lo, hi)
  <2>1. r = Messages(inc, log, lo, hi)
    BY <1>4, <1>6, MessagesOfLog
  <2>2. lo <= hi + 1
    BY <1>5
  <2> QED
    BY <1>5, <2>1, <2>2, Listed
<1>8. Shown = r
  BY <1>1, <1>5, <1>7, OneList
<1> QED
  BY <1>2, <1>4, <1>6, <1>8 DEF IsExact

LEMMA SInvImpliesHonest == SInv => HasOlderIsHonest
<1> SUFFICES ASSUME SInv, client.phase = "stream", client.older = Nil, sess = "live",
                    client.cursorInc = Inc,
                    \A i \in DOMAIN Shown : Shown[i].inc = Inc,
                    NEW s \in OldestSeq(journal)..client.cursor, logs[Inc][s] = "message"
             PROVE  \E i \in DOMAIN Shown : Shown[i].seq = s
  BY DEF HasOlderIsHonest
<1>1. PICK r, log, oldest : r = Shown /\ log = logs[Inc] /\ oldest = OldestSeq(journal)
  OBVIOUS
<1>2. /\ IInv /\ client \in Clients /\ Whole(client, Inc, log, oldest)
      /\ Follows(client, Flying(wire), logs, Incarnation) /\ r = client.timeline
  BY <1>1 DEF SInv, CInv, Parts, Shown
<1>3. /\ r \in Seq(Envelopes) /\ Len(r) \in Nat /\ DOMAIN r = 1..Len(r)
      /\ client.cursor \in Nat
  BY <1>2, ClientParts, Enveloped
<1>4. /\ Inc \in Nat /\ Incarnation = Inc /\ log \in Seq(Kinds) /\ Len(log) \in Nat
      /\ oldest \in Nat /\ s \in Nat
  <2>1. /\ Inc \in Nat /\ Incarnation = Inc /\ Inc >= 1 /\ log \in Seq(Kinds)
        /\ Holds(journal, Entries(Inc, log))
    BY <1>1, <1>2, Logged
  <2>2. Len(log) >= 1 /\ Len(log) \in Nat
    BY <1>2, <2>1 DEF Whole
  <2>3. oldest \in Nat
    BY <1>1, <2>1, <2>2, Begins
  <2>4. s \in oldest..client.cursor
    BY <1>1
  <2>5. s \in Nat
    BY <1>3, <2>3, <2>4
  <2> QED
    BY <2>1, <2>2, <2>3, <2>5
<1>5. oldest <= s /\ s <= client.cursor /\ log[s] = "message"
  BY <1>1, <1>3, <1>4
<1>6. \A k \in 1..Len(r) : r[k].inc = Inc
  BY <1>1, <1>3
<1>7. Quiet(log, oldest, IF Len(r) = 0 THEN client.cursor ELSE r[1].seq - 1)
  BY <1>2, <1>6 DEF Whole
<1>8. Len(r) # 0
  <2> SUFFICES ASSUME Len(r) = 0 PROVE FALSE
    OBVIOUS
  <2>1. Quiet(log, oldest, client.cursor)
    BY <1>7
  <2> QED
    BY <1>1, <1>5, <2>1 DEF Quiet
<1>9. OfOne(Shown) /\ r[1].inc = Inc
  BY <1>1, <1>3, <1>6, <1>8 DEF OfOne
<1>10. PICK lo, hi : lo = r[1].seq /\ hi = r[Len(r)].seq
  OBVIOUS
<1>11. /\ lo \in Nat /\ hi \in Nat /\ Lists(r, Inc, log, lo, hi)
  BY <1>1, <1>9, <1>10, ShownIsExact DEF LastShown
<1>12. lo <= s
  <2>1. Quiet(log, oldest, lo - 1)
    BY <1>7, <1>8, <1>10
  <2>2. s \notin oldest..(lo - 1)
    BY <1>5, <2>1 DEF Quiet
  <2> QED
    BY <1>4, <1>5, <1>11, <2>2
<1>13. s <= hi
  <2>1. Reaches(r, client.cursor, logs)
    BY <1>1, <1>2, <1>4, <1>9 DEF Follows
  <2>2. Quiet(log, hi + 1, client.cursor)
    BY <1>1, <1>9, <1>10, <2>1 DEF Reaches
  <2>3. s \notin (hi + 1)..client.cursor
    BY <1>5, <2>2 DEF Quiet
  <2> QED
    BY <1>3, <1>4, <1>5, <1>11, <2>3
<1>14. s \in lo..hi
  BY <1>4, <1>11, <1>12, <1>13
<1> QED
  BY <1>1, <1>3, <1>5, <1>11, <1>14 DEF Lists

\* A client whose user does not scroll back while a resync is under way shows a
\* stretch of one incarnation's conversation, none missing, none twice and in order,
\* through cuts, lost, garbled and repeated frames, evictions, loads, restarts and
\* late pages, for any capacity, page size and bounds (useAcpSession.ts apply and
\* loadOlder, subscribeToSession.ts handleFrame, journal.ts after and page).
THEOREM TimelineStaysExact ==
  ASSUME ~ScrollsInResync
  PROVE  Spec => []TimelineIsExact
<1>1. Init => SInv
  BY InitKeeps
<1>2. SInv /\ [Next]_vars => SInv'
  BY StepKeeps
<1> QED
  BY <1>1, <1>2, SInvImpliesExact, PTL DEF Spec

\* Of the same client: when its stream has no older page to ask for, every message
\* the journal holds up to the cursor is on the screen (useAcpSession.ts hasOlder).
THEOREM OlderPagesAreAnnounced ==
  ASSUME ~ScrollsInResync
  PROVE  Spec => []HasOlderIsHonest
<1>1. Init => SInv
  BY InitKeeps
<1>2. SInv /\ [Next]_vars => SInv'
  BY StepKeeps
<1> QED
  BY <1>1, <1>2, SInvImpliesHonest, PTL DEF Spec

-----------------------------------------------------------------------------
\* Counting messages.

\* How many of the first n envelopes are messages.
Tally(inc, log, n) == Len(Messages(inc, log, 1, n))

\* The messages of two stretches one after the other.
LEMMA Splits ==
  ASSUME NEW inc \in Nat, NEW log \in Seq(Kinds),
         NEW n \in Nat, NEW m \in Nat, n <= m, m <= Len(log)
  PROVE  /\ Tally(inc, log, n) \in Nat /\ Tally(inc, log, m) \in Nat
         /\ Len(Messages(inc, log, n + 1, m)) \in Nat
         /\ Tally(inc, log, m) = Tally(inc, log, n) + Len(Messages(inc, log, n + 1, m))
<1>1. PICK a, b, c : /\ a = Messages(inc, log, 1, n) /\ b = Messages(inc, log, n + 1, m)
                     /\ c = Messages(inc, log, 1, m)
  OBVIOUS
<1>2. /\ a \in Seq(Envelopes) /\ Lists(a, inc, log, 1, n)
      /\ c \in Seq(Envelopes) /\ Lists(c, inc, log, 1, m)
  BY <1>1, Listed
<1>3. b \in Seq(Envelopes) /\ Lists(b, inc, log, n + 1, m)
  <2>1. n + 1 \in Nat \ {0} /\ n + 1 <= m + 1
    OBVIOUS
  <2> QED
    BY <1>1, <2>1, Listed
<1>4. PICK t : t = a \o b
  OBVIOUS
<1>5. AfterOneAnother(a, b, t)
  BY <1>2, <1>3, <1>4, Joined
<1>6. /\ t \in Seq(Envelopes) /\ Len(t) = Len(a) + Len(b)
      /\ \A k \in 1..Len(a) : k \in 1..Len(t) /\ t[k] = a[k]
      /\ \A k \in 1..Len(b) : Len(a) + k \in 1..Len(t) /\ t[Len(a) + k] = b[k]
      /\ \A k \in 1..Len(t) : k \in 1..Len(a) \/ \E l \in 1..Len(b) : k = Len(a) + l
  BY <1>5 DEF AfterOneAnother
<1>7. Len(a) \in Nat /\ Len(b) \in Nat
  BY <1>2, <1>3
<1>8. /\ Upwards(a) /\ Upwards(b)
      /\ \A k \in 1..Len(a) : /\ a[k].inc = inc /\ a[k].seq \in 1..n
                              /\ a[k].kind = "message" /\ log[a[k].seq] = "message"
      /\ \A k \in 1..Len(b) : /\ b[k].inc = inc /\ b[k].seq \in (n + 1)..m
                              /\ b[k].kind = "message" /\ log[b[k].seq] = "message"
  BY <1>2, <1>3 DEF Lists
<1>9. Upwards(t)
  <2> SUFFICES ASSUME NEW k \in 1..Len(t), NEW l \in 1..Len(t), k < l
               PROVE  t[k].seq < t[l].seq
    BY DEF Upwards
  <2>1. CASE k \in 1..Len(a) /\ l \in 1..Len(a)
    BY <1>6, <1>8, <2>1 DEF Upwards
  <2>2. CASE k \in 1..Len(a) /\ l \notin 1..Len(a)
    <3>1. PICK y \in 1..Len(b) : l = Len(a) + y
      BY <1>6, <2>2
    <3>2. t[k].seq \in 1..n /\ t[l].seq \in (n + 1)..m
      BY <1>6, <1>8, <2>2, <3>1
    <3> QED
      BY <3>2
  <2>3. CASE k \notin 1..Len(a)
    <3>1. PICK x \in 1..Len(b) : k = Len(a) + x
      BY <1>6, <2>3
    <3>2. l \notin 1..Len(a)
      BY <1>7, <3>1
    <3>3. PICK y \in 1..Len(b) : l = Len(a) + y
      BY <1>6, <3>2
    <3>4. x < y
      BY <1>7, <3>1, <3>3
    <3>5. b[x].seq < b[y].seq
      BY <1>8, <3>4 DEF Upwards
    <3> QED
      BY <1>6, <3>1, <3>3, <3>5
  <2> QED
    BY <2>1, <2>2, <2>3
<1>10. ASSUME NEW k \in 1..Len(t)
       PROVE  /\ t[k].inc = inc /\ t[k].seq \in 1..m
              /\ t[k].kind = "message" /\ log[t[k].seq] = "message"
  <2>1. CASE k \in 1..Len(a)
    <3>1. t[k] = a[k] /\ a[k].seq \in 1..n
      BY <1>6, <1>8, <2>1
    <3>2. a[k].seq \in 1..m
      BY <3>1
    <3> QED
      BY <1>8, <2>1, <3>1, <3>2
  <2>2. CASE k \notin 1..Len(a)
    <3>1. PICK l \in 1..Len(b) : t[k] = b[l]
      BY <1>6, <2>2
    <3>2. b[l].seq \in 1..m
      BY <1>8
    <3> QED
      BY <1>8, <3>1, <3>2
  <2> QED
    BY <2>1, <2>2
<1>11. ASSUME NEW s \in 1..m, log[s] = "message"
       PROVE  \E k \in 1..Len(t) : t[k].seq = s
  <2>1. CASE s <= n
    <3>1. s \in 1..n
      BY <2>1
    <3>2. PICK k \in 1..Len(a) : a[k].seq = s
      BY <1>2, <1>11, <3>1 DEF Lists
    <3> QED
      BY <1>6, <3>2
  <2>2. CASE n < s
    <3>1. s \in (n + 1)..m
      BY <2>2
    <3>2. PICK k \in 1..Len(b) : b[k].seq = s
      BY <1>3, <1>11, <3>1 DEF Lists
    <3> QED
      BY <1>6, <3>2
  <2> QED
    BY <2>1, <2>2
<1>12. Lists(t, inc, log, 1, m)
  BY <1>9, <1>10, <1>11 DEF Lists
<1>13. t = c
  BY <1>2, <1>6, <1>12, OneList
<1> QED
  BY <1>1, <1>6, <1>7, <1>13 DEF Tally

\* How many there are in a stretch.
LEMMA Stretches ==
  ASSUME NEW inc \in Nat, NEW log \in Seq(Kinds),
         NEW n \in Nat, NEW m \in Nat, n <= m, m <= Len(log)
  PROVE  /\ Tally(inc, log, n) \in Nat /\ Tally(inc, log, m) \in Nat
         /\ Tally(inc, log, n) <= Tally(inc, log, m)
         /\ Quiet(log, n + 1, m) => Tally(inc, log, m) = Tally(inc, log, n)
         /\ m = n + 1 /\ log[m] = "message" => Tally(inc, log, m) = Tally(inc, log, n) + 1
<1>1. PICK b : b = Messages(inc, log, n + 1, m)
  OBVIOUS
<1>2. /\ Tally(inc, log, n) \in Nat /\ Tally(inc, log, m) \in Nat /\ Len(b) \in Nat
      /\ Tally(inc, log, m) = Tally(inc, log, n) + Len(b)
  BY <1>1, Splits
<1>3. b \in Seq(Envelopes) /\ Lists(b, inc, log, n + 1, m)
  <2>1. n + 1 \in Nat \ {0} /\ n + 1 <= m + 1
    OBVIOUS
  <2> QED
    BY <1>1, <2>1, Listed
<1>4. ASSUME Quiet(log, n + 1, m) PROVE Len(b) = 0
  <2>1. \A k \in 1..Len(b) : FALSE
    BY <1>3, <1>4 DEF Lists, Quiet
  <2> QED
    BY <1>2, <2>1
<1>5. ASSUME m = n + 1, log[m] = "message" PROVE Len(b) = 1
  <2>1. m \in (n + 1)..m
    BY <1>5
  <2>2. PICK k \in 1..Len(b) : b[k].seq = m
    BY <1>3, <1>5, <2>1 DEF Lists
  <2>3. ASSUME Len(b) >= 2 PROVE FALSE
    <3>1. 1 \in 1..Len(b) /\ 2 \in 1..Len(b)
      BY <1>2, <2>3
    <3>2. b[1].seq < b[2].seq
      BY <1>3, <3>1 DEF Lists, Upwards
    <3>3. b[1].seq \in (n + 1)..m /\ b[2].seq \in (n + 1)..m
      BY <1>3, <3>1 DEF Lists
    <3> QED
      BY <1>5, <3>2, <3>3
  <2>4. PICK len : len = Len(b)
    OBVIOUS
  <2>5. len \in Nat /\ k \in 1..len /\ ~(len >= 2)
    BY <1>2, <2>2, <2>3, <2>4
  <2>6. len = 1
    BY <2>5
  <2> QED
    BY <2>4, <2>6
<1>6. PICK x, y, z : x = Tally(inc, log, n) /\ y = Tally(inc, log, m) /\ z = Len(b)
  OBVIOUS
<1>7. x \in Nat /\ y \in Nat /\ z \in Nat /\ y = x + z
  BY <1>2, <1>6
<1>8. x <= y /\ (z = 0 => y = x) /\ (z = 1 => y = x + 1)
  BY <1>7
<1> QED
  BY <1>4, <1>5, <1>6, <1>7, <1>8

\* A message is one more.
LEMMA OneMore ==
  ASSUME NEW inc \in Nat, NEW log \in Seq(Kinds), NEW n \in Nat, NEW m \in Nat,
         m = n + 1, m <= Len(log), log[m] = "message"
  PROVE  Tally(inc, log, n) \in Nat /\ Tally(inc, log, m) = Tally(inc, log, n) + 1
<1>1. n <= m
  OBVIOUS
<1> QED
  BY <1>1, Stretches

\* What came later does not change what there was.
LEMMA SameTally ==
  ASSUME NEW inc, NEW log, NEW more, NEW n \in Nat,
         \A s \in 1..n : more[s] = log[s]
  PROVE  Tally(inc, more, n) = Tally(inc, log, n)
<1>1. PICK a, b : /\ a = [i \in 1..(n - 1 + 1) |-> Entry(inc, log, 1 + i - 1)]
                  /\ b = [i \in 1..(n - 1 + 1) |-> Entry(inc, more, 1 + i - 1)]
  OBVIOUS
<1>2. a = b
  <2>1. \A i \in 1..(n - 1 + 1) : Entry(inc, log, 1 + i - 1) = Entry(inc, more, 1 + i - 1)
    <3> SUFFICES ASSUME NEW i \in 1..(n - 1 + 1)
                 PROVE  Entry(inc, log, 1 + i - 1) = Entry(inc, more, 1 + i - 1)
      OBVIOUS
    <3>1. PICK s : s = 1 + i - 1
      OBVIOUS
    <3>2. s \in 1..n
      BY <3>1
    <3>3. Entry(inc, log, s) = Entry(inc, more, s)
      BY <3>2 DEF Entry
    <3> QED
      BY <3>1, <3>3
  <2> QED
    BY <1>1, <2>1, Zenon
<1>3. Tally(inc, log, n) = Len(Picked(a, {i \in DOMAIN a : a[i].kind = "message"}))
  BY <1>1 DEF Tally, Messages
<1>4. Tally(inc, more, n) = Len(Picked(b, {i \in DOMAIN b : b[i].kind = "message"}))
  BY <1>1 DEF Tally, Messages
<1> QED
  BY <1>2, <1>3, <1>4

-----------------------------------------------------------------------------
\* The stretch of a conversation that is shown.

Stretched(inc, from, to) == [inc |-> inc, from |-> from, to |-> to, mixed |-> FALSE]
AMix == [inc |-> 0, from |-> 0, to |-> 0, mixed |-> TRUE]

\* ShownStretch, of any timeline and logs.
Extent(r, cursorInc, ls) ==
  IF Len(r) = 0 THEN Stretched(cursorInc, 0, 0)
  ELSE IF OfOne(r)
       THEN Stretched(r[1].inc, Tally(r[1].inc, ls[r[1].inc], r[1].seq - 1),
                                Tally(r[1].inc, ls[r[1].inc], r[Len(r)].seq))
       ELSE AMix

\* The messages of the newest of the first top logs.
SaidIn(ls, top) == IF top = 0 THEN 0 ELSE Tally(top, ls[top], Len(ls[top]))

\* What the transcript may be replaced by, and what looking back may show.
Fresh(y, ci, top, s) ==
  \/ y = Stretched(ci, 0, 0)
  \/ s \in Nat /\ \E k \in 0..(s - 1) : y = Stretched(top, k, s)
Earlier(y, x, top) == \E k \in 0..x.from : y = Stretched(top, k, x.to)

LEMMA Lengthened ==
  ASSUME NEW inc, NEW from, NEW to, NEW more
  PROVE  [Stretched(inc, from, to) EXCEPT !.to = more] = Stretched(inc, from, more)
<1>1. PICK no : no = FALSE
  OBVIOUS
<1>2. /\ Stretched(inc, from, to) = [inc |-> inc, from |-> from, to |-> to, mixed |-> no]
      /\ Stretched(inc, from, more) = [inc |-> inc, from |-> from, to |-> more, mixed |-> no]
  BY <1>1, Zenon DEF Stretched
<1>3. [[inc |-> inc, from |-> from, to |-> to, mixed |-> no] EXCEPT !.to = more]
        = [inc |-> inc, from |-> from, to |-> more, mixed |-> no]
  OBVIOUS
<1> QED
  BY <1>2, <1>3, Zenon

LEMMA StretchedFields ==
  ASSUME NEW inc, NEW from, NEW to
  PROVE  /\ Stretched(inc, from, to).inc = inc /\ Stretched(inc, from, to).from = from
         /\ Stretched(inc, from, to).to = to /\ Stretched(inc, from, to).mixed = FALSE
         /\ AMix.mixed = TRUE
BY DEF Stretched, AMix

LEMMA SaidIs == Said = SaidIn(logs, Incarnation)
BY MessagesOfLog DEF Said, SaidIn, Tally, CountMessages

LEMMA ShownIs == SInv => ShownStretch = Extent(client.timeline, client.cursorInc, logs)
<1> SUFFICES ASSUME SInv
             PROVE  ShownStretch = Extent(client.timeline, client.cursorInc, logs)
  OBVIOUS
<1>1. PICK r : r = Shown
  OBVIOUS
<1>2. r \in Seq(Envelopes) /\ Len(r) \in Nat /\ r = client.timeline
  BY <1>1, ClientParts DEF SInv, CInv, Shown
<1>3. r = <<>> <=> Len(r) = 0
  BY <1>2
<1>4. CASE Len(r) = 0
  BY <1>1, <1>2, <1>3, <1>4 DEF ShownStretch, Extent, Stretched
<1>5. CASE Len(r) # 0
  <2>1. FirstShown = r[1] /\ LastShown = r[Len(r)] /\ DOMAIN r = 1..Len(r) /\ Len(r) >= 1
    BY <1>1, <1>2, <1>5 DEF FirstShown, LastShown
  <2>2. OneIncarnation <=> OfOne(r)
    BY <1>1, <2>1 DEF OneIncarnation, OfOne
  <2>3. OneIncarnation => IsExact
    BY <1>1, <1>3, <1>5, SInvImpliesExact DEF TimelineIsExact
  <2>4. \A inc, n : CountMessages(inc, n) = Tally(inc, logs[inc], n)
    BY MessagesOfLog DEF CountMessages, Tally
  <2>5. CASE OfOne(r)
    BY <1>1, <1>2, <1>3, <1>5, <2>1, <2>2, <2>3, <2>4, <2>5 DEF ShownStretch, Extent, Stretched
  <2>6. CASE ~OfOne(r)
    BY <1>1, <1>2, <1>3, <1>5, <2>2, <2>6 DEF ShownStretch, Extent, AMix
  <2> QED
    BY <2>5, <2>6
<1> QED
  BY <1>4, <1>5

LEMMA SaidNext == Said' = SaidIn(logs', Incarnation')
<1>1. (Said = SaidIn(logs, Incarnation))'
  BY SaidIs, PTL
<1> QED
  BY <1>1

LEMMA ShownNext == SInv' => ShownStretch' = Extent(client'.timeline, client'.cursorInc, logs')
<1>1. (SInv => ShownStretch = Extent(client.timeline, client.cursorInc, logs))'
  BY ShownIs, PTL
<1> QED
  BY <1>1

\* What more was journaled does not change what is shown.
LEMMA ExtentGrows ==
  ASSUME NEW c \in Clients, NEW fl, NEW ls, NEW ms, NEW top \in Nat,
         Grew(ls, ms, top), Parts(c, fl, ls, top)
  PROVE  Extent(c.timeline, c.cursorInc, ms) = Extent(c.timeline, c.cursorInc, ls)
<1>1. PICK r : r = c.timeline
  OBVIOUS
<1>2. CASE OfOne(r)
  <2>1. r \in Seq(Envelopes) /\ Len(r) \in Nat /\ 1 \in 1..Len(r) /\ Len(r) \in 1..Len(r)
    BY <1>1, <1>2, ClientParts DEF OfOne
  <2>2. Genuine(r[1], ls, top) /\ Genuine(r[Len(r)], ls, top) /\ r[Len(r)].inc = r[1].inc
    BY <1>1, <1>2, <2>1 DEF Parts, Known, OfOne
  <2>3. PICK inc, from, to : inc = r[1].inc /\ from = r[1].seq - 1 /\ to = r[Len(r)].seq
    OBVIOUS
  <2>4. /\ Len(ls[inc]) \in Nat /\ \A s \in 1..Len(ls[inc]) : ms[inc][s] = ls[inc][s]
        /\ r[1].seq \in 1..Len(ls[inc]) /\ to \in 1..Len(ls[inc])
    BY <2>2, <2>3 DEF Genuine, Grew
  <2>5. from \in Nat /\ to \in Nat /\ from <= Len(ls[inc]) /\ to <= Len(ls[inc])
    BY <2>3, <2>4
  <2>6. /\ \A s \in 1..from : ms[inc][s] = ls[inc][s]
        /\ \A s \in 1..to : ms[inc][s] = ls[inc][s]
    BY <2>4, <2>5
  <2>7. /\ Tally(inc, ms[inc], from) = Tally(inc, ls[inc], from)
        /\ Tally(inc, ms[inc], to) = Tally(inc, ls[inc], to)
    BY <2>5, <2>6, SameTally
  <2> QED
    BY <1>1, <1>2, <2>3, <2>7 DEF Extent
<1>3. CASE ~OfOne(r)
  BY <1>1, <1>3 DEF Extent
<1> QED
  BY <1>2, <1>3

\* A new page is shown from wherever it starts to the newest message.
LEMMA ExtentSeeded ==
  ASSUME NEW ls, NEW top \in Nat, top >= 1, ls[top] \in Seq(Kinds),
         NEW oldest \in Nat \ {0}, NEW items, NEW next,
         IsPage(items, next, top, ls[top], oldest, Nil), NEW ci,
         NEW y, y = Extent(items, ci, ls)
  PROVE  Fresh(y, ci, top, SaidIn(ls, top))
<1> USE DEF Fresh
<1>1. PICK log, n : log = ls[top] /\ n = Len(log)
  OBVIOUS
<1>2. /\ items \in Seq(Envelopes) /\ Len(items) \in Nat /\ Upwards(items)
      /\ \A k \in 1..Len(items) : /\ items[k].inc = top /\ items[k].seq \in oldest..n
                                  /\ items[k].seq \in Nat /\ log[items[k].seq] = "message"
      /\ \A s \in oldest..n : log[s] = "message" /\ s >= items[1].seq =>
           \E k \in 1..Len(items) : items[k].seq = s
  BY <1>1, Enveloped DEF IsPage, Wanted
<1>3. CASE Len(items) = 0
  BY <1>3 DEF Extent
<1>4. CASE Len(items) # 0
  <2>1. 1 \in 1..Len(items) /\ Len(items) \in 1..Len(items) /\ OfOne(items)
    BY <1>2, <1>4 DEF OfOne
  <2>2. PICK lo, hi : lo = items[1].seq /\ hi = items[Len(items)].seq
    OBVIOUS
  <2>3. /\ lo \in oldest..n /\ hi \in oldest..n /\ n \in Nat /\ log \in Seq(Kinds)
        /\ lo \in Nat \ {0} /\ hi \in Nat /\ log[lo] = "message" /\ items[1].inc = top
    BY <1>1, <1>2, <2>1, <2>2
  <2>4. \A k \in 1..Len(items) : items[k].seq <= hi /\ lo <= items[k].seq
    BY <1>2, <2>2, Ends
  <2>5. lo <= hi
    BY <2>1, <2>2, <2>4
  <2>6. Quiet(log, hi + 1, n)
    <3> SUFFICES ASSUME NEW s \in (hi + 1)..n, log[s] = "message" PROVE FALSE
      BY DEF Quiet
    <3>1. s \in oldest..n /\ s >= lo /\ s > hi
      BY <2>3, <2>5
    <3>2. PICK k \in 1..Len(items) : items[k].seq = s
      BY <1>2, <2>2, <3>1
    <3> QED
      BY <2>3, <2>4, <3>1, <3>2
  <2>7. PICK a, b, c, t : /\ a = Tally(top, log, lo - 1) /\ b = Tally(top, log, lo)
                          /\ c = Tally(top, log, hi) /\ t = Tally(top, log, n)
    OBVIOUS
  <2>8. a \in Nat /\ b = a + 1
    <3>1. PICK m : m = lo - 1
      OBVIOUS
    <3>2. m \in Nat /\ m <= lo /\ lo <= Len(log) /\ lo = m + 1
      BY <1>1, <2>3, <3>1
    <3>3. a = Tally(top, log, m)
      BY <2>7, <3>1
    <3>4. Tally(top, log, m) \in Nat /\ Tally(top, log, lo) = Tally(top, log, m) + 1
      BY <2>3, <3>2, OneMore
    <3> QED
      BY <2>7, <3>3, <3>4
  <2>9. b <= c /\ c \in Nat
    <3>1. hi <= Len(log)
      BY <1>1, <2>3
    <3> QED
      BY <2>3, <2>5, <2>7, <3>1, Stretches
  <2>10. t = c
    <3>1. hi <= n /\ n <= Len(log)
      BY <1>1, <2>3
    <3> QED
      BY <2>3, <2>6, <2>7, <3>1, Stretches
  <2>11. SaidIn(ls, top) = t
    BY <1>1, <2>7 DEF SaidIn
  <2>12. y = Stretched(top, a, c)
    BY <1>1, <1>4, <2>1, <2>2, <2>3, <2>7 DEF Extent
  <2>13. t \in Nat /\ a \in 0..(t - 1)
    BY <2>8, <2>9, <2>10
  <2> QED
    BY <2>10, <2>11, <2>12, <2>13
<1> QED
  BY <1>3, <1>4

\* Older messages are shown before what is shown.
LEMMA ExtentPrepended ==
  ASSUME NEW c \in Clients, NEW ls, NEW top \in Nat, top >= 1, ls[top] \in Seq(Kinds),
         Known(c, ls, top), Len(c.timeline) >= 1,
         NEW oldest \in Nat \ {0}, NEW items, NEW next,
         IsPage(items, next, top, ls[top], oldest, c.timeline[1].seq),
         NEW x, x = Extent(c.timeline, c.cursorInc, ls), ~x.mixed, x.inc = top,
         NEW y, y = Extent(items \o c.timeline, c.cursorInc, ls)
  PROVE  Earlier(y, x, top)
<1>1. PICK r, t, log : r = c.timeline /\ t = items \o r /\ log = ls[top]
  OBVIOUS
<1>2. /\ r \in Seq(Envelopes) /\ Len(r) \in Nat /\ 1 \in 1..Len(r) /\ Len(r) \in 1..Len(r)
      /\ \A k \in 1..Len(r) : r[k].seq \in Nat
  <2>1. r \in Seq(Envelopes) /\ Len(r) >= 1
    BY <1>1, ClientParts
  <2>2. Len(r) \in Nat /\ \A k \in 1..Len(r) : r[k].seq \in Nat
    BY <2>1, Enveloped
  <2> QED
    BY <2>1, <2>2
<1>3. OfOne(r)
  <2> SUFFICES ASSUME ~OfOne(r) PROVE FALSE
    OBVIOUS
  <2>1. x = AMix
    BY <1>1, <1>2 DEF Extent
  <2>2. AMix.mixed
    BY DEF AMix
  <2> QED
    BY <2>1, <2>2
<1>4. PICK lo, hi : lo = r[1].seq /\ hi = r[Len(r)].seq
  OBVIOUS
<1>5. PICK f, u : f = Tally(top, log, lo - 1) /\ u = Tally(top, log, hi)
  OBVIOUS
<1>6. r[1].inc = top /\ x = Stretched(top, f, u) /\ x.from = f /\ x.to = u
  <2>1. PICK inc, g, v : /\ inc = r[1].inc /\ g = Tally(inc, ls[inc], lo - 1)
                         /\ v = Tally(inc, ls[inc], hi)
    OBVIOUS
  <2>2. x = Stretched(inc, g, v)
    BY <1>1, <1>2, <1>3, <1>4, <2>1 DEF Extent
  <2>3. x.inc = inc /\ x.from = g /\ x.to = v
    BY <2>2 DEF Stretched
  <2>4. g = f /\ v = u
    BY <1>1, <1>5, <2>1, <2>3
  <2> QED
    BY <2>1, <2>2, <2>3, <2>4
<1>7. log \in Seq(Kinds) /\ Len(log) \in Nat /\ lo \in 1..Len(log)
  BY <1>1, <1>2, <1>4, <1>6 DEF Known, Genuine
<1>8. /\ items \in Seq(Envelopes) /\ Len(items) \in Nat
      /\ \A k \in 1..Len(items) : /\ items[k].inc = top /\ items[k].seq \in oldest..Len(log)
                                  /\ items[k].seq < lo
  <2>1. lo # Nil
    BY <1>2, <1>4, NilIsNoNumber
  <2> QED
    BY <1>1, <1>4, <2>1, Enveloped DEF IsPage, Wanted
<1>9. AfterOneAnother(items, r, t)
  BY <1>1, <1>2, <1>8, Joined
<1>10. /\ t \in Seq(Envelopes) /\ Len(t) = Len(items) + Len(r) /\ Len(t) \in Nat /\ Len(t) >= 1
       /\ \A k \in 1..Len(items) : t[k] = items[k]
       /\ \A k \in 1..Len(r) : t[Len(items) + k] = r[k]
       /\ \A k \in 1..Len(t) : k \in 1..Len(items) \/ \E l \in 1..Len(r) : k = Len(items) + l
  BY <1>2, <1>8, <1>9 DEF AfterOneAnother
<1>11. ASSUME NEW k \in 1..Len(t) PROVE t[k].inc = top
  <2>1. CASE k \in 1..Len(items)
    BY <1>8, <1>10, <2>1
  <2>2. ASSUME NEW l \in 1..Len(r), k = Len(items) + l PROVE t[k].inc = top
    BY <1>3, <1>6, <1>10, <2>2 DEF OfOne
  <2> QED
    BY <1>10, <2>1, <2>2
<1>12. OfOne(t) /\ t[1].inc = top
  BY <1>10, <1>11 DEF OfOne
<1>13. t[Len(t)] = r[Len(r)]
  BY <1>2, <1>10
<1>14. y = Stretched(top, Tally(top, log, t[1].seq - 1), u)
  BY <1>1, <1>4, <1>5, <1>10, <1>12, <1>13 DEF Extent
<1>15. t[1].seq \in Nat \ {0} /\ t[1].seq <= lo
  <2>1. CASE Len(items) = 0
    <3>1. t[1] = r[1]
      <4>1. Len(items) + 1 = 1
        BY <2>1
      <4> QED
        BY <1>2, <1>10, <4>1
    <3> QED
      BY <1>4, <1>7, <3>1
  <2>2. CASE Len(items) # 0
    <3>1. 1 \in 1..Len(items)
      BY <1>8, <2>2
    <3>2. PICK s : s = t[1].seq
      OBVIOUS
    <3>3. s \in oldest..Len(log) /\ s < lo
      BY <1>8, <1>10, <3>1, <3>2
    <3> QED
      BY <1>7, <3>2, <3>3
  <2> QED
    BY <2>1, <2>2
<1>16. PICK s, k : s = t[1].seq - 1 /\ k = Tally(top, log, s)
  OBVIOUS
<1>17. s \in Nat /\ lo - 1 \in Nat /\ s <= lo - 1 /\ lo - 1 <= Len(log)
  BY <1>7, <1>15, <1>16
<1>18. k \in Nat /\ f \in Nat /\ k <= f
  BY <1>5, <1>7, <1>16, <1>17, Stretches
<1>19. k \in 0..x.from
  BY <1>6, <1>18
<1> QED
  BY <1>6, <1>14, <1>16, <1>19 DEF Earlier

\* What shows a stretch of the newest conversation is a timeline of it, or nothing.
LEMMA ExtentShows ==
  ASSUME NEW r \in Seq(Envelopes), NEW ci, NEW ls, NEW top,
         NEW x, x = Extent(r, ci, ls), ~x.mixed, x.inc = top, Len(r) # 0
  PROVE  /\ OfOne(r) /\ r[1].inc = top
         /\ x = Stretched(top, Tally(top, ls[top], r[1].seq - 1),
                               Tally(top, ls[top], r[Len(r)].seq))
<1>1. OfOne(r)
  <2> SUFFICES ASSUME ~OfOne(r) PROVE FALSE
    OBVIOUS
  <2>1. x = AMix
    BY DEF Extent
  <2>2. AMix.mixed
    BY DEF AMix
  <2> QED
    BY <2>1, <2>2
<1>2. PICK inc, g, v : /\ inc = r[1].inc /\ g = Tally(inc, ls[inc], r[1].seq - 1)
                       /\ v = Tally(inc, ls[inc], r[Len(r)].seq)
  OBVIOUS
<1>3. x = Stretched(inc, g, v)
  BY <1>1, <1>2 DEF Extent
<1>4. inc = top
  BY <1>3 DEF Stretched
<1> QED
  BY <1>1, <1>2, <1>3, <1>4

\* The next message is shown after what is shown, or as the first.
LEMMA ExtentFollowed ==
  ASSUME NEW c \in Clients, NEW fl, NEW ls, NEW top \in Nat,
         \A i \in 1..top : ls[i] \in Seq(Kinds),
         Parts(c, fl, ls, top), c.phase = "stream",
         NEW e \in Envelopes, e \in fl, e.seq = c.cursor + 1, e.kind = "message",
         NEW d, d = Followed(c, e),
         NEW x, x = Extent(c.timeline, c.cursorInc, ls), ~x.mixed, x.inc = top,
         NEW y, y = Extent(d.timeline, d.cursorInc, ls)
  PROVE  /\ SaidIn(ls, top) \in Nat
         /\ IF x.to > 0 THEN x.to < SaidIn(ls, top) /\ y = Stretched(top, x.from, x.to + 1)
                        ELSE \E k \in 1..SaidIn(ls, top) : y = Stretched(top, k - 1, k)
         /\ x = Stretched(top, x.from, x.to)
<1>1. PICK r, t, log, n : r = c.timeline /\ t = d.timeline /\ log = ls[top] /\ n = c.cursor
  OBVIOUS
<1>2. t = Append(r, e) /\ d.cursorInc = c.cursorInc
  BY <1>1, FollowedFields
<1>3. r \in Seq(Envelopes) /\ Len(r) \in Nat /\ n \in Nat /\ c.cursorInc \in Nat
  BY <1>1, ClientParts
<1>4. /\ t \in Seq(Envelopes) /\ Len(t) = Len(r) + 1 /\ t[Len(r) + 1] = e
      /\ \A k \in 1..Len(r) : t[k] = r[k]
  BY <1>2, <1>3
<1>5. Known(c, ls, top) /\ Arrives(c, fl, ls, top) /\ Follows(c, fl, ls, top)
  BY DEF Parts
<1>6. /\ e.inc \in 1..top /\ e.seq \in 1..Len(ls[e.inc]) /\ ls[e.inc][e.seq] = "message"
      /\ c.cursorInc <= e.inc /\ (OfOne(r) => r[1].inc <= e.inc)
  BY <1>1, <1>5 DEF Arrives, Genuine
<1>7. e.inc = top
  <2>1. CASE Len(r) = 0
    <3>1. c.cursorInc = top
      BY <1>1, <2>1 DEF Extent, Stretched
    <3> QED
      BY <1>6, <3>1
  <2>2. CASE Len(r) # 0
    <3>1. OfOne(r) /\ r[1].inc = top
      BY <1>1, <1>3, <2>2, ExtentShows
    <3> QED
      BY <1>6, <3>1
  <2> QED
    BY <2>1, <2>2
<1>8. /\ top >= 1 /\ log \in Seq(Kinds) /\ Len(log) \in Nat
      /\ n + 1 <= Len(log) /\ log[n + 1] = "message" /\ e.seq = n + 1
  <2>1. top \in 1..top
    BY <1>6, <1>7
  <2>2. log \in Seq(Kinds)
    BY <1>1, <2>1
  <2> QED
    BY <1>1, <1>3, <1>6, <1>7, <2>1, <2>2
<1>9. PICK m, a, b, s : /\ m = n + 1 /\ a = Tally(top, log, n) /\ b = Tally(top, log, m)
                        /\ s = Tally(top, log, Len(log))
  OBVIOUS
<1>10. m \in Nat /\ m <= Len(log) /\ log[m] = "message"
  BY <1>3, <1>8, <1>9
<1>11. a \in Nat /\ b = a + 1
  BY <1>3, <1>8, <1>9, <1>10, OneMore
<1>12. b <= s /\ s \in Nat
  <2>1. Len(log) <= Len(log)
    BY <1>8
  <2> QED
    BY <1>8, <1>9, <1>10, <2>1, Stretches
<1>13. SaidIn(ls, top) = s
  BY <1>1, <1>8, <1>9 DEF SaidIn
<1>14. CASE Len(r) = 0
  <2>1. x = Stretched(top, 0, 0)
    <3>1. x = Stretched(c.cursorInc, 0, 0)
      BY <1>1, <1>14 DEF Extent
    <3>2. c.cursorInc = top
      BY <3>1 DEF Stretched
    <3> QED
      BY <3>1, <3>2
  <2>2. Len(t) = 1 /\ t[1] = e
    BY <1>4, <1>14
  <2>3. OfOne(t)
    BY <2>2 DEF OfOne
  <2>4. y = Stretched(e.inc, Tally(e.inc, ls[e.inc], e.seq - 1), Tally(e.inc, ls[e.inc], e.seq))
    BY <1>1, <2>2, <2>3 DEF Extent
  <2>5. e.seq - 1 = n /\ e.seq = m
    BY <1>3, <1>8, <1>9
  <2>6. y = Stretched(top, a, b)
    BY <1>1, <1>7, <1>9, <2>4, <2>5
  <2>7. b \in 1..s /\ a = b - 1
    BY <1>11, <1>12
  <2>8. x.to = 0 /\ x.from = 0
    BY <2>1 DEF Stretched
  <2>9. \E k \in 1..s : y = Stretched(top, k - 1, k)
    BY <2>6, <2>7
  <2> QED
    BY <1>12, <1>13, <2>1, <2>8, <2>9
<1>15. CASE Len(r) # 0
  <2>1. PICK lo, hi : lo = r[1].seq /\ hi = r[Len(r)].seq
    OBVIOUS
  <2>2. PICK f, u : f = Tally(top, log, lo - 1) /\ u = Tally(top, log, hi)
    OBVIOUS
  <2>3. OfOne(r) /\ r[1].inc = top /\ x = Stretched(top, f, u)
    BY <1>1, <1>3, <1>15, <2>1, <2>2, ExtentShows
  <2>4. Reaches(r, n, ls)
    BY <1>1, <1>5, <2>3 DEF Follows
  <2>5. hi <= n /\ Quiet(log, hi + 1, n)
    BY <1>1, <2>1, <2>3, <2>4 DEF Reaches
  <2>6. Len(r) \in 1..Len(r) /\ 1 \in 1..Len(r)
    BY <1>3, <1>15
  <2>7. hi \in 1..Len(log)
    <3>1. Genuine(r[Len(r)], ls, top) /\ r[Len(r)].inc = top
      BY <1>1, <1>5, <2>3, <2>6 DEF Known, OfOne
    <3> QED
      BY <1>1, <2>1, <3>1 DEF Genuine
  <2>8. a = u
    <3>1. hi \in Nat /\ n <= Len(log)
      BY <1>3, <1>8, <2>7
    <3> QED
      BY <1>3, <1>8, <1>9, <2>2, <2>5, <3>1, Stretches
  <2>9. u >= 1
    <3>1. PICK g : g = hi - 1
      OBVIOUS
    <3>2. g \in Nat /\ hi \in Nat /\ hi = g + 1 /\ hi <= Len(log)
      BY <1>8, <2>7, <3>1
    <3>3. log[hi] = "message"
      <4>1. Lists(r, top, log, lo, hi)
        BY <1>1, <2>1, <2>3 DEF Parts, Exact
      <4> QED
        BY <2>1, <2>6, <4>1 DEF Lists
    <3>4. Tally(top, log, g) \in Nat /\ u = Tally(top, log, g) + 1
      BY <1>8, <2>2, <3>2, <3>3, OneMore
    <3> QED
      BY <3>4
  <2>10. t[1] = r[1] /\ t[Len(t)] = e /\ Len(t) # 0
    BY <1>3, <1>4, <2>6
  <2>11. OfOne(t)
    <3>1. ASSUME NEW k \in 1..Len(t) PROVE t[k].inc = top
      <4>1. CASE k \in 1..Len(r)
        BY <1>4, <2>3, <4>1 DEF OfOne
      <4>2. CASE k = Len(r) + 1
        BY <1>4, <1>7, <4>2
      <4> QED
        BY <1>3, <1>4, <4>1, <4>2
    <3> QED
      BY <1>3, <1>4, <2>3, <2>10, <3>1 DEF OfOne
  <2>12. y = Stretched(top, f, b)
    <3>1. y = Stretched(t[1].inc, Tally(t[1].inc, ls[t[1].inc], t[1].seq - 1),
                                  Tally(t[1].inc, ls[t[1].inc], t[Len(t)].seq))
      BY <1>1, <2>10, <2>11 DEF Extent
    <3>2. t[Len(t)].seq = m
      BY <1>8, <1>9, <2>10
    <3> QED
      BY <1>1, <1>9, <2>1, <2>2, <2>3, <2>10, <3>1, <3>2
  <2>13. x.from = f /\ x.to = u
    BY <2>3 DEF Stretched
  <2>14. u > 0 /\ u < s /\ b = u + 1
    BY <1>11, <1>12, <2>8, <2>9
  <2> QED
    BY <1>12, <1>13, <2>3, <2>12, <2>13, <2>14
<1> QED
  BY <1>14, <1>15

-----------------------------------------------------------------------------
\* The refinement of Transcript.

LEMMA Unmoved ==
  ASSUME SInv, SInv', client'.timeline = client.timeline,
         client'.cursorInc = client.cursorInc, Grew(logs, logs', Incarnation)
  PROVE  ShownStretch' = ShownStretch
<1>1. /\ client \in Clients /\ Parts(client, Flying(wire), logs, Incarnation) /\ IInv
  BY DEF SInv, CInv
<1>2. Incarnation \in Nat
  BY <1>1, Logged
<1>3. Extent(client.timeline, client.cursorInc, logs') = Extent(client.timeline, client.cursorInc, logs)
  BY <1>1, <1>2, ExtentGrows
<1> QED
  BY <1>3, ShownIs, ShownNext

\* A step that no reader of the transcript notices.
LEMMA StandsStill ==
  ASSUME SInv, SInv', client'.timeline = client.timeline,
         client'.cursorInc = client.cursorInc, Incarnation' = Incarnation,
         \A i \in 1..Incarnation : logs'[i] = logs[i]
  PROVE  UNCHANGED T!vars
<1>1. IInv /\ Incarnation \in Nat /\ \A i \in 1..Incarnation : Len(logs[i]) \in Nat
  <2>1. IInv
    BY DEF SInv
  <2>2. /\ Incarnation \in Nat /\ Inc \in Nat /\ Incarnation <= Inc
        /\ \A i \in 1..Inc : Len(logs[i]) \in Nat
    BY <2>1, Logged
  <2> QED
    BY <2>1, <2>2
<1>2. Grew(logs, logs', Incarnation)
  <2> SUFFICES ASSUME NEW i \in 1..Incarnation
               PROVE  /\ Len(logs[i]) \in Nat /\ Len(logs'[i]) \in Nat
                      /\ Len(logs[i]) <= Len(logs'[i])
                      /\ \A s \in 1..Len(logs[i]) : logs'[i][s] = logs[i][s]
    BY DEF Grew
  <2>1. logs'[i] = logs[i] /\ Len(logs[i]) \in Nat
    BY <1>1
  <2> QED
    BY <2>1
<1>3. ShownStretch' = ShownStretch
  BY <1>2, Unmoved
<1>4. Said' = Said
  <2>1. SaidIn(logs', Incarnation) = SaidIn(logs, Incarnation)
    <3>1. CASE Incarnation = 0
      BY <3>1 DEF SaidIn
    <3>2. CASE Incarnation # 0
      <4>1. Incarnation \in 1..Incarnation
        BY <1>1, <3>2
      <4>2. logs'[Incarnation] = logs[Incarnation]
        BY <4>1
      <4> QED
        BY <4>2 DEF SaidIn
    <3> QED
      BY <3>1, <3>2
  <2> QED
    BY <2>1, SaidIs, SaidNext
<1> QED
  BY <1>3, <1>4 DEF T!vars

\* While the logs stay, and what is shown.
LEMMA LogsStay ==
  ASSUME SInv, SInv', client'.timeline = client.timeline,
         client'.cursorInc = client.cursorInc, logs' = logs,
         sess' = sess \/ {sess, sess'} = {"live", "offline"}
  PROVE  UNCHANGED T!vars
<1>1. Incarnation' = Incarnation
  BY DEF Incarnation, Inc
<1> QED
  BY <1>1, StandsStill

LEMMA FrameShows ==
  ASSUME SInv, SInv', NEW kind \in Kinds, Frame(kind)
  PROVE  T!Say \/ UNCHANGED T!vars
<1>1. /\ sess = "live" /\ sess' = "live" /\ Journaled(kind) /\ client' = client
      /\ IInv
  BY DEF Frame, SInv
<1>2. /\ Inc \in Nat /\ Inc >= 1 /\ Incarnation = Inc
      /\ logs[Inc] \in Seq(Kinds) /\ Len(logs[Inc]) \in Nat
  BY <1>1, Logged
<1>3. /\ Inc' = Inc /\ Grew(logs, logs', Inc)
      /\ Len(logs'[Inc]) = Len(logs[Inc]) + 1 /\ logs'[Inc][Len(logs[Inc]) + 1] = kind
  BY <1>1, JournaledGrows
<1>4. Incarnation' = Inc
  BY <1>1, <1>3 DEF Incarnation
<1>5. ShownStretch' = ShownStretch
  BY <1>1, <1>2, <1>3, Unmoved
<1>6. PICK log, more, n, m : /\ log = logs[Inc] /\ more = logs'[Inc]
                             /\ n = Len(log) /\ m = n + 1
  OBVIOUS
<1>7. /\ more \in Seq(Kinds) /\ n \in Nat /\ m \in Nat /\ Len(more) = m
      /\ more[m] = kind /\ \A s \in 1..n : more[s] = log[s]
  <2>1. logs' \in Seq(Seq(Kinds)) /\ Inc' = Len(logs')
    BY DEF SInv, IInv, Inc
  <2>2. Inc \in 1..Len(logs')
    BY <1>2, <1>3, <2>1
  <2>3. more \in Seq(Kinds)
    BY <1>6, <2>1, <2>2
  <2>4. n \in Nat /\ m \in Nat
    BY <1>2, <1>6
  <2>5. Len(more) = m /\ more[m] = kind
    BY <1>3, <1>6
  <2>6. ASSUME NEW s \in 1..n PROVE more[s] = log[s]
    <3>1. Inc \in 1..Inc
      BY <1>2
    <3>2. \A i \in 1..Len(logs[Inc]) : logs'[Inc][i] = logs[Inc][i]
      BY <1>3, <3>1 DEF Grew
    <3> QED
      BY <1>6, <2>6, <3>2
  <2> QED
    BY <2>3, <2>4, <2>5, <2>6
<1>8. /\ Said = Tally(Inc, log, n) /\ Said' = Tally(Inc, more, m)
  BY <1>2, <1>4, <1>6, <1>7, SaidIs, SaidNext DEF SaidIn
<1>9. Said = Tally(Inc, more, n)
  BY <1>7, <1>8, SameTally
<1>10. CASE kind = "message"
  <2>1. Said' = Said + 1
    BY <1>2, <1>6, <1>7, <1>8, <1>9, <1>10, OneMore
  <2> QED
    BY <1>2, <1>4, <1>5, <2>1 DEF T!Say
<1>11. CASE kind # "message"
  <2>1. Quiet(more, n + 1, m)
    <3> SUFFICES ASSUME NEW s \in (n + 1)..m PROVE more[s] # "message"
      BY DEF Quiet
    <3>1. s = m
      BY <1>6, <1>7
    <3> QED
      BY <1>7, <1>11, <3>1
  <2>2. n <= m /\ m <= Len(more)
    BY <1>6, <1>7
  <2>3. Said' = Said
    BY <1>2, <1>7, <1>8, <1>9, <2>1, <2>2, Stretches
  <2> QED
    BY <1>2, <1>4, <1>5, <2>3 DEF T!vars
<1> QED
  BY <1>10, <1>11

LEMMA BeginLoadShows ==
  ASSUME SInv, SInv', BeginLoad
  PROVE  UNCHANGED T!vars
<1>1. /\ sess = "offline" /\ sess' = "loading" /\ logs' = Append(logs, <<>>)
      /\ client' = client /\ IInv
  BY DEF BeginLoad, SInv
<1>2. logs \in Seq(Seq(Kinds)) /\ Inc = Len(logs) /\ Inc \in Nat
  BY <1>1 DEF IInv, Inc
<1>3. Len(logs') = Inc + 1 /\ \A i \in 1..Inc : logs'[i] = logs[i]
  <2>1. Len(Append(logs, <<>>)) = Len(logs) + 1
    BY <1>2, NewIncarnation
  <2>2. \A i \in 1..Len(logs) : Append(logs, <<>>)[i] = logs[i]
    BY <1>2
  <2> QED
    BY <1>1, <1>2, <2>1, <2>2
<1>4. Incarnation = Inc /\ Incarnation' = Inc
  BY <1>1, <1>2, <1>3 DEF Incarnation, Inc
<1> QED
  BY <1>1, <1>3, <1>4, StandsStill

\* The transcript that is replayed is not of the incarnation anyone reads yet.
LEMMA LoadStepLeaves ==
  ASSUME SInv, sess = "loading", NEW kind \in Kinds, Journaled(kind)
  PROVE  \A i \in 1..Incarnation : logs'[i] = logs[i]
<1>1. /\ IInv /\ logs \in Seq(Seq(Kinds)) /\ Inc = Len(logs)
  BY DEF SInv, IInv, Inc
<1>2. Inc \in Nat /\ Incarnation = Inc - 1
  BY LoadStep
<1>3. PICK new : new = Append(logs[Inc], kind)
  OBVIOUS
<1>4. logs' = [logs EXCEPT ![Inc] = new]
  BY <1>3 DEF Journaled
<1>5. \A i \in 1..Incarnation : i \in 1..Len(logs) /\ i # Inc
  BY <1>1, <1>2
<1> QED
  BY <1>1, <1>4, <1>5

LEMMA ReplayShows ==
  ASSUME SInv, SInv', Replay
  PROVE  UNCHANGED T!vars
<1>1. /\ sess = "loading" /\ sess' = "loading" /\ Journaled("message") /\ "message" \in Kinds
      /\ client' = client
  BY DEF Replay, Kinds
<1>2. Incarnation = Inc - 1 /\ Inc' = Inc
  BY <1>1, LoadStep
<1>3. Incarnation' = Incarnation
  BY <1>1, <1>2 DEF Incarnation
<1>4. \A i \in 1..Incarnation : logs'[i] = logs[i]
  BY <1>1, LoadStepLeaves
<1> QED
  BY <1>1, <1>3, <1>4, StandsStill

LEMMA LoadedShows ==
  ASSUME SInv, SInv', Loaded
  PROVE  T!Load
<1>1. /\ sess = "loading" /\ sess' = "live" /\ Journaled("state") /\ "state" \in Kinds
      /\ client' = client
  BY DEF Loaded, Kinds
<1>2. /\ Inc \in Nat /\ Inc - 1 \in Nat /\ Incarnation = Inc - 1 /\ Inc' = Inc
      /\ Grew(logs, logs', Inc - 1)
  BY <1>1, LoadStep
<1>3. Incarnation' = Incarnation + 1
  BY <1>1, <1>2 DEF Incarnation
<1>4. ShownStretch' = ShownStretch
  BY <1>1, <1>2, Unmoved
<1>5. Said' \in Nat
  <2>1. logs' \in Seq(Seq(Kinds)) /\ Inc' = Len(logs') /\ Inc' >= 1
    BY <1>1 DEF SInv, IInv, Inc
  <2>2. PICK log : log = logs'[Inc]
    OBVIOUS
  <2>3. Inc \in 1..Len(logs')
    BY <1>2, <2>1
  <2>4. log \in Seq(Kinds) /\ Len(log) \in Nat /\ Len(log) <= Len(log)
    BY <2>1, <2>2, <2>3
  <2>5. Tally(Inc, log, Len(log)) \in Nat
    BY <1>2, <2>4, Stretches
  <2>6. Incarnation' = Inc /\ Inc # 0
    BY <1>2, <1>3, <2>1
  <2> QED
    BY <2>2, <2>5, <2>6, SaidNext DEF SaidIn
<1> QED
  BY <1>3, <1>4, <1>5 DEF T!Load

LEMMA LoadFailsShows ==
  ASSUME SInv, SInv', LoadFails
  PROVE  UNCHANGED T!vars
<1>1. /\ sess = "loading" /\ sess' = "offline" /\ logs' = SubSeq(logs, 1, Inc - 1)
      /\ \/ client' = client
         \/ client' = [client EXCEPT !.phase = "error"]
  BY DEF LoadFails
<1>2. IInv /\ client \in Clients
  BY DEF SInv, CInv
<1>3. /\ Inc \in Nat /\ Inc >= 1 /\ Inc - 1 \in Nat /\ Inc = Len(logs)
      /\ logs \in Seq(Seq(Kinds))
  BY <1>1, <1>2, Logged DEF IInv, Inc
<1>4. Len(logs') = Inc - 1 /\ \A i \in 1..(Inc - 1) : logs'[i] = logs[i]
  BY <1>1, <1>3
<1>5. Incarnation = Inc - 1 /\ Incarnation' = Inc - 1
  BY <1>1, <1>4 DEF Incarnation, Inc
<1>6. client'.timeline = client.timeline /\ client'.cursorInc = client.cursorInc
  <2>1. CASE client' = client
    BY <2>1
  <2>2. CASE client' = [client EXCEPT !.phase = "error"]
    BY <1>2, <2>2 DEF Clients
  <2> QED
    BY <1>1, <2>1, <2>2
<1> QED
  BY <1>4, <1>5, <1>6, StandsStill

LEMMA ReceiveShows ==
  ASSUME SInv, SInv', Receive
  PROVE  T!Follow \/ T!Drift \/ UNCHANGED T!vars
<1>1. /\ wire # <<>> /\ UNCHANGED <<sess, journal, logs, requests>>
      /\ \/ Head(wire) = Reset /\ StartResync
         \/ Head(wire) = Garbled /\ conn' = "none" /\ wire' = <<>> /\ client' = client
         \/ Head(wire) \notin {Reset, Garbled} /\ Deliver(Head(wire))
  BY DEF Receive
<1>2. /\ IInv /\ client \in Clients /\ Wiring
      /\ Parts(client, Flying(wire), logs, Incarnation)
  BY DEF SInv, CInv
<1>3. wire \in Seq(Envelopes \cup Controls) /\ client.phase = "stream"
  BY <1>1, <1>2 DEF Wiring
<1>4. CASE client' = client
  BY <1>1, <1>4, LogsStay
<1>5. CASE StartResync
  <2>1. client' = Resynced(client)
    BY <1>5 DEF StartResync
  <2>2. client'.timeline = client.timeline /\ client'.cursorInc = client.cursorInc
    BY <1>2, <2>1 DEF Resynced, Clients
  <2> QED
    BY <1>1, <2>2, LogsStay
<1>6. ASSUME NEW e, e = Head(wire), e \notin {Reset, Garbled}, e.seq > client.cursor,
             ~IsGap(e.seq), client' = Followed(client, e)
      PROVE  T!Follow \/ T!Drift \/ UNCHANGED T!vars
  <2>1. e \in Envelopes /\ e \in Flying(wire)
    <3>1. e = wire[1] /\ 1 \in 1..Len(wire) /\ wire[1] \notin Controls
      BY <1>1, <1>3, <1>6, TailFlies DEF Controls
    <3> QED
      BY <1>3, <3>1, EnvelopeFlies
  <2>2. e.seq \in Nat /\ client.cursor \in Nat
    <3>1. e.seq \in Nat
      BY <2>1 DEF Envelopes
    <3> QED
      BY <1>2, <3>1, ClientParts
  <2>3. e.seq = client.cursor + 1
    BY <1>6, <2>2 DEF IsGap
  <2>4. PICK d : d = client'
    OBVIOUS
  <2>5. d = Followed(client, e)
    BY <1>6, <2>4
  <2>6. CASE e.kind # "message"
    <3>1. d.timeline = client.timeline /\ d.cursorInc = client.cursorInc
      BY <1>2, <2>1, <2>5, <2>6, FollowedFields
    <3> QED
      BY <1>1, <2>4, <3>1, LogsStay
  <2>7. CASE e.kind = "message"
    <3>1. PICK top : top = Incarnation
      OBVIOUS
    <3>2. /\ top \in Nat /\ Incarnation' = top /\ SaidIn(logs', Incarnation') = SaidIn(logs, top)
          /\ \A i \in 1..top : logs[i] \in Seq(Kinds)
      <4>1. /\ Incarnation \in Nat /\ Inc \in Nat /\ Incarnation <= Inc
            /\ \A i \in 1..Inc : logs[i] \in Seq(Kinds)
        BY <1>2, Logged
      <4>2. Incarnation' = Incarnation
        BY <1>1 DEF Incarnation, Inc
      <4> QED
        BY <1>1, <3>1, <4>1, <4>2
    <3>3. PICK x, y : /\ x = Extent(client.timeline, client.cursorInc, logs)
                      /\ y = Extent(d.timeline, d.cursorInc, logs)
      OBVIOUS
    <3>4. ShownStretch = x /\ ShownStretch' = y
      BY <1>1, <2>4, <3>3, ShownIs, ShownNext
    <3>5. Said = SaidIn(logs, top) /\ Said' = SaidIn(logs, top)
      BY <3>1, <3>2, SaidIs, SaidNext
    <3>6. CASE x.mixed \/ x.inc # top
      BY <3>1, <3>2, <3>4, <3>5, <3>6 DEF T!Drift, T!Outdated
    <3>7. CASE ~x.mixed /\ x.inc = top
      <4>1. PICK s : s = SaidIn(logs, top)
        OBVIOUS
      <4>2. /\ IF x.to > 0 THEN x.to < s /\ y = Stretched(top, x.from, x.to + 1)
                           ELSE \E k \in 1..s : y = Stretched(top, k - 1, k)
            /\ x = Stretched(top, x.from, x.to)
        BY <1>2, <1>3, <2>1, <2>3, <2>5, <2>7, <3>1, <3>2, <3>3, <3>7, <4>1, ExtentFollowed
      <4>3. Said = s /\ Said' = s /\ Incarnation = top /\ Incarnation' = top
        BY <3>1, <3>2, <3>5, <4>1
      <4>4. ~T!Outdated
        BY <3>1, <3>4, <3>7 DEF T!Outdated
      <4>5. CASE x.to > 0
        <5>1. PICK from, to : from = x.from /\ to = x.to
          OBVIOUS
        <5>2. x = Stretched(top, from, to) /\ y = Stretched(top, from, to + 1) /\ to < s
          BY <4>2, <4>5, <5>1
        <5>3. y = [x EXCEPT !.to = to + 1]
          BY <5>2, Lengthened
        <5>4. y = [x EXCEPT !.to = @ + 1]
          BY <5>1, <5>3
        <5>5. /\ ShownStretch.to > 0 /\ ShownStretch.to < Said
              /\ ShownStretch' = [ShownStretch EXCEPT !.to = @ + 1]
              /\ Incarnation' = Incarnation /\ Said' = Said
          BY <3>4, <4>3, <4>5, <5>1, <5>2, <5>4
        <5> QED
          BY <4>4, <5>5 DEF T!Follow
      <4>6. CASE ~(x.to > 0)
        <5>1. PICK k \in 1..s : y = Stretched(top, k - 1, k)
          BY <4>2, <4>6
        <5>2. y \in {T!Stretch(top, i - 1, i) : i \in 1..s}
          BY <5>1 DEF T!Stretch, Stretched
        <5> QED
          BY <3>4, <4>3, <4>4, <4>6, <5>2 DEF T!Follow
      <4> QED
        BY <4>5, <4>6
    <3> QED
      BY <3>6, <3>7
  <2> QED
    BY <2>6, <2>7
<1> QED
  BY <1>1, <1>4, <1>5, <1>6 DEF Deliver

LEMMA PageAnsweredShows ==
  ASSUME SInv, SInv', PageAnswered
  PROVE  T!Replace
<1>1. /\ client.phase = "page" /\ sess = "live"
      /\ UNCHANGED <<sess, journal, logs, conn, wire, requests>>
      /\ client' = Seeded(client, Page(journal, Nil, PageSize))
  BY DEF PageAnswered
<1>2. IInv /\ client \in Clients /\ Whole(client, Inc, logs[Inc], OldestSeq(journal))
  BY <1>1 DEF SInv, CInv
<1>3. /\ Inc \in Nat /\ Inc >= 1 /\ Incarnation = Inc
      /\ logs[Inc] \in Seq(Kinds) /\ Len(logs[Inc]) >= 1
      /\ Holds(journal, Entries(Inc, logs[Inc]))
  BY <1>1, <1>2, Logged DEF Whole
<1>4. PICK oldest : oldest = OldestSeq(journal)
  OBVIOUS
<1>5. oldest \in Nat \ {0}
  <2>1. oldest \in Nat /\ oldest >= 1
    BY <1>3, <1>4, Begins
  <2> QED
    BY <2>1
<1>6. PICK page : page = Page(journal, Nil, PageSize)
  OBVIOUS
<1>7. PICK items, next : items = page.items /\ next = page.nextBefore
  OBVIOUS
<1>8. IsPage(items, next, Inc, logs[Inc], oldest, Nil)
  <2>1. logs[Inc] # <<>>
    BY <1>3
  <2>2. Nil \in Nat \cup {Nil}
    OBVIOUS
  <2> QED
    BY <1>3, <1>4, <1>6, <1>7, <2>1, <2>2, PageServes
<1>9. PICK d : d = client'
  OBVIOUS
<1>10. d.timeline = items
  <2>1. PICK n, m : /\ n = (IF items # <<>> THEN items[Len(items)].seq ELSE client.stateSeq)
                    /\ m = (IF items # <<>> \/ client.stateSeq = 0 THEN Inc ELSE client.stateInc)
    OBVIOUS
  <2>2. d = [client EXCEPT !.phase = "stream", !.timeline = items, !.older = next,
                           !.loadingOlder = FALSE, !.cursor = n, !.cursorInc = m]
    BY <1>1, <1>6, <1>7, <1>9, <2>1 DEF Seeded
  <2> QED
    BY <1>2, <2>2 DEF Clients
<1>11. Inc' = Inc /\ Incarnation' = Inc
  BY <1>1, <1>3 DEF Inc, Incarnation
<1>12. d.cursorInc \in 0..Inc
  <2>1. client' \in Clients /\ Known(client', logs', Incarnation')
    BY DEF SInv, CInv, Parts
  <2>2. d \in Clients /\ d.cursorInc <= Inc
    BY <1>9, <1>11, <2>1 DEF Known
  <2>3. d.cursorInc \in Nat
    BY <2>2, ClientParts
  <2> QED
    BY <1>3, <2>2, <2>3
<1>13. PICK y, s, ci : /\ y = Extent(items, ci, logs) /\ s = SaidIn(logs, Inc)
                       /\ ci = d.cursorInc
  OBVIOUS
<1>14. \/ y = Stretched(ci, 0, 0)
       \/ s \in Nat /\ \E k \in 0..(s - 1) : y = Stretched(Inc, k, s)
  <2>1. Fresh(y, ci, Inc, SaidIn(logs, Inc))
    BY <1>3, <1>5, <1>8, <1>13, ExtentSeeded
  <2> QED
    BY <1>13, <2>1 DEF Fresh
<1>15. ShownStretch' = y /\ Said = s /\ Said' = s
  BY <1>1, <1>3, <1>9, <1>10, <1>11, <1>13, ShownNext, SaidIs, SaidNext
<1>16. y \in {T!Blank(inc) : inc \in 0..Inc} \cup {T!Stretch(Inc, k, s) : k \in 0..(s - 1)}
  <2>1. CASE y = Stretched(ci, 0, 0)
    <3>1. ci \in 0..Inc /\ y = T!Blank(ci)
      BY <1>12, <1>13, <2>1 DEF T!Blank, T!Stretch, Stretched
    <3> QED
      BY <3>1
  <2>2. ASSUME NEW k \in 0..(s - 1), y = Stretched(Inc, k, s)
        PROVE  y \in {T!Stretch(Inc, i, s) : i \in 0..(s - 1)}
    <3>1. y = T!Stretch(Inc, k, s)
      BY <2>2 DEF T!Stretch, Stretched
    <3> QED
      BY <3>1
  <2> QED
    BY <1>14, <2>1, <2>2
<1> QED
  BY <1>3, <1>11, <1>15, <1>16 DEF T!Replace

LEMMA OlderAnsweredShows ==
  ASSUME SInv, SInv', NEW q \in requests, OlderAnswered(q)
  PROVE  T!LookBack \/ T!Drift \/ UNCHANGED T!vars
<1>1. PICK page : page = Page(journal, q.before, PageSize)
  OBVIOUS
<1>2. PICK items, next : items = page.items /\ next = page.nextBefore
  OBVIOUS
<1>3. /\ sess = "live" /\ UNCHANGED <<sess, journal, logs, conn, wire>>
      /\ IF q.epoch = client.epoch
         THEN client' = [client EXCEPT !.timeline = items \o @, !.older = next,
                                       !.loadingOlder = FALSE]
         ELSE client' = client
  BY <1>1, <1>2 DEF OlderAnswered, IsCurrent
<1>4. CASE q.epoch # client.epoch
  BY <1>3, <1>4, LogsStay
<1>5. CASE q.epoch = client.epoch
  <2>1. /\ IInv /\ client \in Clients /\ requests \in SUBSET Requests
        /\ Asks(client, requests) /\ Known(client, logs, Incarnation)
        /\ Whole(client, Inc, logs[Inc], OldestSeq(journal))
    BY <1>3 DEF SInv, CInv, Parts
  <2>2. /\ Inc \in Nat /\ Inc >= 1 /\ Incarnation = Inc
        /\ logs[Inc] \in Seq(Kinds) /\ Len(logs[Inc]) >= 1
        /\ Holds(journal, Entries(Inc, logs[Inc]))
    BY <1>3, <2>1, Logged DEF Whole
  <2>3. PICK oldest : oldest = OldestSeq(journal)
    OBVIOUS
  <2>4. oldest \in Nat \ {0}
    <3>1. oldest \in Nat /\ oldest >= 1
      BY <2>2, <2>3, Begins
    <3> QED
      BY <3>1
  <2>5. q.before = client.older /\ q.before \in Nat
    <3>1. q.before \in Nat
      BY <2>1 DEF Requests
    <3> QED
      BY <1>5, <2>1, <3>1, OneCounts
  <2>6. Len(client.timeline) >= 1 /\ q.before = client.timeline[1].seq
    <3>1. client.older # Nil
      BY <2>5, NilIsNoNumber
    <3> QED
      BY <2>1, <2>5, <3>1 DEF Asks
  <2>7. IsPage(items, next, Inc, logs[Inc], oldest, client.timeline[1].seq)
    <3>1. logs[Inc] # <<>>
      BY <2>2
    <3>2. q.before \in Nat \cup {Nil}
      BY <2>5
    <3>3. IsPage(items, next, Inc, logs[Inc], oldest, q.before)
      BY <1>1, <1>2, <2>2, <2>3, <3>1, <3>2, PageServes
    <3> QED
      BY <2>6, <3>3
  <2>8. PICK t, d : t = items \o client.timeline /\ d = client'
    OBVIOUS
  <2>9. d.timeline = t /\ d.cursorInc = client.cursorInc
    <3>1. d = [client EXCEPT !.timeline = t, !.older = next, !.loadingOlder = FALSE]
      BY <1>3, <1>5, <2>1, <2>8 DEF Clients
    <3> QED
      BY <2>1, <3>1 DEF Clients
  <2>10. Inc' = Inc /\ Incarnation' = Inc
    BY <1>3, <2>2 DEF Inc, Incarnation
  <2>11. PICK x, y, s : /\ x = Extent(client.timeline, client.cursorInc, logs)
                        /\ y = Extent(t, client.cursorInc, logs)
                        /\ s = SaidIn(logs, Inc)
    OBVIOUS
  <2>12. /\ ShownStretch = x /\ ShownStretch' = y /\ Said = s /\ Said' = s
    BY <1>3, <2>2, <2>8, <2>9, <2>10, <2>11, ShownIs, ShownNext, SaidIs, SaidNext
  <2>13. CASE x.mixed \/ x.inc # Inc
    BY <2>2, <2>10, <2>12, <2>13 DEF T!Drift, T!Outdated
  <2>14. CASE ~x.mixed /\ x.inc = Inc
    <3>1. ~T!Outdated
      BY <2>2, <2>12, <2>14 DEF T!Outdated
    <3>2. PICK k \in 0..x.from : y = Stretched(Inc, k, x.to)
      <4>1. /\ Known(client, logs, Inc) /\ y = Extent(items \o client.timeline, client.cursorInc, logs)
            /\ x = Extent(client.timeline, client.cursorInc, logs)
        BY <2>1, <2>2, <2>8, <2>11
      <4>2. client \in Clients /\ ~x.mixed /\ x.inc = Inc
        BY <2>1, <2>14
      <4>3. PICK top : top = Inc
        OBVIOUS
      <4>4. /\ top \in Nat /\ top >= 1 /\ logs[top] \in Seq(Kinds) /\ Known(client, logs, top)
            /\ IsPage(items, next, top, logs[top], oldest, client.timeline[1].seq)
            /\ x.inc = top
        BY <2>2, <2>7, <4>1, <4>2, <4>3
      <4>5. Earlier(y, x, top)
        BY <2>4, <2>6, <4>1, <4>2, <4>4, ExtentPrepended
      <4> QED
        BY <4>3, <4>5 DEF Earlier
    <3>3. y \in {T!Stretch(Inc, i, x.to) : i \in 0..x.from}
      <4>1. y = T!Stretch(Inc, k, x.to)
        BY <3>2 DEF T!Stretch, Stretched
      <4> QED
        BY <4>1
    <3> QED
      BY <2>2, <2>10, <2>12, <3>1, <3>3 DEF T!LookBack
  <2> QED
    BY <2>13, <2>14
<1> QED
  BY <1>4, <1>5


LEMMA InitShows == Init => T!Init
<1> SUFFICES ASSUME Init PROVE T!Init
  OBVIOUS
<1>1. /\ sess = "offline" /\ logs = <<>>
      /\ client = [phase |-> "get", epoch |-> 1, stateSeq |-> 0, stateInc |-> 0,
                   cursor |-> 0, cursorInc |-> 0, timeline |-> <<>>,
                   older |-> Nil, loadingOlder |-> FALSE]
  BY DEF Init
<1>2. Incarnation = 0
  BY <1>1 DEF Incarnation, Inc
<1>3. Said = 0
  BY <1>2 DEF Said
<1>4. client.timeline = <<>> /\ client.cursorInc = 0
  BY <1>1
<1>5. ShownStretch = T!Blank(0)
  BY <1>4 DEF ShownStretch, Shown, T!Blank, T!Stretch
<1> QED
  BY <1>2, <1>3, <1>5 DEF T!Init

\* Steps that leave the logs alone, and of the client what is shown.
LEMMA OthersShow ==
  ASSUME SInv, SInv',
         \/ HostRestart \/ Attach \/ Cut \/ Disturb \/ Refresh \/ GetAnswered
         \/ ResyncFails \/ Connect \/ CloseSeen \/ LoadOlder
         \/ \E r \in requests : OlderFails(r)
         \/ UNCHANGED vars
  PROVE  UNCHANGED T!vars
<1>1. client \in Clients
  BY DEF SInv, CInv
<1>2. CASE UNCHANGED vars
  BY <1>2, LogsStay DEF vars
<1>3. CASE HostRestart
  BY <1>3, LogsStay DEF HostRestart
<1>4. CASE Attach
  BY <1>4, LogsStay DEF Attach
<1>5. CASE Cut
  BY <1>5, LogsStay DEF Cut
<1>6. CASE Disturb
  BY <1>6, LogsStay DEF Disturb
<1>7. CASE Connect
  BY <1>7, LogsStay DEF Connect
<1>8. CASE CloseSeen
  BY <1>8, LogsStay DEF CloseSeen
<1>9. CASE Refresh
  <2>1. sess' = sess /\ logs' = logs /\ client' = Resynced(client)
    BY <1>9 DEF Refresh, StartResync
  <2>2. client'.timeline = client.timeline /\ client'.cursorInc = client.cursorInc
    BY <1>1, <2>1 DEF Resynced, Clients
  <2> QED
    BY <2>1, <2>2, LogsStay
<1>10. CASE GetAnswered
  <2>1. PICK n, i : /\ n = (IF sess = "live" THEN LatestSeq(journal) ELSE 0)
                    /\ i = (IF sess = "live" THEN Inc ELSE 0)
    OBVIOUS
  <2>2. /\ sess' = sess /\ logs' = logs
        /\ client' = [client EXCEPT !.phase = "page", !.stateSeq = n, !.stateInc = i]
    BY <1>10, <2>1 DEF GetAnswered
  <2>3. client'.timeline = client.timeline /\ client'.cursorInc = client.cursorInc
    BY <1>1, <2>2 DEF Clients
  <2> QED
    BY <2>2, <2>3, LogsStay
<1>11. CASE ResyncFails
  <2>1. sess' = sess /\ logs' = logs /\ client' = [client EXCEPT !.phase = "error"]
    BY <1>11 DEF ResyncFails
  <2>2. client'.timeline = client.timeline /\ client'.cursorInc = client.cursorInc
    BY <1>1, <2>1 DEF Clients
  <2> QED
    BY <2>1, <2>2, LogsStay
<1>12. CASE LoadOlder
  <2>1. sess' = sess /\ logs' = logs /\ client' = [client EXCEPT !.loadingOlder = TRUE]
    BY <1>12 DEF LoadOlder
  <2>2. client'.timeline = client.timeline /\ client'.cursorInc = client.cursorInc
    BY <1>1, <2>1 DEF Clients
  <2> QED
    BY <2>1, <2>2, LogsStay
<1>13. CASE \E r \in requests : OlderFails(r)
  <2>1. /\ sess' = sess /\ logs' = logs
        /\ client' = client \/ client' = [client EXCEPT !.loadingOlder = FALSE]
    BY <1>13 DEF OlderFails
  <2>2. client'.timeline = client.timeline /\ client'.cursorInc = client.cursorInc
    BY <1>1, <2>1 DEF Clients
  <2> QED
    BY <2>1, <2>2, LogsStay
<1> QED
  BY <1>2, <1>3, <1>4, <1>5, <1>6, <1>7, <1>8, <1>9, <1>10, <1>11, <1>12, <1>13

LEMMA StepShows ==
  ASSUME SInv, SInv', [Next]_vars
  PROVE  [T!Next]_(T!vars)
<1>1. CASE \E kind \in Kinds : Frame(kind)
  <2>1. PICK kind \in Kinds : Frame(kind)
    BY <1>1
  <2>2. T!Say \/ UNCHANGED T!vars
    BY <2>1, FrameShows
  <2> QED
    BY <2>2 DEF T!Next
<1>2. CASE BeginLoad
  BY <1>2, BeginLoadShows
<1>3. CASE Replay
  BY <1>3, ReplayShows
<1>4. CASE Loaded
  BY <1>4, LoadedShows DEF T!Next
<1>5. CASE LoadFails
  BY <1>5, LoadFailsShows
<1>6. CASE Receive
  BY <1>6, ReceiveShows DEF T!Next
<1>7. CASE PageAnswered
  BY <1>7, PageAnsweredShows DEF T!Next
<1>8. CASE \E r \in requests : OlderAnswered(r)
  <2>1. PICK r \in requests : OlderAnswered(r)
    BY <1>8
  <2>2. T!LookBack \/ T!Drift \/ UNCHANGED T!vars
    BY <2>1, OlderAnsweredShows
  <2> QED
    BY <2>2 DEF T!Next
<1>9. CASE \/ HostRestart \/ Attach \/ Cut \/ Disturb \/ Refresh \/ GetAnswered
           \/ ResyncFails \/ Connect \/ CloseSeen \/ LoadOlder
           \/ \E r \in requests : OlderFails(r)
           \/ UNCHANGED vars
  BY <1>9, OthersShow
<1> QED
  BY <1>1, <1>2, <1>3, <1>4, <1>5, <1>6, <1>7, <1>8, <1>9 DEF Next

\* Whatever host, network and client do, the reader sees a transcript: messages
\* appear at its ends one stretch at a time, and it is replaced only by one that
\* ends with the newest message.  Every step of SessionStream is a step of
\* Transcript, for every capacity, page size and number of failures.
THEOREM StreamShowsATranscript ==
  ASSUME ~ScrollsInResync
  PROVE  Spec => ShowsATranscript
<1>1. Init => SInv
  BY InitKeeps
<1>2. SInv /\ [Next]_vars => SInv'
  BY StepKeeps
<1>3. Init => T!Init
  BY InitShows
<1>4. SInv /\ SInv' /\ [Next]_vars => [T!Next]_(T!vars)
  BY StepShows
<1> QED
  BY <1>1, <1>2, <1>3, <1>4, PTL DEF Spec, ShowsATranscript, T!Spec

=============================================================================
