--------------------------- MODULE PtyHandoffProofs ---------------------------
(***************************************************************************)
(* Proofs about PtyHandoff, for any sessions, ring size, faults and        *)
(* bounds.                                                                 *)
(*                                                                         *)
(* Who has a terminal open: the daemon in charge, its heir while there is  *)
(* one, and predecessors on their way out (Readers).  That no shell is     *)
(* hung up needs more: a shell that ran before a handoff is in the store   *)
(* of the daemon in charge, in the snapshot, among the descriptors of the  *)
(* heir from the moment it is spawned, and in its store once it has        *)
(* adopted, so that the predecessor leaves only when somebody else holds   *)
(* the terminal (Carried).                                                 *)
(*                                                                         *)
(* A replay is in order because every ring is: piece by piece, and no      *)
(* chunk in it is newer than the last one read (InOrder).                  *)
(***************************************************************************)
EXTENDS PtyHandoff, WellFoundedInduction, TLAPS

States == {"unborn", "serving", "handing", "leaving", "closing", "closed",
           "booting", "adopted", "failed", "dead"}
Shell == [state : {"none", "running", "dead", "lost"}, printed : Nat, read : Nat,
          late : BOOLEAN]
Sessions == [Ids -> Shells \cup {None}]
Pieces == Seq(Seq(Nat))

Types ==
  /\ procs \in [Procs -> States]
  /\ head \in Procs /\ heir \in Procs \cup {None}
  /\ client \in Procs \cup {None} /\ path \in Procs \cup {None}
  /\ store \in [Procs -> Sessions]
  /\ ring \in [Procs -> [Shells -> Pieces]]
  /\ shells \in [Shells -> Shell]
  /\ fds \in [Shells -> SUBSET Procs]
  /\ offer \subseteq [sessions : Sessions, buffer : [Shells -> Seq(Nat)]]
  /\ ack \in {"none", "ack", "nak"}

Leavers == {p \in Procs : procs[p] \in {"leaving", "closing", "closed"}}

\* Who is in charge, and what becomes of a successor, which may serve while its
\* predecessor still waits for an answer.
Charge ==
  /\ procs[head] \in {"serving", "handing", "leaving", "closing", "closed", "dead"}
  /\ \A p \in Procs : procs[p] = "handing" => p = head
  /\ \A p \in Procs : procs[p] = "serving" => p \in {head, heir}
  /\ Bound => procs[head] = "handing" /\ offer = {}
  /\ procs[head] = "serving" => heir = None
  /\ procs[head] = "handing" => heir # None
  /\ heir # None => heir # head /\ procs[heir] \in {"booting", "adopted", "failed", "serving", "dead"}
  /\ heir = None => offer = {}

Readers ==
  /\ \A sh \in Shells : fds[sh] \subseteq {head, heir} \cup Leavers
  /\ \A p \in Procs, sh \in Shells : procs[p] \in {"unborn", "dead"} => p \notin fds[sh]

\* As long as no daemon died of something else, one that leaves has an heir.
Succession ==
  /\ heir = None => procs[head] = "serving"
  /\ heir # None /\ procs[head] # "handing" =>
       procs[head] \in {"leaving", "closing", "closed", "dead"} /\ procs[heir] = "adopted"
  /\ ack = "ack" => heir # None /\ procs[heir] \in {"adopted", "serving"}

Carried(sh) ==
  /\ procs[head] # "dead" => head \in fds[sh] /\ sh \in Held(head)
  /\ heir # None /\ procs[heir] \in {"booting", "adopted", "serving"} => heir \in fds[sh]
  /\ heir # None /\ procs[heir] \in {"adopted", "serving"} => sh \in Held(heir)
  /\ \A o \in offer : \E id \in Ids : o.sessions[id] = sh

Survives(sh) ==
  /\ shells[sh].state = "running" /\ ~shells[sh].late => Carried(sh)
  /\ shells[sh].state = "lost" => shells[sh].late

Surviving == ~Crashed => Succession /\ \A sh \in Shells : Survives(sh)

\* Every piece is in order, and so are the pieces.
InOrder(pieces, last) ==
  /\ \A i \in DOMAIN pieces : \A a, b \in DOMAIN pieces[i] :
       a < b => pieces[i][a] < pieces[i][b]
  /\ \A i, j \in DOMAIN pieces : i < j =>
       \A a \in DOMAIN pieces[i], b \in DOMAIN pieces[j] : pieces[i][a] < pieces[j][b]
  /\ \A i \in DOMAIN pieces : \A a \in DOMAIN pieces[i] : pieces[i][a] <= last

Ordered ==
  \A sh \in Shells :
    /\ \A p \in Procs : InOrder(ring[p][sh], shells[sh].read)
    /\ \A o \in offer : InOrder(<<o.buffer[sh]>>, shells[sh].read)

IInv == Types /\ Charge /\ Readers /\ Surviving /\ Ordered
-----------------------------------------------------------------------------
\* Sequences of pieces.  What holds of every number is proved of the least one
\* it might not hold of.

LEMMA LeastNatural ==
  ASSUME NEW T \in SUBSET Nat, T # {}
  PROVE  \E n \in T : \A m \in T : n <= m
<1>1. PICK n \in T : \A m \in T : ~(<<m, n>> \in OpToRel(<, Nat))
  BY WFMin, NatLessThanWellFounded, Zenon
<1>2. \A m \in T : ~(m < n)
  BY <1>1 DEF OpToRel
<1> QED
  BY <1>2

\* What FlattenSeq computes, as far as piece n.
Flattens(f, s, n) == f = [i \in 1..n |-> IF i = 1 THEN s[i] ELSE f[i - 1] \o s[i]]

LEMMA FlattensExists ==
  ASSUME NEW s \in Pieces, NEW n \in 1..Len(s)
  PROVE  \E f : Flattens(f, s, n)
<1> DEFINE Bad == {k \in 1..Len(s) : ~\E f : Flattens(f, s, k)}
<1> SUFFICES ASSUME Bad # {} PROVE FALSE
  OBVIOUS
<1>1. Len(s) \in Nat /\ Bad \in SUBSET Nat
  BY DEF Pieces
<1>2. PICK k \in Bad : \A m \in Bad : k <= m
  BY <1>1, LeastNatural
<1>3. k \in 1..Len(s) /\ k \in Nat /\ ~\E f : Flattens(f, s, k)
  BY <1>1, <1>2
<1>4. CASE k = 1
  <2> DEFINE f == [i \in 1..1 |-> s[1]]
  <2>1. f = [i \in 1..1 |-> IF i = 1 THEN s[i] ELSE f[i - 1] \o s[i]]
    OBVIOUS
  <2> HIDE DEF f
  <2> QED
    BY <1>3, <1>4, <2>1 DEF Flattens
<1>5. CASE k # 1
  <2>1. k - 1 \in 1..Len(s) /\ ~(k <= k - 1)
    BY <1>1, <1>3, <1>5
  <2>2. PICK f : Flattens(f, s, k - 1)
    BY <1>2, <2>1
  <2> DEFINE g == [i \in 1..k |-> IF i < k THEN f[i] ELSE f[k - 1] \o s[k]]
  <2>3. ASSUME NEW i \in 1..k
        PROVE  g[i] = IF i = 1 THEN s[i] ELSE g[i - 1] \o s[i]
    <3>1. CASE i = k
      <4>1. k \in 1..k /\ k - 1 \in 1..k /\ k - 1 < k /\ ~(k < k)
        BY <1>3, <2>1
      <4>2. g[k] = f[k - 1] \o s[k]
        BY <4>1
      <4>3. g[k - 1] = f[k - 1]
        BY <4>1
      <4> QED
        BY <1>5, <3>1, <4>2, <4>3
    <3>2. CASE i # k
      <4>1. i \in 1..(k - 1) /\ i < k
        BY <1>3, <3>2
      <4>2. g[i] = f[i] /\ (i # 1 => g[i - 1] = f[i - 1])
        BY <1>3, <4>1
      <4>3. f[i] = IF i = 1 THEN s[i] ELSE f[i - 1] \o s[i]
        BY <2>2, <4>1 DEF Flattens
      <4> QED
        BY <4>2, <4>3
    <3> QED
      BY <3>1, <3>2
  <2>4. g = [i \in 1..k |-> g[i]]
    OBVIOUS
  <2> HIDE DEF g
  <2>5. Flattens(g, s, k)
    BY <2>3, <2>4 DEF Flattens
  <2> QED
    BY <1>3, <2>5
<1> QED
  BY <1>4, <1>5

LEMMA FlattenIsLast ==
  ASSUME NEW s \in Pieces, Len(s) # 0
  PROVE  \E f : Flattens(f, s, Len(s)) /\ FlattenSeq(s) = f[Len(s)]
<1> DEFINE f == CHOOSE g : g = [i \in 1..Len(s) |-> IF i = 1 THEN s[i] ELSE g[i - 1] \o s[i]]
<1>1. FlattenSeq(s) = f[Len(s)]
  BY Zenon DEF FlattenSeq
<1>2. Len(s) \in 1..Len(s)
  BY DEF Pieces
<1>3. \E g : Flattens(g, s, Len(s))
  BY <1>2, FlattensExists
<1>4. Flattens(f, s, Len(s))
  BY <1>3, Zenon DEF Flattens
<1> QED
  BY <1>1, <1>4

LEMMA FlattenEmpty == FlattenSeq(<<>>) = <<>>
<1>1. Len(<<>>) = 0
  OBVIOUS
<1> QED
  BY <1>1 DEF FlattenSeq

\* Flattened pieces are in order if the pieces are.
LEMMA FlattenInOrder ==
  ASSUME NEW s \in Pieces, NEW last \in Nat, InOrder(s, last)
  PROVE  /\ FlattenSeq(s) \in Seq(Nat)
         /\ InOrder(<<FlattenSeq(s)>>, last)
         /\ \A i, j \in DOMAIN FlattenSeq(s) : i < j => FlattenSeq(s)[i] < FlattenSeq(s)[j]
<1>1. Len(s) \in Nat /\ DOMAIN s = 1..Len(s)
      /\ \A i \in 1..Len(s) : s[i] \in Seq(Nat)
  BY DEF Pieces
<1>2. ASSUME NEW q \in Seq(Nat),
             \A a, b \in DOMAIN q : a < b => q[a] < q[b],
             \A a \in DOMAIN q : q[a] <= last
      PROVE  InOrder(<<q>>, last)
  BY <1>2 DEF InOrder
<1>3. CASE Len(s) = 0
  <2>1. s = <<>>
    BY <1>1, <1>3 DEF Pieces
  <2>2. FlattenSeq(s) = <<>>
    BY <2>1, FlattenEmpty
  <2>3. <<>> \in Seq(Nat) /\ DOMAIN <<>> = {}
    OBVIOUS
  <2>4. InOrder(<< <<>> >>, last)
    BY <1>2, <2>3
  <2> QED
    BY <2>2, <2>3, <2>4
<1>4. CASE Len(s) # 0
  <2>1. PICK f : Flattens(f, s, Len(s)) /\ FlattenSeq(s) = f[Len(s)]
    BY <1>4, FlattenIsLast
  <2> DEFINE Good(n) == /\ f[n] \in Seq(Nat)
                        /\ \A a, b \in DOMAIN f[n] : a < b => f[n][a] < f[n][b]
                        /\ \A a \in DOMAIN f[n] :
                             \E i \in 1..n : \E b \in DOMAIN s[i] : f[n][a] = s[i][b]
             Bad == {n \in 1..Len(s) : ~Good(n)}
  <2>2. Bad = {}
    <3> SUFFICES ASSUME Bad # {} PROVE FALSE
      OBVIOUS
    <3>1. Bad \in SUBSET Nat
      BY <1>1
    <3>2. PICK n \in Bad : \A m \in Bad : n <= m
      BY <3>1, LeastNatural
    <3>3. n \in 1..Len(s) /\ n \in Nat /\ n >= 1 /\ ~Good(n) /\ s[n] \in Seq(Nat)
      BY <1>1, <3>1, <3>2
    <3>4. /\ \A a, b \in DOMAIN s[n] : a < b => s[n][a] < s[n][b]
          /\ \A i \in 1..(n - 1) : \A a \in DOMAIN s[i], b \in DOMAIN s[n] : s[i][a] < s[n][b]
      <4>1. n \in DOMAIN s
        BY <1>1, <3>3
      <4>2. \A i \in 1..(n - 1) : i \in DOMAIN s /\ i < n
        BY <1>1, <3>3
      <4> QED
        BY <4>1, <4>2 DEF InOrder
    <3> HIDE DEF Bad
    <3>5. CASE n = 1
      <4>1. f[n] = s[n]
        BY <2>1, <3>3, <3>5 DEF Flattens
      <4>2. n \in 1..n
        BY <3>3
      <4> QED
        BY <3>3, <3>4, <4>1, <4>2
    <3>6. CASE n # 1
      <4>1. n - 1 \in 1..Len(s) /\ n - 1 \in Nat /\ n - 1 < n /\ f[n] = f[n - 1] \o s[n]
        <5>1. n - 1 \in 1..Len(s) /\ n - 1 \in Nat /\ n - 1 < n
          BY <1>1, <3>3, <3>6
        <5> QED
          BY <2>1, <3>3, <3>6, <5>1 DEF Flattens
      <4>2. Good(n - 1)
        <5> HIDE DEF Good
        <5>1. n - 1 \notin Bad
          BY <3>1, <3>2, <3>3, <4>1
        <5> QED
          BY <4>1, <5>1 DEF Bad
      <4> DEFINE p == f[n - 1]
                 q == s[n]
      <4>3. /\ p \in Seq(Nat) /\ q \in Seq(Nat) /\ f[n] = p \o q
            /\ \A a, b \in DOMAIN p : a < b => p[a] < p[b]
            /\ \A a, b \in DOMAIN q : a < b => q[a] < q[b]
            /\ \A a \in DOMAIN p : \E i \in 1..(n - 1) : \E b \in DOMAIN s[i] : p[a] = s[i][b]
        BY <3>3, <3>4, <4>1, <4>2
      <4>4. \A a \in DOMAIN p, b \in DOMAIN q : p[a] < q[b]
        BY <3>4, <4>3
      <4>5. 1..(n - 1) \subseteq 1..n /\ n \in 1..n
        BY <3>3
      <4>6. \A a \in DOMAIN p : \E i \in 1..n : \E b \in DOMAIN s[i] : p[a] = s[i][b]
        BY <4>3, <4>5
      <4>7. \A a \in DOMAIN q : \E i \in 1..n : \E b \in DOMAIN s[i] : q[a] = s[i][b]
        BY <4>5
      <4> HIDE DEF p, q, Good
      <4>8. /\ p \o q \in Seq(Nat)
            /\ \A a \in DOMAIN (p \o q) :
                 \/ a \in DOMAIN p /\ (p \o q)[a] = p[a]
                 \/ a - Len(p) \in DOMAIN q /\ (p \o q)[a] = q[a - Len(p)] /\ a > Len(p)
        BY <4>3
      <4>9. \A a, b \in DOMAIN (p \o q) : a < b => (p \o q)[a] < (p \o q)[b]
        BY <4>3, <4>4, <4>8
      <4>10. ASSUME NEW a \in DOMAIN (p \o q)
             PROVE  \E i \in 1..n : \E b \in DOMAIN s[i] : (p \o q)[a] = s[i][b]
        <5>1. CASE a \in DOMAIN p /\ (p \o q)[a] = p[a]
          BY <4>6, <5>1
        <5>2. CASE a - Len(p) \in DOMAIN q /\ (p \o q)[a] = q[a - Len(p)]
          BY <4>7, <5>2
        <5> QED
          BY <4>8, <5>1, <5>2
      <4> DEFINE r == p \o q
      <4>11. r = f[n] /\ r \in Seq(Nat)
             /\ (\A a, b \in DOMAIN r : a < b => r[a] < r[b])
             /\ (\A a \in DOMAIN r : \E i \in 1..n : \E b \in DOMAIN s[i] : r[a] = s[i][b])
        BY <4>3, <4>8, <4>9, <4>10
      <4> HIDE DEF r
      <4>12. Good(n)
        BY <4>11 DEF Good
      <4> QED
        BY <3>3, <4>12
    <3> QED
      BY <3>5, <3>6
  <2>3. Good(Len(s))
    <3>1. Len(s) \in 1..Len(s)
      BY <1>1, <1>4
    <3> QED
      BY <2>2, <3>1
  <2> DEFINE q == f[Len(s)]
  <2>4. /\ q \in Seq(Nat)
        /\ \A a, b \in DOMAIN q : a < b => q[a] < q[b]
        /\ \A a \in DOMAIN q : \E i \in 1..Len(s) : \E b \in DOMAIN s[i] : q[a] = s[i][b]
    BY <2>3
  <2>5. \A a \in DOMAIN q : q[a] <= last
    BY <1>1, <2>4 DEF InOrder
  <2> HIDE DEF q
  <2>6. InOrder(<<q>>, last)
    BY <1>2, <2>4, <2>5
  <2> QED
    BY <2>1, <2>4, <2>6 DEF q
<1> QED
  BY <1>3, <1>4

LEMMA SuffixInOrder ==
  ASSUME NEW s \in Pieces, NEW last \in Nat, InOrder(s, last), NEW k \in 1..(Len(s) + 1)
  PROVE  SubSeq(s, k, Len(s)) \in Pieces /\ InOrder(SubSeq(s, k, Len(s)), last)
<1> DEFINE t == SubSeq(s, k, Len(s))
<1>1. /\ Len(s) \in Nat /\ k \in Nat /\ DOMAIN s = 1..Len(s)
      /\ t \in Pieces /\ DOMAIN t = 1..(Len(s) - k + 1)
      /\ \A i \in DOMAIN t : t[i] = s[i + k - 1]
  BY DEF Pieces
<1> HIDE DEF t
<1>2. \A i \in DOMAIN t : i \in Nat /\ i + k - 1 \in DOMAIN s
  BY <1>1
<1>3. \A i, j \in DOMAIN t : i < j => i + k - 1 < j + k - 1
  BY <1>1, <1>2
<1>4. InOrder(t, last)
  <2>1. \A i \in DOMAIN t : \A a, b \in DOMAIN t[i] : a < b => t[i][a] < t[i][b]
    BY <1>1, <1>2 DEF InOrder
  <2>2. ASSUME NEW i \in DOMAIN t, NEW j \in DOMAIN t, i < j
        PROVE  \A a \in DOMAIN t[i], b \in DOMAIN t[j] : t[i][a] < t[j][b]
    BY <1>1, <1>2, <1>3, <2>2 DEF InOrder
  <2>3. \A i \in DOMAIN t : \A a \in DOMAIN t[i] : t[i][a] <= last
    BY <1>1, <1>2 DEF InOrder
  <2> QED
    BY <2>1, <2>2, <2>3 DEF InOrder
<1> QED
  BY <1>1, <1>4 DEF t

\* The ring drops whole pieces, the oldest first, and always can.
LEMMA TrimmedIsSuffix ==
  ASSUME NEW s \in Pieces
  PROVE  \E k \in 1..(Len(s) + 1) : Trimmed(s) = SubSeq(s, k, Len(s))
<1> DEFINE Fits(k) == Len(FlattenSeq(SubSeq(s, k, Len(s)))) <= Cap
           Fit == {k \in 1..(Len(s) + 1) : Fits(k)}
           First(k) == Fits(k) /\ \A j \in 1..(k - 1) : ~Fits(j)
<1>1. Len(s) \in Nat /\ Fit \in SUBSET Nat
  BY DEF Pieces
<1>2. Len(s) + 1 \in Fit
  <2>1. SubSeq(s, Len(s) + 1, Len(s)) = <<>>
    BY <1>1 DEF Pieces
  <2>2. Len(FlattenSeq(SubSeq(s, Len(s) + 1, Len(s)))) = Len(<<>>)
    BY <2>1, FlattenEmpty, Zenon
  <2>3. Fits(Len(s) + 1)
    <3> DEFINE n == Len(FlattenSeq(SubSeq(s, Len(s) + 1, Len(s))))
    <3>1. n = 0
      BY <2>2
    <3> HIDE DEF n
    <3>2. n <= Cap
      BY <3>1, HandoffAssumption
    <3> QED
      BY <3>2 DEF n
  <2> HIDE DEF Fits
  <2> QED
    BY <1>1, <2>3
<1>3. PICK k \in Fit : \A j \in Fit : k <= j
  <2> HIDE DEF Fit
  <2> QED
    BY <1>1, <1>2, LeastNatural
<1>4. \E k0 \in 1..(Len(s) + 1) : First(k0)
  <2> HIDE DEF Fits
  <2>1. k \in 1..(Len(s) + 1) /\ Fits(k) /\ k \in Nat
    BY <1>1, <1>3
  <2>2. ASSUME NEW j \in 1..(k - 1)
        PROVE  ~Fits(j)
    <3>1. j \in 1..(Len(s) + 1) /\ ~(k <= j)
      BY <1>1, <2>1
    <3> QED
      BY <1>3, <3>1
  <2> QED
    BY <2>1, <2>2
<1>5. Trimmed(s) = SubSeq(s, CHOOSE k0 \in 1..(Len(s) + 1) : First(k0), Len(s))
  BY Zenon DEF Trimmed
<1> HIDE DEF First
<1>6. (CHOOSE k0 \in 1..(Len(s) + 1) : First(k0)) \in 1..(Len(s) + 1)
  BY <1>4, Zenon
<1> QED
  BY <1>5, <1>6, Zenon

LEMMA BufferedInOrder ==
  ASSUME NEW s \in Pieces, NEW last \in Nat, InOrder(s, last)
  PROVE  Buffered(s, last + 1) \in Pieces /\ InOrder(Buffered(s, last + 1), last + 1)
<1> DEFINE piece == <<last + 1>>
           t == Append(s, piece)
<1>1. piece \in Seq(Nat) /\ DOMAIN piece = {1} /\ piece[1] = last + 1
  OBVIOUS
<1> HIDE DEF piece
<1>2. /\ t \in Pieces /\ Len(s) \in Nat /\ DOMAIN s = 1..Len(s) /\ DOMAIN t = 1..(Len(s) + 1)
      /\ Len(t) = Len(s) + 1
      /\ \A i \in DOMAIN s : t[i] = s[i] /\ s[i] \in Seq(Nat)
      /\ t[Len(s) + 1] = piece
  BY <1>1 DEF Pieces
<1> HIDE DEF t
<1>3. \A i \in DOMAIN t : i \in DOMAIN s \/ i = Len(s) + 1
  BY <1>2
<1>4. \A i \in DOMAIN s : \A a \in DOMAIN s[i] :
        s[i][a] \in Nat /\ s[i][a] <= last /\ s[i][a] < last + 1 /\ s[i][a] <= last + 1
  <2>1. ASSUME NEW i \in DOMAIN s, NEW a \in DOMAIN s[i]
        PROVE  s[i][a] \in Nat /\ s[i][a] <= last
    BY <1>2 DEF InOrder
  <2> QED
    BY <2>1
<1>5. InOrder(t, last + 1)
  <2>1. ASSUME NEW i \in DOMAIN t
        PROVE  /\ \A a, b \in DOMAIN t[i] : a < b => t[i][a] < t[i][b]
               /\ \A a \in DOMAIN t[i] : t[i][a] <= last + 1
    <3>1. CASE i \in DOMAIN s
      BY <1>2, <1>4, <3>1 DEF InOrder
    <3>2. CASE i = Len(s) + 1
      BY <1>1, <1>2, <3>2
    <3> QED
      BY <1>3, <3>1, <3>2
  <2>2. ASSUME NEW i \in DOMAIN t, NEW j \in DOMAIN t, i < j
        PROVE  \A a \in DOMAIN t[i], b \in DOMAIN t[j] : t[i][a] < t[j][b]
    <3>1. i \in DOMAIN s
      BY <1>2, <1>3, <2>2
    <3>2. CASE j \in DOMAIN s
      BY <1>2, <2>2, <3>1, <3>2 DEF InOrder
    <3>3. CASE j = Len(s) + 1
      BY <1>1, <1>2, <1>4, <3>1, <3>3
    <3> QED
      BY <1>3, <3>2, <3>3
  <2> QED
    BY <2>1, <2>2 DEF InOrder
<1>6. Buffered(s, last + 1) = Trimmed(t)
  BY DEF Buffered, t, piece
<1>7. PICK k \in 1..(Len(t) + 1) : Trimmed(t) = SubSeq(t, k, Len(t))
  BY <1>2, TrimmedIsSuffix
<1>8. last + 1 \in Nat
  OBVIOUS
<1> QED
  BY <1>2, <1>5, <1>6, <1>7, <1>8, SuffixInOrder

-----------------------------------------------------------------------------
\* The steps.

LEMMA InitHolds == Init => IInv
<1> SUFFICES ASSUME Init PROVE IInv
  OBVIOUS
<1>1. 1 \in Procs /\ None \notin Procs /\ None \notin Shells
  BY HandoffAssumption DEF Procs, Shells, None
<1>2. /\ procs = [p \in Procs |-> IF p = 1 THEN "serving" ELSE "unborn"]
      /\ head = 1 /\ heir = None /\ offer = {} /\ ack = "none"
      /\ client = None /\ path = 1
      /\ store = [p \in Procs |-> NoSessions]
      /\ ring = [p \in Procs |-> [sh \in Shells |-> <<>>]]
      /\ shells = [sh \in Shells |->
                     [state |-> "none", printed |-> 0, read |-> 0, late |-> FALSE]]
      /\ fds = [sh \in Shells |-> {}]
  BY DEF Init, NoRings
<1>3. Types
  <2>1. procs \in [Procs -> States]
    BY <1>2 DEF States
  <2>2. store \in [Procs -> Sessions]
    BY <1>2 DEF NoSessions, Sessions
  <2>3. ring \in [Procs -> [Shells -> Pieces]]
    <3>1. <<>> \in Pieces
      BY DEF Pieces
    <3> QED
      BY <1>2, <3>1
  <2>4. shells \in [Shells -> Shell]
    BY <1>2 DEF Shell
  <2> QED
    BY <1>1, <1>2, <2>1, <2>2, <2>3, <2>4 DEF Types
<1>4. Charge
  BY <1>1, <1>2 DEF Charge, Bound
<1>5. Readers
  BY <1>2 DEF Readers
<1>6. Surviving
  BY <1>1, <1>2 DEF Surviving, Succession, Survives
<1>7. Ordered
  BY <1>2 DEF Ordered, InOrder
<1> QED
  BY <1>3, <1>4, <1>5, <1>6, <1>7 DEF IInv

LEMMA OrderedSame ==
  ASSUME Ordered, ring' = ring, offer' \subseteq offer,
         \A sh \in Shells : shells'[sh].read = shells[sh].read
  PROVE  Ordered'
BY DEF Ordered, InOrder

\* What a step that is about nothing but shells, the client and the way a
\* predecessor leaves does.
LEMMA QuietStep ==
  ASSUME IInv, UNCHANGED <<procs, head, heir, store, ring, fds, offer, ack, path, faults>>,
         client' \in Procs \cup {None}, shells' \in [Shells -> Shell],
         \A sh \in Shells : /\ shells'[sh].read = shells[sh].read
                            /\ shells'[sh].late = shells[sh].late
                            /\ shells'[sh].state \in {shells[sh].state, "dead"}
  PROVE  IInv'
<1>1. Types'
  BY DEF IInv, Types
<1>2. Charge' /\ Readers'
  BY DEF IInv, Charge, Bound, Readers, Leavers
<1>3. Surviving'
  BY DEF IInv, Surviving, Crashed, Succession, Survives, Carried, Held
<1>4. Ordered'
  BY OrderedSame DEF IInv
<1> QED
  BY <1>1, <1>2, <1>3, <1>4 DEF IInv

LEMMA ShellStep ==
  ASSUME IInv, NEW sh \in Shells, ShellPrints(sh) \/ ShellEnds(sh)
  PROVE  IInv'
<1>1. shells \in [Shells -> Shell] /\ client \in Procs \cup {None}
  BY DEF IInv, Types
<1>2. /\ shells' \in [Shells -> Shell]
      /\ \A x \in Shells : /\ shells'[x].read = shells[x].read
                           /\ shells'[x].late = shells[x].late
                           /\ shells'[x].state \in {shells[x].state, "dead"}
  BY <1>1 DEF ShellPrints, ShellEnds, Shell
<1> QED
  BY <1>1, <1>2, QuietStep DEF ShellPrints, ShellEnds, memory, handoff

LEMMA EscalateStep ==
  ASSUME IInv, NEW sh \in Shells, NEW p \in Procs, Escalate(p, sh)
  PROVE  IInv'
<1>1. shells \in [Shells -> Shell] /\ client \in Procs \cup {None}
  BY DEF IInv, Types
<1>2. /\ shells' \in [Shells -> Shell]
      /\ \A x \in Shells : /\ shells'[x].read = shells[x].read
                           /\ shells'[x].late = shells[x].late
                           /\ shells'[x].state \in {shells[x].state, "dead"}
  BY <1>1 DEF Escalate, Shell
<1> QED
  BY <1>1, <1>2, QuietStep DEF Escalate, handoff

LEMMA CloseStep ==
  ASSUME IInv, NEW id \in Ids, NEW heeds \in BOOLEAN, Close(id, heeds)
  PROVE  IInv'
<1>1. shells \in [Shells -> Shell] /\ client \in Procs \cup {None}
      /\ store \in [Procs -> Sessions]
  BY DEF IInv, Types
<1> DEFINE sh == store[client][id]
<1>2. shells' = [shells EXCEPT ![sh].state = IF heeds /\ @ = "running" THEN "dead" ELSE @]
  BY DEF Close
<1> HIDE DEF sh
<1>3. /\ shells' \in [Shells -> Shell]
      /\ \A x \in Shells : /\ shells'[x].read = shells[x].read
                           /\ shells'[x].late = shells[x].late
                           /\ shells'[x].state \in {shells[x].state, "dead"}
  BY <1>1, <1>2 DEF Shell
<1> QED
  BY <1>1, <1>3, QuietStep DEF Close, handoff

LEMMA ConnectStep == IInv /\ Connect => IInv'
<1> SUFFICES ASSUME IInv, Connect PROVE IInv'
  OBVIOUS
<1>1. /\ shells \in [Shells -> Shell] /\ UNCHANGED shells
      /\ client' = path /\ path \in Procs \cup {None}
  BY DEF IInv, Types, Connect, kernel
<1> QED
  BY <1>1, QuietStep DEF Connect, memory, kernel, handoff

\* A ring that is in order stays so when more has been read.
LEMMA MoreIsRead ==
  ASSUME NEW s \in Pieces, NEW last \in Nat, InOrder(s, last)
  PROVE  InOrder(s, last + 1)
<1>1. ASSUME NEW i \in DOMAIN s, NEW a \in DOMAIN s[i]
      PROVE  s[i][a] <= last + 1
  <2>1. s[i][a] \in Nat /\ s[i][a] <= last
    BY DEF Pieces, InOrder
  <2> QED
    BY <2>1
<1> QED
  BY <1>1 DEF InOrder

LEMMA ReadStep ==
  ASSUME IInv, NEW p \in Procs, NEW sh \in Shells, Read(p, sh)
  PROVE  IInv'
<1> DEFINE last == shells[sh].read
           more == Buffered(ring[p][sh], last + 1)
<1>1. /\ shells' = [shells EXCEPT ![sh].read = @ + 1]
      /\ ring' = [ring EXCEPT ![p][sh] = more]
      /\ UNCHANGED <<procs, head, store, timers, fds, heir, offer, ack, path, client, faults>>
  BY DEF Read, handoff
<1>2. /\ ring \in [Procs -> [Shells -> Pieces]] /\ shells \in [Shells -> Shell]
      /\ offer \subseteq [sessions : Sessions, buffer : [Shells -> Seq(Nat)]]
  BY DEF IInv, Types
<1>3. last \in Nat
  BY <1>2 DEF Shell
<1>4. more \in Pieces /\ InOrder(more, last + 1)
  BY <1>2, <1>3, BufferedInOrder DEF IInv, Ordered
<1>5. /\ shells' \in [Shells -> Shell]
      /\ shells'[sh].read = last + 1
      /\ \A x \in Shells : /\ x # sh => shells'[x].read = shells[x].read
                           /\ shells'[x].state = shells[x].state
                           /\ shells'[x].late = shells[x].late
  <2>1. shells' = [shells EXCEPT ![sh].read = shells[sh].read + 1]
    BY <1>1
  <2>2. shells[sh].read + 1 \in Nat /\ shells[sh].read + 1 = last + 1
    BY <1>3
  <2> DEFINE n == shells[sh].read + 1
  <2>3. shells' = [shells EXCEPT ![sh].read = n] /\ n \in Nat /\ n = last + 1
    BY <2>1, <2>2
  <2> HIDE DEF n, last, more
  <2> QED
    BY <1>2, <2>3 DEF Shell
<1> HIDE DEF last, more
<1>6. /\ ring' \in [Procs -> [Shells -> Pieces]]
      /\ ring'[p][sh] = more
      /\ \A q \in Procs, x \in Shells : q # p \/ x # sh => ring'[q][x] = ring[q][x]
  BY <1>1, <1>2, <1>4
<1>7. Types'
  BY <1>1, <1>5, <1>6 DEF IInv, Types
<1>8. Charge' /\ Readers'
  BY <1>1 DEF IInv, Charge, Bound, Readers, Leavers
<1>9. Surviving'
  BY <1>1, <1>5 DEF IInv, Surviving, Crashed, Succession, Survives, Carried, Held
<1>10. Ordered'
  <2>1. ASSUME NEW x \in Shells, NEW q \in Procs
        PROVE  InOrder(ring'[q][x], shells'[x].read)
    <3>1. CASE x # sh
      BY <1>5, <1>6, <3>1 DEF IInv, Ordered
    <3>2. CASE x = sh /\ q = p
      BY <1>4, <1>5, <1>6, <3>2
    <3>3. CASE x = sh /\ q # p
      <4>1. ring[q][sh] \in Pieces /\ InOrder(ring[q][sh], last)
        BY <1>2 DEF IInv, Ordered, last
      <4> QED
        BY <1>3, <1>5, <1>6, <3>3, <4>1, MoreIsRead
    <3> QED
      BY <3>1, <3>2, <3>3
  <2>2. ASSUME NEW x \in Shells, NEW o \in offer
        PROVE  InOrder(<<o.buffer[x]>>, shells'[x].read)
    <3>1. InOrder(<<o.buffer[x]>>, shells[x].read)
      BY DEF IInv, Ordered
    <3>2. CASE x # sh
      BY <1>5, <3>1, <3>2
    <3>3. CASE x = sh
      <4>1. o.buffer[x] \in Seq(Nat)
        BY <1>2
      <4>2. <<o.buffer[x]>> \in Pieces
        BY <4>1 DEF Pieces
      <4> QED
        BY <1>3, <1>5, <3>1, <3>3, <4>2, MoreIsRead DEF last
    <3> QED
      BY <3>2, <3>3
  <2> QED
    BY <1>1, <2>1, <2>2 DEF Ordered, InOrder
<1> QED
  BY <1>7, <1>8, <1>9, <1>10 DEF IInv

LEMMA ExitStep ==
  ASSUME IInv, NEW p \in Procs, NEW sh \in Shells, Exit(p, sh)
  PROVE  IInv'
<1>1. /\ shells[sh].state # "running"
      /\ store' = [store EXCEPT ![p] = [id \in Ids |-> IF store[p][id] = sh THEN None
                                                                          ELSE store[p][id]]]
      /\ ring' = [ring EXCEPT ![p][sh] = <<>>]
      /\ fds' = [fds EXCEPT ![sh] = @ \ {p}]
      /\ UNCHANGED <<procs, head, shells, heir, offer, ack, path, client, faults>>
  BY DEF Exit, Hears, handoff
<1>2. /\ ring \in [Procs -> [Shells -> Pieces]] /\ shells \in [Shells -> Shell]
      /\ store \in [Procs -> Sessions] /\ fds \in [Shells -> SUBSET Procs]
      /\ head \in Procs
  BY DEF IInv, Types
<1>3. /\ store' \in [Procs -> Sessions]
      /\ \A q \in Procs, id \in Ids : store[q][id] # sh => store'[q][id] = store[q][id]
  <2> DEFINE less == [id \in Ids |-> IF store[p][id] = sh THEN None ELSE store[p][id]]
  <2>1. less \in Sessions
    BY <1>2 DEF Sessions
  <2>2. \A id \in Ids : store[p][id] # sh => less[id] = store[p][id]
    OBVIOUS
  <2>3. store' = [store EXCEPT ![p] = less]
    BY <1>1
  <2> HIDE DEF less
  <2> QED
    BY <1>2, <2>1, <2>2, <2>3
<1>4. /\ fds' \in [Shells -> SUBSET Procs]
      /\ \A x \in Shells : fds'[x] \subseteq fds[x] /\ (x # sh => fds'[x] = fds[x])
  BY <1>1, <1>2
<1>5. /\ ring' \in [Procs -> [Shells -> Pieces]]
      /\ \A q \in Procs, x \in Shells : ring'[q][x] \in {<<>>, ring[q][x]}
  <2>1. <<>> \in Pieces
    BY DEF Pieces
  <2> QED
    BY <1>1, <1>2, <2>1
<1>6. Types'
  BY <1>1, <1>3, <1>4, <1>5 DEF IInv, Types
<1>7. Charge' /\ Readers'
  BY <1>1, <1>4 DEF IInv, Charge, Bound, Readers, Leavers
<1>8. Surviving'
  <2>1. ASSUME ~Crashed
        PROVE  Succession' /\ \A x \in Shells : Survives(x)'
    <3>1. Succession /\ \A x \in Shells : Survives(x)
      BY <2>1 DEF IInv, Surviving
    <3>2. Succession'
      BY <1>1, <3>1 DEF Succession
    <3>3. ASSUME NEW x \in Shells
          PROVE  Survives(x)'
      <4>1. CASE x = sh
        BY <1>1, <3>1, <4>1 DEF Survives
      <4>2. CASE x # sh
        <5>1. x # None
          BY HandoffAssumption DEF Shells, None
        <5>2. \A q \in Procs : x \in Held(q) => x \in Held(q)'
          BY <1>3, <4>2, <5>1 DEF Held
        <5>3. Carried(x) => Carried(x)'
          BY <1>1, <1>2, <1>4, <4>2, <5>2 DEF Carried, IInv, Types
        <5> QED
          BY <1>1, <3>1, <5>3 DEF Survives
      <4> QED
        BY <4>1, <4>2
    <3> QED
      BY <3>2, <3>3
  <2> QED
    BY <1>1, <2>1 DEF Surviving, Crashed
<1>9. Ordered'
  <2>1. \A last : InOrder(<<>>, last)
    BY DEF InOrder
  <2>2. \A q \in Procs, x \in Shells : InOrder(ring'[q][x], shells[x].read)
    BY <1>5, <2>1 DEF IInv, Ordered
  <2>3. \A x \in Shells, o \in offer' : InOrder(<<o.buffer[x]>>, shells'[x].read)
    BY <1>1 DEF IInv, Ordered
  <2>4. \A q \in Procs, x \in Shells : InOrder(ring'[q][x], shells'[x].read)
    BY <1>1, <2>2
  <2> QED
    BY <2>3, <2>4 DEF Ordered, InOrder
<1> QED
  BY <1>6, <1>7, <1>8, <1>9 DEF IInv

LEMMA OpenStep ==
  ASSUME IInv, NEW id \in Ids, NEW sh \in Shells, Open(id, sh)
  PROVE  IInv'
<1> DEFINE p == client
<1>1. /\ p # None /\ procs[p] \in {"serving", "handing", "leaving"} /\ store[p][id] = None
      /\ shells[sh].state = "none"
      /\ fds' = [fds EXCEPT ![sh] = {p}]
      /\ store' = [store EXCEPT ![p][id] = sh]
      /\ UNCHANGED <<procs, head, ring, heir, offer, ack, path, client, faults>>
  BY DEF Open, Serves, handoff
<1>2. /\ p \in Procs /\ head \in Procs
      /\ shells \in [Shells -> Shell] /\ fds \in [Shells -> SUBSET Procs]
      /\ store \in [Procs -> Sessions]
  BY <1>1 DEF IInv, Types
<1>3. /\ shells' \in [Shells -> Shell]
      /\ shells'[sh].late = (heir # None \/ procs[p] # "serving")
      /\ \A x \in Shells : shells'[x].read = shells[x].read
      /\ \A x \in Shells : x # sh => shells'[x] = shells[x]
      /\ shells'[sh].state = "running"
  <2> DEFINE late == heir # None \/ procs[p] # "serving"
  <2>1. shells' = [shells EXCEPT ![sh].state = "running", ![sh].late = late]
    BY DEF Open
  <2>2. late \in BOOLEAN
    OBVIOUS
  <2>3. shells[sh] \in Shell
    BY <1>2
  <2> HIDE DEF late
  <2>4. shells' = [shells EXCEPT ![sh] = [shells[sh] EXCEPT !.state = "running", !.late = late]]
    BY <1>2, <2>1
  <2> DEFINE new == [shells[sh] EXCEPT !.state = "running", !.late = late]
  <2>5. new \in Shell /\ new.late = late /\ new.read = shells[sh].read /\ new.state = "running"
    BY <2>2, <2>3 DEF Shell
  <2> HIDE DEF new
  <2>6. shells' = [shells EXCEPT ![sh] = new]
    BY <2>4 DEF new
  <2>7. shells'[sh] = new /\ \A x \in Shells : x # sh => shells'[x] = shells[x]
    BY <1>2, <2>6
  <2>8. shells' \in [Shells -> Shell]
    BY <1>2, <2>5, <2>6
  <2> QED
    BY <2>5, <2>7, <2>8 DEF late
<1> HIDE DEF p
<1>4. /\ fds' \in [Shells -> SUBSET Procs]
      /\ fds'[sh] = {p} /\ \A x \in Shells : x # sh => fds'[x] = fds[x]
  BY <1>1, <1>2
<1>5. /\ store' \in [Procs -> Sessions]
      /\ store'[p][id] = sh
      /\ \A q \in Procs, i \in Ids : store[q][i] # None => store'[q][i] = store[q][i]
  BY <1>1, <1>2 DEF Sessions
<1>6. Types'
  BY <1>1, <1>3, <1>4, <1>5 DEF IInv, Types
<1>7. Charge'
  BY <1>1 DEF IInv, Charge, Bound
<1>8. Readers'
  <2>1. p \in {head, heir} \cup Leavers
    BY <1>1, <1>2 DEF IInv, Charge, Leavers
  <2> QED
    BY <1>1, <1>4, <2>1 DEF IInv, Readers, Leavers
<1>9. Surviving'
  <2>1. ASSUME ~Crashed
        PROVE  Succession' /\ \A x \in Shells : Survives(x)'
    <3>1. Succession /\ \A x \in Shells : Survives(x)
      BY <2>1 DEF IInv, Surviving
    <3>2. Succession'
      BY <1>1, <3>1 DEF Succession
    <3>3. ASSUME NEW x \in Shells
          PROVE  Survives(x)'
      <4>0. x # None
        BY HandoffAssumption DEF Shells, None
      <4>1. CASE x # sh
        <5>1. \A q \in Procs : x \in Held(q) => x \in Held(q)'
          BY <1>5, <4>0 DEF Held
        <5>2. Carried(x) => Carried(x)'
          BY <1>1, <1>2, <1>4, <4>1, <5>1 DEF Carried, IInv, Types
        <5> QED
          BY <1>1, <1>3, <3>1, <4>1, <5>2 DEF Survives
      <4>2. CASE x = sh
        <5>1. ASSUME ~shells'[sh].late
              PROVE  Carried(sh)'
          <6>1. p = head /\ heir = None /\ offer = {}
            BY <1>1, <1>2, <1>3, <5>1 DEF IInv, Charge
          <6>2. sh \in Held(head)'
            BY <1>1, <1>5, <4>0, <4>2, <6>1 DEF Held
          <6> QED
            BY <1>1, <1>4, <6>1, <6>2 DEF Carried
        <5> QED
          BY <1>3, <4>2, <5>1 DEF Survives
      <4> QED
        BY <4>1, <4>2
    <3> QED
      BY <3>2, <3>3
  <2> QED
    BY <1>1, <2>1 DEF Surviving, Crashed
<1>10. Ordered'
  BY <1>1, <1>3, OrderedSame DEF IInv
<1> QED
  BY <1>6, <1>7, <1>8, <1>9, <1>10 DEF IInv

LEMMA PrepareUpgradeStep == IInv /\ PrepareUpgrade => IInv'
<1> SUFFICES ASSUME IInv, PrepareUpgrade PROVE IInv'
  OBVIOUS
<1>1. PICK s \in Procs :
        /\ procs[s] = "unborn"
        /\ heir' = s
        /\ procs' = [procs EXCEPT ![head] = "handing", ![s] = "booting"]
        /\ fds' = [sh \in Shells |-> IF sh \in Held(head) THEN fds[sh] \cup {s} ELSE fds[sh]]
  BY DEF PrepareUpgrade, Passed
<1>2. /\ procs[head] = "serving" /\ heir = None /\ offer' = {Snapshot(head)}
      /\ UNCHANGED <<head, store, ring, shells, ack, path, client, faults>>
  BY DEF PrepareUpgrade, memory
<1>3. /\ procs \in [Procs -> States] /\ fds \in [Shells -> SUBSET Procs]
      /\ head \in Procs /\ None \notin Procs
      /\ store \in [Procs -> Sessions] /\ ring \in [Procs -> [Shells -> Pieces]]
      /\ shells \in [Shells -> Shell]
  BY HandoffAssumption DEF IInv, Types, Procs, None
<1>4. /\ procs' \in [Procs -> States]
      /\ s # head /\ procs'[s] = "booting" /\ procs'[head] = "handing"
      /\ \A q \in Procs : q # s /\ q # head => procs'[q] = procs[q]
  BY <1>1, <1>2, <1>3 DEF States
<1>5. /\ fds' \in [Shells -> SUBSET Procs]
      /\ \A x \in Shells : fds'[x] \subseteq fds[x] \cup {s} /\ fds[x] \subseteq fds'[x]
      /\ \A x \in Shells : x \in Held(head) => s \in fds'[x]
  BY <1>1, <1>3
<1> DEFINE o == Snapshot(head)
<1>6. \A x \in Shells : /\ o.buffer[x] \in Seq(Nat)
                        /\ InOrder(<<o.buffer[x]>>, shells[x].read)
  <2>1. ASSUME NEW x \in Shells
        PROVE  /\ o.buffer[x] \in Seq(Nat)
               /\ InOrder(<<o.buffer[x]>>, shells[x].read)
    <3>1. ring[head][x] \in Pieces /\ shells[x].read \in Nat
          /\ InOrder(ring[head][x], shells[x].read)
      BY <1>3 DEF IInv, Ordered, Shell
    <3>2. o.buffer[x] = FlattenSeq(ring[head][x])
      BY DEF Snapshot
    <3> HIDE DEF o
    <3> QED
      BY <3>1, <3>2, FlattenInOrder
  <2> QED
    BY <2>1
<1>7. o \in [sessions : Sessions, buffer : [Shells -> Seq(Nat)]] /\ o.sessions = store[head]
  <2> DEFINE b == [sh \in Shells |-> FlattenSeq(ring[head][sh])]
  <2>1. o = [sessions |-> store[head], buffer |-> b]
    BY DEF Snapshot
  <2>2. b \in [Shells -> Seq(Nat)]
    BY <1>6 DEF Snapshot
  <2> HIDE DEF b, o
  <2> QED
    BY <1>3, <2>1, <2>2
<1> HIDE DEF o
<1>8. offer' = {o}
  BY <1>2 DEF o
<1>9. Types'
  BY <1>1, <1>2, <1>4, <1>5, <1>7, <1>8 DEF IInv, Types
<1>10. Charge'
  BY <1>1, <1>2, <1>3, <1>4 DEF IInv, Charge, Bound
<1>11. Readers'
  <2>1. Leavers' = Leavers
    BY <1>1, <1>2, <1>4 DEF Leavers
  <2>2. \A x \in Shells : fds[x] \subseteq {head} \cup Leavers
    BY <1>2, <1>3 DEF IInv, Readers
  <2>3. \A x \in Shells : fds'[x] \subseteq {head, s} \cup Leavers
    BY <1>5, <2>2
  <2>4. ASSUME NEW q \in Procs, NEW x \in Shells, procs'[q] \in {"unborn", "dead"}
        PROVE  q \notin fds'[x]
    BY <1>4, <1>5, <2>4 DEF IInv, Readers
  <2> QED
    BY <1>1, <1>2, <2>1, <2>3, <2>4 DEF Readers
<1>12. Surviving'
  <2>1. ASSUME ~Crashed
        PROVE  Succession' /\ \A x \in Shells : Survives(x)'
    <3>1. Succession /\ \A x \in Shells : Survives(x)
      BY <2>1 DEF IInv, Surviving
    <3>2. Succession'
      BY <1>1, <1>2, <1>3, <1>4, <3>1 DEF Succession
    <3>3. ASSUME NEW x \in Shells, Carried(x)
          PROVE  Carried(x)'
      <4>1. head \in fds[x] /\ x \in Held(head)
        BY <1>2, <3>3 DEF Carried
      <4>2. x \in Held(head)'
        BY <1>2, <4>1 DEF Held
      <4>3. \E id \in Ids : o.sessions[id] = x
        BY <1>7, <4>1 DEF Held
      <4> QED
        BY <1>1, <1>2, <1>4, <1>5, <1>8, <4>1, <4>2, <4>3 DEF Carried
    <3> QED
      BY <1>2, <3>1, <3>2, <3>3 DEF Survives
  <2> QED
    BY <1>2, <2>1 DEF Surviving, Crashed
<1>13. Ordered'
  <2>1. \A x \in Shells, q \in Procs : InOrder(ring'[q][x], shells'[x].read)
    BY <1>2 DEF IInv, Ordered
  <2>2. \A x \in Shells, y \in offer' : InOrder(<<y.buffer[x]>>, shells'[x].read)
    BY <1>2, <1>6, <1>8
  <2> QED
    BY <2>1, <2>2 DEF Ordered, InOrder
<1> QED
  BY <1>9, <1>10, <1>11, <1>12, <1>13 DEF IInv

\* What a step that only moves a predecessor along on its way out does.
LEMMA LeaveStep ==
  ASSUME IInv, NEW p \in Procs, p # heir,
         procs[p] \in {"handing", "leaving", "closing", "closed"},
         NEW st \in {"leaving", "closing", "closed"}, procs' = [procs EXCEPT ![p] = st],
         procs[p] = "handing" => ~Bound,
         ~Crashed /\ procs[p] = "handing" => procs[heir] = "adopted",
         ack' \in {ack, "none"},
         client' \in Procs \cup {None}, path' \in Procs \cup {None},
         UNCHANGED <<head, heir, store, ring, shells, fds, offer, faults>>
  PROVE  IInv'
<1>1. /\ procs \in [Procs -> States] /\ head \in Procs /\ heir \in Procs \cup {None}
      /\ fds \in [Shells -> SUBSET Procs]
  BY DEF IInv, Types
<1>2. /\ procs' \in [Procs -> States]
      /\ procs'[p] = st /\ \A q \in Procs : q # p => procs'[q] = procs[q]
  BY <1>1 DEF States
<1>3. Types'
  BY <1>2 DEF IInv, Types
<1>4. Charge'
  BY <1>1, <1>2 DEF IInv, Charge, Bound
<1>5. Readers'
  <2>1. Leavers \subseteq Leavers'
    BY <1>2 DEF Leavers
  <2> QED
    BY <1>2, <2>1 DEF IInv, Readers
<1>6. Surviving'
  <2>1. ASSUME ~Crashed
        PROVE  Succession' /\ \A x \in Shells : Survives(x)'
    <3>1. Succession /\ \A x \in Shells : Survives(x)
      BY <2>1 DEF IInv, Surviving
    <3>2. Succession'
      <4>1. procs[p] = "handing" => p = head
        BY DEF IInv, Charge
      <4>2. heir # None => procs'[heir] = procs[heir]
        BY <1>1, <1>2
      <4>3. heir = None => procs'[head] = procs[head]
        BY <1>1, <1>2, <3>1, <4>1 DEF Succession
      <4> QED
        BY <1>1, <1>2, <2>1, <3>1, <4>1, <4>2, <4>3 DEF Succession
    <3>3. ASSUME NEW x \in Shells, Carried(x)
          PROVE  Carried(x)'
      <4>1. \A q : (x \in Held(q))' = (x \in Held(q))
        BY DEF Held
      <4>2. procs[head] # "dead"
            \/ procs'[head] = procs[head]
        BY <1>1, <1>2
      <4>3. heir # None => procs'[heir] = procs[heir]
        BY <1>1, <1>2
      <4> QED
        BY <3>3, <4>1, <4>2, <4>3 DEF Carried
    <3> QED
      BY <3>1, <3>2, <3>3 DEF Survives
  <2> QED
    BY <2>1 DEF Surviving, Crashed
<1>7. Ordered'
  BY OrderedSame DEF IInv
<1> QED
  BY <1>3, <1>4, <1>5, <1>6, <1>7 DEF IInv

\* What it does when the successor takes over from a predecessor that leaves, or is
\* gone.
LEMMA ReliefStep ==
  ASSUME IInv, heir # None, procs[heir] \in {"adopted", "serving"}, Relieved,
         procs' \in [Procs -> States], procs'[heir] = "serving",
         procs'[head] \in {"dead", "leaving", "closing", "closed"},
         procs[head] = "dead" => procs'[head] = "dead",
         procs'[head] = "dead" => \A x \in Shells : head \notin fds[x],
         \A q \in Procs : q # heir /\ q # head => procs'[q] = procs[q],
         offer' = {}, path' \in Procs \cup {None}, client' \in Procs \cup {None},
         faults \subseteq faults', UNCHANGED <<store, ring, shells, fds>>
  PROVE  IInv'
<1>1. head' = heir /\ heir' = None /\ ack' = "none"
  BY DEF Relieved
<1>2. /\ head \in Procs /\ heir \in Procs
      /\ None \notin Procs /\ heir # head
  BY HandoffAssumption DEF IInv, Types, Charge, Procs, None
<1>3. Types'
  BY <1>1, <1>2 DEF IInv, Types
<1>4. Charge'
  BY <1>1, <1>2 DEF IInv, Charge, Bound
<1>5. Readers'
  <2>1. Leavers \ {head} \subseteq Leavers'
    BY <1>2 DEF IInv, Charge, Leavers
  <2>2. \A x \in Shells : head \in fds[x] => head \in Leavers'
    BY <1>2 DEF Leavers
  <2>3. \A x \in Shells : fds[x] \subseteq {heir} \cup Leavers'
    BY <2>1, <2>2 DEF IInv, Readers
  <2>4. ASSUME NEW q \in Procs, NEW x \in Shells, procs'[q] \in {"unborn", "dead"}
        PROVE  q \notin fds[x]
    BY <2>4 DEF IInv, Readers
  <2> QED
    BY <1>1, <2>3, <2>4 DEF Readers
<1>6. Surviving'
  <2>1. ASSUME ~Crashed
        PROVE  Succession' /\ \A x \in Shells : Survives(x)'
    <3>1. \A x \in Shells : Survives(x)
      BY <2>1 DEF IInv, Surviving
    <3>2. Succession'
      BY <1>1 DEF Succession
    <3>3. ASSUME NEW x \in Shells, Carried(x)
          PROVE  Carried(x)'
      <4>1. heir \in fds[x] /\ x \in Held(heir)
        BY <3>3 DEF Carried
      <4>2. x \in Held(head)'
        BY <1>1, <4>1 DEF Held
      <4> QED
        BY <1>1, <4>1, <4>2 DEF Carried
    <3> QED
      BY <3>1, <3>2, <3>3 DEF Survives
  <2> QED
    BY <2>1 DEF Surviving, Crashed
<1>7. Ordered'
  BY OrderedSame DEF IInv
<1> QED
  BY <1>3, <1>4, <1>5, <1>6, <1>7 DEF IInv

LEMMA AckArrivesStep == IInv /\ AckArrives => IInv'
<1> SUFFICES ASSUME IInv, AckArrives PROVE IInv'
  OBVIOUS
<1>1. /\ procs[head] = "handing" /\ ack = "ack"
      /\ procs' = [procs EXCEPT ![head] = "leaving"]
      /\ UNCHANGED <<store, ring, shells, fds, offer, path, client, faults>>
  BY DEF AckArrives, memory, kernel
<1>2. /\ procs \in [Procs -> States]
      /\ head \in Procs /\ client \in Procs \cup {None} /\ path \in Procs \cup {None}
      /\ heir # None /\ heir # head /\ heir \in Procs \cup {None}
  BY <1>1 DEF IInv, Types, Charge
<1>3. CASE Bound /\ Relieved
  <2>1. procs[heir] = "serving" /\ offer = {} /\ heir \in Procs
    BY <1>2, <1>3 DEF IInv, Charge, Bound
  <2>2. /\ procs' \in [Procs -> States] /\ procs'[heir] = "serving"
        /\ procs'[head] = "leaving"
        /\ \A q \in Procs : q # heir /\ q # head => procs'[q] = procs[q]
    BY <1>1, <1>2, <2>1 DEF States
  <2> QED
    BY <1>1, <1>2, <1>3, <2>1, <2>2, ReliefStep
<1>4. CASE ~Bound /\ ack' = "none" /\ UNCHANGED <<head, heir>>
  <2>1. ~Crashed => procs[heir] = "adopted"
    BY <1>1, <1>2, <1>4 DEF IInv, Surviving, Succession, Bound
  <2> QED
    BY <1>1, <1>2, <1>4, <2>1, LeaveStep
<1> QED
  BY <1>3, <1>4 DEF AckArrives

LEMMA CloseServerStep ==
  ASSUME IInv, NEW p \in Procs, CloseServer(p) \/ Unlink(p)
  PROVE  IInv'
<1>1. /\ head \in Procs /\ client \in Procs \cup {None} /\ path \in Procs \cup {None}
      /\ procs[p] \in {"leaving", "closing"}
  BY DEF IInv, Types, CloseServer, Unlink
<1>2. p # heir
  BY <1>1 DEF IInv, Charge, Procs, None
<1>3. /\ UNCHANGED <<head, heir, store, ring, shells, fds, offer, faults>>
      /\ ack' = ack /\ client' \in Procs \cup {None} /\ path' \in Procs \cup {None}
      /\ \E st \in {"leaving", "closing", "closed"} : procs' = [procs EXCEPT ![p] = st]
  BY <1>1 DEF CloseServer, Unlink, memory, kernel, handoff
<1>4. PICK st \in {"leaving", "closing", "closed"} : procs' = [procs EXCEPT ![p] = st]
  BY <1>3
<1> QED
  BY <1>1, <1>2, <1>3, <1>4, LeaveStep

\* A process that ends, or is killed, lets go of its terminals.
LEMMA ClosingFacts ==
  ASSUME Types, NEW p \in Procs, Closing(p)
  PROVE  /\ fds' \in [Shells -> SUBSET Procs]
         /\ \A x \in Shells : fds'[x] = fds[x] \ {p}
         /\ shells' \in [Shells -> Shell]
         /\ \A x \in Shells : /\ shells'[x].read = shells[x].read
                              /\ shells'[x].late = shells[x].late
         /\ \A x \in Shells : \/ shells'[x].state = shells[x].state
                              \/ /\ shells[x].state = "running" /\ fds[x] = {p}
                                 /\ shells'[x].state = "lost"
<1>1. /\ fds \in [Shells -> SUBSET Procs] /\ shells \in [Shells -> Shell]
      /\ fds' = [sh \in Shells |-> fds[sh] \ {p}]
      /\ shells' = [sh \in Shells |->
                      IF shells[sh].state = "running" /\ fds[sh] = {p}
                      THEN [shells[sh] EXCEPT !.state = "lost"] ELSE shells[sh]]
  BY DEF Types, Closing
<1>2. fds' \in [Shells -> SUBSET Procs] /\ \A x \in Shells : fds'[x] = fds[x] \ {p}
  BY <1>1
<1>3. ASSUME NEW x \in Shells
      PROVE  /\ shells'[x] \in Shell
             /\ shells'[x].read = shells[x].read
             /\ shells'[x].late = shells[x].late
             /\ \/ shells'[x].state = shells[x].state
                \/ /\ shells[x].state = "running" /\ fds[x] = {p}
                   /\ shells'[x].state = "lost"
  <2> DEFINE was == shells[x]
             lost == [was EXCEPT !.state = "lost"]
  <2>1. was \in Shell
    BY <1>1
  <2>2. shells'[x] = IF was.state = "running" /\ fds[x] = {p} THEN lost ELSE was
    BY <1>1
  <2> HIDE DEF was
  <2>3. lost \in Shell /\ lost.state = "lost" /\ lost.read = was.read /\ lost.late = was.late
    BY <2>1 DEF Shell
  <2> HIDE DEF lost
  <2> QED
    BY <2>1, <2>2, <2>3 DEF was
<1>4. shells' \in [Shells -> Shell]
  <2>1. shells' = [x \in Shells |-> shells'[x]]
    BY <1>1
  <2> QED
    BY <1>3, <2>1
<1> QED
  BY <1>2, <1>3, <1>4

\* As long as no daemon died of something else, a shell that a handoff found
\* running is open in another process than the one that leaves.
LEMMA SomebodyElse ==
  ASSUME IInv, NEW p \in Procs, NEW x \in Shells, Succession, Carried(x),
         \/ procs[p] = "closed" /\ p # heir
         \/ p = heir /\ procs[head] = "handing"
  PROVE  fds[x] # {p}
<1>1. head \in Procs /\ None \notin Procs
  BY HandoffAssumption DEF IInv, Types, Procs, None
<1>2. CASE p = heir /\ procs[head] = "handing"
  <2>1. head \in fds[x] /\ head # p
    BY <1>1, <1>2 DEF Carried, IInv, Charge
  <2> QED
    BY <2>1
<1>3. CASE procs[p] = "closed" /\ p # heir
  <2>1. CASE procs[head] = "dead" \/ p = head
    <3>1. heir # None /\ procs[heir] = "adopted"
      BY <1>3, <2>1 DEF Succession
    <3>2. heir \in fds[x]
      BY <3>1 DEF Carried
    <3> QED
      BY <1>3, <3>2
  <2>2. CASE procs[head] # "dead" /\ p # head
    BY <2>2 DEF Carried
  <2> QED
    BY <2>1, <2>2
<1> QED
  BY <1>2, <1>3

\* What the end of a process does; not when somebody killed it.
LEMMA DeathStep ==
  ASSUME IInv, NEW p \in Procs, procs' = [procs EXCEPT ![p] = "dead"], Closing(p),
         \/ "crash" \in faults'
         \/ procs[p] = "closed" /\ p # heir
         \/ /\ p = heir /\ procs[heir] \notin {"adopted", "serving"}
            /\ Crashed \/ procs[head] = "handing",
         p = head => ~Bound,
         faults \subseteq faults', client' \in Procs \cup {None},
         UNCHANGED <<head, heir, store, ring, offer, ack, path>>
  PROVE  IInv'
<1>1. /\ procs \in [Procs -> States] /\ head \in Procs /\ heir \in Procs \cup {None}
      /\ fds \in [Shells -> SUBSET Procs] /\ Types
  BY DEF IInv, Types
<1>2. /\ procs' \in [Procs -> States]
      /\ procs'[p] = "dead" /\ \A q \in Procs : q # p => procs'[q] = procs[q]
  BY <1>1 DEF States
<1>3. /\ fds' \in [Shells -> SUBSET Procs]
      /\ \A x \in Shells : fds'[x] = fds[x] \ {p}
      /\ shells' \in [Shells -> Shell]
      /\ \A x \in Shells : /\ shells'[x].read = shells[x].read
                           /\ shells'[x].late = shells[x].late
      /\ \A x \in Shells : \/ shells'[x].state = shells[x].state
                           \/ /\ shells[x].state = "running" /\ fds[x] = {p}
                              /\ shells'[x].state = "lost"
  BY <1>1, ClosingFacts
<1>4. Types'
  BY <1>2, <1>3 DEF IInv, Types
<1>5. Charge'
  BY <1>1, <1>2 DEF IInv, Charge, Bound
<1>6. Readers'
  <2>1. Leavers \ {p} \subseteq Leavers'
    BY <1>2 DEF Leavers
  <2>2. \A x \in Shells : fds'[x] \subseteq {head, heir} \cup Leavers'
    BY <1>3, <2>1 DEF IInv, Readers
  <2>3. ASSUME NEW q \in Procs, NEW x \in Shells, procs'[q] \in {"unborn", "dead"}
        PROVE  q \notin fds'[x]
    BY <1>2, <1>3, <2>3 DEF IInv, Readers
  <2> QED
    BY <2>2, <2>3 DEF Readers
<1>7. Surviving'
  <2>1. ASSUME "crash" \notin faults'
        PROVE  Succession' /\ \A x \in Shells : Survives(x)'
    <3>1. ~Crashed /\ Succession /\ \A x \in Shells : Survives(x)
      BY <2>1 DEF IInv, Surviving, Crashed
    <3>2. \/ procs[p] = "closed" /\ p # heir
          \/ /\ p = heir /\ procs[heir] \notin {"adopted", "serving"}
             /\ procs[head] = "handing"
      BY <2>1, <3>1
    <3>3. None \notin Procs /\ (heir # None => heir # head)
      BY HandoffAssumption DEF IInv, Charge, Procs, None
    <3>4. Succession'
      BY <1>1, <1>2, <3>1, <3>2, <3>3 DEF Succession
    <3>5. ASSUME NEW x \in Shells, Carried(x)
          PROVE  Carried(x)' /\ fds[x] # {p}
      <4>1. fds[x] # {p}
        BY <3>1, <3>2, <3>5, SomebodyElse
      <4>2. \A q : (x \in Held(q))' = (x \in Held(q))
        BY DEF Held
      <4>3. Carried(x)'
        BY <1>1, <1>2, <1>3, <3>2, <3>5, <4>2 DEF Carried
      <4> QED
        BY <4>1, <4>3
    <3>6. ASSUME NEW x \in Shells
          PROVE  Survives(x)'
      <4>1. Survives(x)
        BY <3>1
      <4>2. CASE shells'[x].state = shells[x].state
        BY <1>3, <3>5, <4>1, <4>2 DEF Survives
      <4>3. CASE shells[x].state = "running" /\ fds[x] = {p} /\ shells'[x].state = "lost"
        BY <1>3, <3>5, <4>1, <4>3 DEF Survives
      <4> QED
        BY <1>3, <4>2, <4>3
    <3> QED
      BY <3>4, <3>6
  <2> QED
    BY <2>1 DEF Surviving, Crashed
<1>8. Ordered'
  BY <1>3, OrderedSame DEF IInv
<1> QED
  BY <1>4, <1>5, <1>6, <1>7, <1>8 DEF IInv

LEMMA ExitProcessStep ==
  ASSUME IInv, NEW p \in Procs, ExitProcess(p)
  PROVE  IInv'
<1>1. p # heir
  BY HandoffAssumption DEF IInv, Charge, ExitProcess, Procs, None
<1>2. client \in Procs \cup {None}
  BY DEF IInv, Types
<1>3. p = head => ~Bound
  BY DEF IInv, Charge, ExitProcess
<1> QED
  BY <1>1, <1>2, <1>3, DeathStep DEF ExitProcess, memory, handoff

LEMMA HeirExitsStep == IInv /\ HeirExits => IInv'
<1> SUFFICES ASSUME IInv, HeirExits PROVE IInv'
  OBVIOUS
<1>1. heir \in Procs /\ client \in Procs \cup {None}
  BY DEF IInv, Types, HeirExits
<1>2. procs[heir] \notin {"adopted", "serving"} /\ heir # head
  BY DEF HeirExits, IInv, Charge
<1>3. Crashed \/ procs[head] = "handing"
  BY <1>2 DEF IInv, Surviving, Succession, HeirExits
<1> QED
  BY <1>1, <1>2, <1>3, DeathStep DEF HeirExits, memory, handoff

LEMMA CrashStep ==
  ASSUME IInv, NEW p \in Procs, Crash(p)
  PROVE  IInv'
<1>1. client' \in Procs \cup {None}
  BY DEF IInv, Types, Crash
<1>2. "crash" \in faults' /\ faults \subseteq faults'
  BY DEF Crash, Fault
<1>3. CASE p = head /\ Bound /\ Relieved
  <2>1. /\ procs' = [procs EXCEPT ![head] = "dead"] /\ Closing(head)
        /\ UNCHANGED <<store, ring, timers, offer, path>>
    BY <1>3 DEF Crash, memory
  <2>2. /\ head' = heir /\ heir' = None /\ ack' = "none"
        /\ heir # None /\ procs[heir] = "serving"
    BY <1>3 DEF Relieved, Bound
  <2>3. /\ procs \in [Procs -> States] /\ head \in Procs /\ heir \in Procs /\ Types
        /\ None \notin Procs /\ heir # head /\ offer = {}
    BY <1>3, <2>2, HandoffAssumption DEF IInv, Types, Charge, Procs, None
  <2>4. /\ procs' \in [Procs -> States] /\ procs'[heir] = "serving"
        /\ procs'[head] = "dead" /\ \A q \in Procs : q # head => procs'[q] = procs[q]
    BY <2>1, <2>2, <2>3 DEF States
  <2>5. /\ fds' \in [Shells -> SUBSET Procs]
        /\ \A x \in Shells : fds'[x] = fds[x] \ {head}
        /\ shells' \in [Shells -> Shell]
        /\ \A x \in Shells : shells'[x].read = shells[x].read
    BY <2>1, <2>3, ClosingFacts
  <2>6. Types'
    BY <1>1, <2>1, <2>2, <2>3, <2>4, <2>5 DEF IInv, Types
  <2>7. Charge'
    BY <2>1, <2>2, <2>3, <2>4 DEF IInv, Charge, Bound
  <2>8. Readers'
    <3>1. Leavers \ {head} \subseteq Leavers'
      BY <2>4 DEF Leavers
    <3>2. \A x \in Shells : fds'[x] \subseteq {heir} \cup Leavers'
      BY <2>5, <3>1 DEF IInv, Readers
    <3>3. ASSUME NEW q \in Procs, NEW x \in Shells, procs'[q] \in {"unborn", "dead"}
          PROVE  q \notin fds'[x]
      BY <2>4, <2>5, <3>3 DEF IInv, Readers
    <3> QED
      BY <2>2, <3>2, <3>3 DEF Readers
  <2>9. Surviving'
    BY <1>2 DEF Surviving, Crashed
  <2>10. Ordered'
    BY <2>1, <2>5, OrderedSame DEF IInv
  <2> QED
    BY <2>6, <2>7, <2>8, <2>9, <2>10 DEF IInv
<1>4. CASE ~(p = head /\ Bound) /\ UNCHANGED <<head, heir, ack>>
  BY <1>1, <1>2, <1>4, DeathStep DEF Crash, memory
<1> QED
  BY <1>3, <1>4 DEF Crash

LEMMA HandoffFailsStep == IInv /\ HandoffFails => IInv'
<1> SUFFICES ASSUME IInv, HandoffFails PROVE IInv'
  OBVIOUS
<1>1. /\ procs[head] = "handing"
      /\ procs' = [procs EXCEPT ![head] = "serving", ![heir] = "dead"]
      /\ Closing(heir)
      /\ heir' = None /\ offer' = {} /\ ack' = "none"
      /\ client' \in {None, client} /\ UNCHANGED <<head, store, ring, path>>
  BY DEF HandoffFails, GiveUp, memory
<1>2. faults \subseteq faults'
  BY DEF HandoffFails, Fault
<1>3. /\ procs \in [Procs -> States] /\ head \in Procs /\ heir \in Procs
      /\ fds \in [Shells -> SUBSET Procs] /\ Types /\ heir # head
  BY <1>1 DEF IInv, Types, Charge
<1>4. /\ procs' \in [Procs -> States]
      /\ procs'[heir] = "dead" /\ procs'[head] = "serving"
      /\ \A q \in Procs : q # heir /\ q # head => procs'[q] = procs[q]
  BY <1>1, <1>3 DEF States
<1>5. /\ fds' \in [Shells -> SUBSET Procs]
      /\ \A x \in Shells : fds'[x] = fds[x] \ {heir}
      /\ shells' \in [Shells -> Shell]
      /\ \A x \in Shells : /\ shells'[x].read = shells[x].read
                           /\ shells'[x].late = shells[x].late
      /\ \A x \in Shells : \/ shells'[x].state = shells[x].state
                           \/ /\ shells[x].state = "running" /\ fds[x] = {heir}
                              /\ shells'[x].state = "lost"
  BY <1>1, <1>3, ClosingFacts
<1>6. Types'
  BY <1>1, <1>4, <1>5 DEF IInv, Types
<1>7. Charge'
  <2>1. None \notin Procs
    BY HandoffAssumption DEF Procs, None
  <2> QED
    BY <1>1, <1>3, <1>4, <2>1 DEF IInv, Charge, Bound
<1>8. Readers'
  <2>1. Leavers' = Leavers
    BY <1>1, <1>3, <1>4 DEF IInv, Charge, Leavers
  <2>2. \A x \in Shells : fds'[x] \subseteq {head} \cup Leavers
    BY <1>5 DEF IInv, Readers
  <2>3. ASSUME NEW q \in Procs, NEW x \in Shells, procs'[q] \in {"unborn", "dead"}
        PROVE  q \notin fds'[x]
    BY <1>4, <1>5, <2>3 DEF IInv, Readers
  <2> QED
    BY <1>1, <2>1, <2>2, <2>3 DEF Readers
<1>9. Surviving'
  <2>1. ASSUME "crash" \notin faults'
        PROVE  Succession' /\ \A x \in Shells : Survives(x)'
    <3>1. Succession /\ \A x \in Shells : Survives(x)
      BY <1>2, <2>1 DEF IInv, Surviving, Crashed
    <3>2. Succession'
      BY <1>1, <1>4 DEF Succession
    <3>3. ASSUME NEW x \in Shells, Carried(x)
          PROVE  Carried(x)' /\ fds[x] # {heir}
      <4>1. head \in fds[x] /\ x \in Held(head)
        BY <1>1, <3>3 DEF Carried
      <4>2. x \in Held(head)'
        BY <1>1, <4>1 DEF Held
      <4> QED
        BY <1>1, <1>3, <1>5, <4>1, <4>2 DEF Carried
    <3>4. ASSUME NEW x \in Shells
          PROVE  Survives(x)'
      <4>1. Survives(x)
        BY <3>1
      <4>2. CASE shells'[x].state = shells[x].state
        BY <1>5, <3>3, <4>1, <4>2 DEF Survives
      <4>3. CASE shells[x].state = "running" /\ fds[x] = {heir} /\ shells'[x].state = "lost"
        BY <1>5, <3>3, <4>1, <4>3 DEF Survives
      <4> QED
        BY <1>5, <4>2, <4>3
    <3> QED
      BY <3>2, <3>4
  <2> QED
    BY <2>1 DEF Surviving, Crashed
<1>10. Ordered'
  BY <1>1, <1>5, OrderedSame DEF IInv
<1> QED
  BY <1>6, <1>7, <1>8, <1>9, <1>10 DEF IInv

\* What the successor takes from the snapshot.
LEMMA AdoptsFacts ==
  ASSUME Types, Ordered, heir \in Procs, NEW ids \in SUBSET Ids, Adopts(heir, ids)
  PROVE  /\ store' \in [Procs -> Sessions]
         /\ \A q \in Procs : q # heir => store'[q] = store[q]
         /\ ring' \in [Procs -> [Shells -> Pieces]]
         /\ \A q \in Procs, x \in Shells : InOrder(ring'[q][x], shells[x].read)
         /\ \E o \in offer : \A id \in ids : store'[heir][id] = o.sessions[id]
<1>1. /\ store \in [Procs -> Sessions] /\ ring \in [Procs -> [Shells -> Pieces]]
      /\ offer \subseteq [sessions : Sessions, buffer : [Shells -> Seq(Nat)]]
  BY DEF Types
<1>2. PICK o \in offer :
        LET theirs == {o.sessions[id] : id \in ids} \ {None} IN
        /\ store' = [store EXCEPT ![heir] = [id \in Ids |-> IF id \in ids THEN o.sessions[id]
                                                                       ELSE None]]
        /\ ring' = [ring EXCEPT ![heir] = [sh \in Shells |->
             IF sh \in theirs /\ o.buffer[sh] # <<>> THEN <<o.buffer[sh]>> ELSE <<>>]]
  BY DEF Adopts
<1>3. o.sessions \in Sessions /\ o.buffer \in [Shells -> Seq(Nat)]
  BY <1>1
<1> DEFINE theirs == {o.sessions[id] : id \in ids} \ {None}
           mine == [id \in Ids |-> IF id \in ids THEN o.sessions[id] ELSE None]
           mem == [sh \in Shells |->
                     IF sh \in theirs /\ o.buffer[sh] # <<>> THEN <<o.buffer[sh]>> ELSE <<>>]
<1>4. store' = [store EXCEPT ![heir] = mine] /\ ring' = [ring EXCEPT ![heir] = mem]
  BY <1>2
<1>5. mine \in Sessions /\ \A id \in ids : mine[id] = o.sessions[id]
  BY <1>3 DEF Sessions
<1> HIDE DEF theirs, mine
<1>6. ASSUME NEW x \in Shells
      PROVE  mem[x] \in Pieces /\ InOrder(mem[x], shells[x].read)
  <2>1. mem[x] \in {<<>>, <<o.buffer[x]>>}
    OBVIOUS
  <2>2. <<>> \in Pieces /\ InOrder(<<>>, shells[x].read)
    BY DEF Pieces, InOrder
  <2>3. o.buffer[x] \in Seq(Nat) /\ InOrder(<<o.buffer[x]>>, shells[x].read)
    BY <1>3 DEF Ordered
  <2>4. <<o.buffer[x]>> \in Pieces
    BY <2>3 DEF Pieces
  <2> HIDE DEF mem
  <2> QED
    BY <2>1, <2>2, <2>3, <2>4
<1>7. mem \in [Shells -> Pieces]
  BY <1>6
<1> HIDE DEF mem
<1>8. /\ store' \in [Procs -> Sessions]
      /\ store'[heir] = mine /\ \A q \in Procs : q # heir => store'[q] = store[q]
  BY <1>1, <1>4, <1>5
<1>9. /\ ring' \in [Procs -> [Shells -> Pieces]]
      /\ ring'[heir] = mem /\ \A q \in Procs : q # heir => ring'[q] = ring[q]
  BY <1>1, <1>4, <1>7
<1>10. ASSUME NEW q \in Procs, NEW x \in Shells
       PROVE  InOrder(ring'[q][x], shells[x].read)
  <2>1. CASE q = heir
    BY <1>6, <1>9, <2>1
  <2>2. CASE q # heir
    BY <1>9, <2>2 DEF Ordered
  <2> QED
    BY <2>1, <2>2
<1> QED
  BY <1>5, <1>8, <1>9, <1>10

\* What an adoption does, complete or not.
LEMMA AdoptionStep ==
  ASSUME IInv, heir # None, procs[heir] = "booting",
         NEW ids \in SUBSET Ids, Adopts(heir, ids),
         NEW st \in {"adopted", "failed"}, procs' = [procs EXCEPT ![heir] = st],
         st = "adopted" => ids = Ids,
         ack' \in {"ack", "nak"}, ack' = "ack" => st = "adopted",
         faults \subseteq faults',
         UNCHANGED <<head, heir, shells, fds, offer, path, client>>
  PROVE  IInv'
<1>1. /\ procs \in [Procs -> States] /\ head \in Procs /\ heir \in Procs
      /\ Types /\ Ordered
      /\ heir # head
  BY DEF IInv, Types, Charge
<1>2. /\ procs' \in [Procs -> States]
      /\ procs'[heir] = st /\ \A q \in Procs : q # heir => procs'[q] = procs[q]
  BY <1>1 DEF States
<1>3. /\ store' \in [Procs -> Sessions]
      /\ \A q \in Procs : q # heir => store'[q] = store[q]
      /\ ring' \in [Procs -> [Shells -> Pieces]]
      /\ \A q \in Procs, x \in Shells : InOrder(ring'[q][x], shells[x].read)
      /\ \E o \in offer : \A id \in ids : store'[heir][id] = o.sessions[id]
  BY <1>1, AdoptsFacts
<1>4. Types'
  BY <1>2, <1>3 DEF IInv, Types
<1>5. Charge'
  BY <1>1, <1>2 DEF IInv, Charge, Bound
<1>6. Readers'
  <2>1. Leavers' = Leavers
    BY <1>1, <1>2 DEF Leavers
  <2> QED
    BY <1>2, <2>1 DEF IInv, Readers
<1>7. Surviving'
  <2>1. ASSUME ~Crashed
        PROVE  Succession' /\ \A x \in Shells : Survives(x)'
    <3>1. Succession /\ \A x \in Shells : Survives(x)
      BY <2>1 DEF IInv, Surviving
    <3>2. procs[head] = "handing"
      BY <3>1 DEF Succession
    <3>3. Succession'
      BY <1>1, <1>2, <3>2 DEF Succession
    <3>4. ASSUME NEW x \in Shells, Carried(x)
          PROVE  Carried(x)'
      <4>1. x # None
        BY HandoffAssumption DEF Shells, None
      <4>2. head \in fds[x] /\ x \in Held(head) /\ heir \in fds[x]
        BY <3>2, <3>4 DEF Carried
      <4>3. x \in Held(head)'
        BY <1>1, <1>3, <4>2 DEF Held
      <4>4. ASSUME st = "adopted"
            PROVE  x \in Held(heir)'
        <5>1. PICK o \in offer : \A id \in Ids : store'[heir][id] = o.sessions[id]
          BY <1>3, <4>4
        <5>2. PICK id \in Ids : o.sessions[id] = x
          BY <3>4 DEF Carried
        <5> QED
          BY <4>1, <5>1, <5>2 DEF Held
      <4> QED
        BY <1>2, <3>4, <4>2, <4>3, <4>4 DEF Carried
    <3> QED
      BY <3>1, <3>3, <3>4 DEF Survives
  <2> QED
    BY <2>1 DEF Surviving, Crashed
<1>8. Ordered'
  <2>1. \A x \in Shells, o \in offer' : InOrder(<<o.buffer[x]>>, shells'[x].read)
    BY <1>1 DEF Ordered
  <2> QED
    BY <1>3, <2>1 DEF Ordered, InOrder
<1> QED
  BY <1>4, <1>5, <1>6, <1>7, <1>8 DEF IInv

LEMMA AdoptStep == IInv /\ (Adopt \/ AdoptFails) => IInv'
<1> SUFFICES ASSUME IInv, Adopt \/ AdoptFails PROVE IInv'
  OBVIOUS
<1>1. CASE Adopt
  <2>1. Ids \in SUBSET Ids
    OBVIOUS
  <2> QED
    BY <1>1, <2>1, AdoptionStep DEF Adopt, kernel
<1>2. CASE AdoptFails
  <2>1. PICK ids \in SUBSET Ids : Adopts(heir, ids)
    BY <1>2 DEF AdoptFails
  <2> QED
    BY <1>2, <2>1, AdoptionStep DEF AdoptFails, Fault, kernel
<1> QED
  BY <1>1, <1>2

LEMMA BindStep == IInv /\ Bind => IInv'
<1> SUFFICES ASSUME IInv, Bind PROVE IInv'
  OBVIOUS
<1>1. /\ heir # None /\ procs[heir] = "adopted"
      /\ procs' = [procs EXCEPT ![heir] = "serving"]
      /\ path' = heir /\ offer' = {}
      /\ UNCHANGED <<store, ring, shells, fds, client>>
  BY DEF Bind, memory, kernel
<1>2. faults \subseteq faults'
  BY DEF Bind, Fault
<1>3. /\ procs \in [Procs -> States] /\ head \in Procs /\ heir \in Procs
      /\ None \notin Procs /\ heir # head /\ client \in Procs \cup {None}
  BY <1>1, HandoffAssumption DEF IInv, Types, Charge, Procs, None
<1>4. /\ procs' \in [Procs -> States]
      /\ procs'[heir] = "serving" /\ \A q \in Procs : q # heir => procs'[q] = procs[q]
  BY <1>1, <1>3 DEF States
<1>5. CASE procs[head] = "handing" /\ UNCHANGED <<head, heir, ack>>
  <2>1. Types'
    BY <1>1, <1>3, <1>4, <1>5 DEF IInv, Types
  <2>2. Charge'
    BY <1>1, <1>3, <1>4, <1>5 DEF IInv, Charge, Bound
  <2>3. Readers'
    <3>1. Leavers' = Leavers
      BY <1>1, <1>3, <1>4 DEF Leavers
    <3> QED
      BY <1>1, <1>4, <1>5, <3>1 DEF IInv, Readers
  <2>4. Surviving'
    <3>1. ASSUME ~Crashed
          PROVE  Succession' /\ \A x \in Shells : Survives(x)'
      <4>1. Succession /\ \A x \in Shells : Survives(x)
        BY <3>1 DEF IInv, Surviving
      <4>2. Succession'
        BY <1>1, <1>3, <1>4, <1>5, <4>1 DEF Succession
      <4>3. ASSUME NEW x \in Shells, Carried(x)
            PROVE  Carried(x)'
        <5>1. \A q : (x \in Held(q))' = (x \in Held(q))
          BY <1>1 DEF Held
        <5> QED
          BY <1>1, <1>3, <1>4, <1>5, <4>3, <5>1 DEF Carried
      <4> QED
        BY <1>1, <4>1, <4>2, <4>3 DEF Survives
    <3> QED
      BY <1>2, <3>1 DEF Surviving, Crashed
  <2>5. Ordered'
    BY <1>1, OrderedSame DEF IInv
  <2> QED
    BY <2>1, <2>2, <2>3, <2>4, <2>5 DEF IInv
<1>6. CASE procs[head] # "handing" /\ Relieved
  <2>1. procs[head] \in {"dead", "leaving", "closing", "closed"}
    BY <1>1, <1>3, <1>6 DEF IInv, Charge
  <2>2. procs[head] = "dead" => \A x \in Shells : head \notin fds[x]
    BY <1>3 DEF IInv, Readers
  <2>3. procs'[head] = procs[head]
    BY <1>3, <1>4
  <2> QED
    BY <1>1, <1>2, <1>3, <1>4, <1>6, <2>1, <2>2, <2>3, ReliefStep
<1> QED
  BY <1>5, <1>6 DEF Bind

LEMMA StutterStep == IInv /\ UNCHANGED vars => IInv'
<1> SUFFICES ASSUME IInv, UNCHANGED vars PROVE IInv'
  OBVIOUS
<1>1. shells \in [Shells -> Shell] /\ client \in Procs \cup {None}
  BY DEF IInv, Types
<1> QED
  BY <1>1, QuietStep DEF vars

-----------------------------------------------------------------------------
\* Every step keeps the invariant, and so every state of the program satisfies it.
LEMMA StepHolds == IInv /\ [Next]_vars => IInv'
<1> SUFFICES ASSUME IInv, [Next]_vars PROVE IInv'
  OBVIOUS
<1>1. ASSUME NEW sh \in Shells, ShellPrints(sh) \/ ShellEnds(sh) PROVE IInv'
  BY <1>1, ShellStep
<1>2. ASSUME NEW sh \in Shells, NEW p \in Procs, Read(p, sh) PROVE IInv'
  BY <1>2, ReadStep
<1>3. ASSUME NEW sh \in Shells, NEW p \in Procs, Exit(p, sh) PROVE IInv'
  BY <1>3, ExitStep
<1>4. ASSUME NEW sh \in Shells, NEW p \in Procs, Escalate(p, sh) PROVE IInv'
  BY <1>4, EscalateStep
<1>5. ASSUME NEW sh \in Shells, NEW id \in Ids, Open(id, sh) PROVE IInv'
  BY <1>5, OpenStep
<1>6. ASSUME NEW id \in Ids, NEW heeds \in BOOLEAN, Close(id, heeds) PROVE IInv'
  BY <1>6, CloseStep
<1>7. ASSUME NEW p \in Procs, CloseServer(p) \/ Unlink(p) PROVE IInv'
  BY <1>7, CloseServerStep
<1>8. ASSUME NEW p \in Procs, ExitProcess(p) PROVE IInv'
  BY <1>8, ExitProcessStep
<1>9. ASSUME NEW p \in Procs, Crash(p) PROVE IInv'
  BY <1>9, CrashStep
<1>10. CASE UNCHANGED vars
  BY <1>10, StutterStep
<1> QED
  BY <1>1, <1>2, <1>3, <1>4, <1>5, <1>6, <1>7, <1>8, <1>9, <1>10, ConnectStep,
     PrepareUpgradeStep, AckArrivesStep, HandoffFailsStep, AdoptStep, HeirExitsStep,
     BindStep DEF Next

LEMMA InvariantHolds == Spec => []IInv
BY InitHolds, StepHolds, PTL DEF Spec

\* Once a handoff is over, whichever way, only the daemon in charge and
\* predecessors on their way out have a terminal open (Server.ts:272-282).
THEOREM OneDaemonReads == Spec => []OneReader
<1>1. IInv => OneReader
  <2> SUFFICES ASSUME IInv, heir = None, NEW sh \in Shells
               PROVE  fds[sh] \subseteq
                        {head} \cup {p \in Procs : procs[p] \in {"leaving", "closing", "closed"}}
    BY DEF OneReader
  <2>1. None \notin Procs /\ fds[sh] \subseteq Procs
    BY HandoffAssumption DEF IInv, Types, Procs, None
  <2> QED
    BY <2>1 DEF IInv, Readers, Leavers
<1> QED
  BY <1>1, InvariantHolds, PTL

\* Whatever fails in a handoff, no shell that was there when it began is hung up,
\* unless a daemon was killed (prepareUpgrade, finalizeHandoff).
THEOREM HandoffsKeepSessions == Spec => []SessionsSurvive
<1>1. IInv => SessionsSurvive
  BY DEF IInv, Surviving, Survives, SessionsSurvive
<1> QED
  BY <1>1, InvariantHolds, PTL

\* A replay shows every chunk once and in order, with two processes reading the
\* terminal and a history adopted as one piece (adoptSnapshot, wireSession).
THEOREM ReplaysAreInOrder == Spec => []ReplayIsOrdered
<1>1. IInv => ReplayIsOrdered
  <2> SUFFICES ASSUME IInv, NEW p \in Procs, NEW sh \in Shells
               PROVE  \A i, j \in DOMAIN FlattenSeq(ring[p][sh]) :
                        i < j => FlattenSeq(ring[p][sh])[i] < FlattenSeq(ring[p][sh])[j]
    BY DEF ReplayIsOrdered
  <2>1. ring[p][sh] \in Pieces /\ shells[sh].read \in Nat
        /\ InOrder(ring[p][sh], shells[sh].read)
    BY DEF IInv, Types, Ordered, Shell
  <2> QED
    BY <2>1, FlattenInOrder
<1> QED
  BY <1>1, InvariantHolds, PTL

=============================================================================
