------------------------- MODULE AcpRegistryProofs -------------------------
(***************************************************************************)
(* Proofs about AcpRegistry, for any sessions, graveyard size and bounds.  *)
(*                                                                         *)
(* What makes the registry safe is where an adapter can be found (Served): *)
(* one that runs, or has served, is in its session's creation or in its    *)
(* runtime, or it is cut off and its session was evicted.  A session never *)
(* has both (Owned), so it has one adapter; and its transcript cannot get  *)
(* lost on the way from the row to the creation and from there to the      *)
(* adapter and back to the row (Owned, RowsKept).                          *)
(***************************************************************************)
EXTENDS AcpRegistry, SequenceTheorems, FiniteSetTheorems, TLAPS

Adapter == [session : Sessions, alive : BOOLEAN, killed : BOOLEAN, mute : BOOLEAN,
            state : {"starting", "ready", "stillborn", "dead"},
            transcript : Nat \ {0}]

Slot == [adapter : Int, resume : Nat, awaited : BOOLEAN]

Types ==
  /\ phase \in {"serving", "disposing", "disposed"}
  /\ runtimes \in [Sessions -> Nat]
  /\ creations \in [Sessions -> Slot]
  /\ offline \in [Sessions -> Nat]
  /\ rows \in [Sessions -> Nat]
  /\ adapters \in Seq(Adapter)
  /\ graveyard \in Seq(Sessions)
  /\ IsInjective(graveyard)
  /\ forgotten \subseteq Sessions
  /\ crashes \in 0..MaxCrashes

\* Adapters and transcripts in the variables name adapters that were spawned.
Spawned ==
  /\ \A s \in Sessions : /\ runtimes[s] <= Len(adapters)
                         /\ creations[s].adapter \in -1..Len(adapters)
                         /\ creations[s].resume <= Len(adapters)
                         /\ offline[s] <= Len(adapters)
                         /\ rows[s] <= Len(adapters)
  /\ \A a \in Sids : adapters[a].transcript <= Len(adapters)

\* The buried are registered, and their adapters have ended.
Buried ==
  \A s \in ToSet(graveyard) : runtimes[s] # 0 /\ ~Running(runtimes[s])

Served ==
  \A a \in Sids :
    (adapters[a].state # "stillborn" \/ adapters[a].alive) /\ ~adapters[a].killed =>
      \/ creations[adapters[a].session].adapter = a
      \/ runtimes[adapters[a].session] = a
      \/ adapters[a].session \in forgotten /\ adapters[a].state = "dead"

CreationOK(s) ==
  creations[s] # Nil =>
    /\ creations[s].adapter # 0
    /\ runtimes[s] = 0
    /\ creations[s].resume = offline[s]
    /\ phase # "serving" => creations[s].awaited
    /\ phase # "disposed"
    /\ creations[s].adapter > 0 =>
         /\ adapters[creations[s].adapter].session = s
         /\ offline[s] # 0 => adapters[creations[s].adapter].transcript = offline[s]

RuntimeOK(s) ==
  runtimes[s] # 0 =>
    /\ phase # "disposed"
    /\ offline[s] = 0
    /\ adapters[runtimes[s]].session = s
    /\ adapters[runtimes[s]].state \in {"ready", "dead"}

Owned == \A s \in Sessions : CreationOK(s) /\ RuntimeOK(s)

RowsKept ==
  \A s \in Sessions :
    phase # "disposed" /\ rows[s] # 0 /\ s \notin forgotten =>
      IF runtimes[s] # 0
      THEN adapters[runtimes[s]].transcript = rows[s]
      ELSE offline[s] = rows[s]

IInv == Types /\ Spawned /\ Buried /\ Served /\ Owned /\ RowsKept

-----------------------------------------------------------------------------
\* The graveyard.

\* A sweep keeps some of the buried, each once (evictDeadRuntimes).
LEMMA SweepKeepsTheNewest ==
  ASSUME NEW dead \in Seq(Sessions), IsInjective(dead)
  PROVE  /\ Kept(dead) \in Seq(Sessions)
         /\ IsInjective(Kept(dead))
         /\ ToSet(Kept(dead)) \subseteq ToSet(dead)
<1>1. CASE Len(dead) <= MaxDead
  BY <1>1 DEF Kept
<1>2. CASE Len(dead) > MaxDead
  <2>0. Len(dead) \in Nat /\ MaxDead \in Nat
    BY RegistryAssumption
  <2>1. Kept(dead) = SubSeq(dead, Len(dead) - MaxDead + 1, Len(dead))
    BY <1>2, <2>0 DEF Kept
  <2>2. /\ Kept(dead) \in Seq(Sessions)
        /\ DOMAIN Kept(dead) = 1..MaxDead
        /\ \A i \in 1..MaxDead : Kept(dead)[i] = dead[i + (Len(dead) - MaxDead)]
    BY <1>2, <2>0, <2>1
  <2>3. \A i \in 1..MaxDead : i + (Len(dead) - MaxDead) \in DOMAIN dead
    BY <1>2, <2>0
  <2>4. IsInjective(Kept(dead))
    BY <2>0, <2>2, <2>3 DEF IsInjective
  <2>5. ToSet(Kept(dead)) \subseteq ToSet(dead)
    BY <2>2, <2>3 DEF ToSet
  <2> QED
    BY <2>2, <2>4, <2>5
<1> QED
  BY <1>1, <1>2, RegistryAssumption

\* A burial adds one who was not buried.
LEMMA Burial ==
  ASSUME NEW dead \in Seq(Sessions), IsInjective(dead),
         NEW s \in Sessions, s \notin ToSet(dead)
  PROVE  /\ Append(dead, s) \in Seq(Sessions)
         /\ IsInjective(Append(dead, s))
         /\ ToSet(Append(dead, s)) = ToSet(dead) \cup {s}
<1>1. /\ Append(dead, s) \in Seq(Sessions)
      /\ DOMAIN Append(dead, s) = 1..(Len(dead) + 1)
      /\ DOMAIN dead = 1..Len(dead)
      /\ Len(dead) \in Nat
      /\ \A i \in 1..Len(dead) : Append(dead, s)[i] = dead[i]
      /\ Append(dead, s)[Len(dead) + 1] = s
  OBVIOUS
<1>2. IsInjective(Append(dead, s))
  BY <1>1 DEF IsInjective, ToSet
<1>3. ToSet(Append(dead, s)) = ToSet(dead) \cup {s}
  BY <1>1 DEF ToSet
<1> QED
  BY <1>1, <1>2, <1>3

\* One of the buried who is updated becomes the last, and nobody else is lost.
LEMMA Reburial ==
  ASSUME NEW dead \in Seq(Sessions), IsInjective(dead), NEW i \in DOMAIN dead
  PROVE  /\ Append(RemoveAt(dead, i), dead[i]) \in Seq(Sessions)
         /\ IsInjective(Append(RemoveAt(dead, i), dead[i]))
         /\ ToSet(Append(RemoveAt(dead, i), dead[i])) \subseteq ToSet(dead)
<1> DEFINE rest == RemoveAt(dead, i)
<1>1. /\ rest \in Seq(Sessions)
      /\ Len(rest) = Len(dead) - 1
      /\ \A k \in 1..(i - 1) : rest[k] = dead[k]
      /\ \A k \in i..(Len(dead) - 1) : rest[k] = dead[k + 1]
  <2> DEFINE before == SubSeq(dead, 1, i - 1)
             after  == SubSeq(dead, i + 1, Len(dead))
  <2>1. Len(dead) \in Nat /\ i \in 1..Len(dead)
    OBVIOUS
  <2>2. /\ before \in Seq(Sessions)
        /\ Len(before) = i - 1
        /\ \A k \in 1..(i - 1) : before[k] = dead[k]
    BY <2>1
  <2>3. /\ after \in Seq(Sessions)
        /\ Len(after) = Len(dead) - i
        /\ \A k \in 1..(Len(dead) - i) : after[k] = dead[k + i]
    BY <2>1
  <2>4. rest = before \o after
    BY DEF RemoveAt
  <2> HIDE DEF before, after, rest
  <2>5. /\ rest \in Seq(Sessions)
        /\ Len(rest) = Len(before) + Len(after)
        /\ \A k \in 1..(Len(before) + Len(after)) :
             rest[k] = IF k <= Len(before) THEN before[k] ELSE after[k - Len(before)]
    BY <2>2, <2>3, <2>4, ConcatProperties
  <2>6. \A k \in 1..(i - 1) : rest[k] = before[k]
    BY <2>1, <2>2, <2>3, <2>5
  <2>8. \A k \in i..(Len(dead) - 1) : rest[k] = dead[k + 1]
    <3> SUFFICES ASSUME NEW k \in i..(Len(dead) - 1)
                 PROVE  rest[k] = dead[k + 1]
      OBVIOUS
    <3>1. /\ k \in 1..(Len(before) + Len(after))
          /\ ~(k <= Len(before))
          /\ k - Len(before) \in 1..(Len(dead) - i)
          /\ (k - Len(before)) + i = k + 1
      BY <2>1, <2>2, <2>3
    <3>2. rest[k] = after[k - Len(before)]
      BY <2>5, <3>1
    <3> QED
      BY <2>3, <3>1, <3>2
  <2>9. Len(rest) = Len(dead) - 1
    BY <2>1, <2>2, <2>3, <2>5
  <2>10. \A k \in 1..(i - 1) : rest[k] = dead[k]
    BY <2>2, <2>6
  <2> QED
    BY <2>5, <2>8, <2>9, <2>10
<1> HIDE DEF rest
<1>2. \A k \in DOMAIN rest : \E j \in DOMAIN dead : j # i /\ rest[k] = dead[j]
  BY <1>1
<1>3. IsInjective(rest)
  <2>1. \A k \in DOMAIN rest : rest[k] = dead[IF k < i THEN k ELSE k + 1]
    BY <1>1
  <2> QED
    BY <1>1, <2>1 DEF IsInjective
<1>4. dead[i] \notin ToSet(rest)
  BY <1>2 DEF ToSet, IsInjective
<1>5. ToSet(rest) \subseteq ToSet(dead) /\ dead[i] \in ToSet(dead)
  BY <1>2 DEF ToSet
<1>6. dead[i] \in Sessions
  OBVIOUS
<1>7. /\ Append(rest, dead[i]) \in Seq(Sessions)
      /\ IsInjective(Append(rest, dead[i]))
      /\ ToSet(Append(rest, dead[i])) = ToSet(rest) \cup {dead[i]}
  BY <1>1, <1>3, <1>4, <1>6, Burial
<1> QED
  BY <1>5, <1>7 DEF rest

-----------------------------------------------------------------------------
\* Init and the steps.

LEMMA InitIInv == Init => IInv
<1> SUFFICES ASSUME Init PROVE IInv
  OBVIOUS
<1>1. Types
  BY RegistryAssumption DEF Init, Types, Nil, IsInjective, Adapter, Slot
<1>2. Spawned /\ Buried /\ Served
  BY DEF Init, Spawned, Buried, Served, ToSet, Sids, Nil
<1>3. Owned /\ RowsKept
  BY DEF Init, Owned, CreationOK, RuntimeOK, RowsKept
<1> QED
  BY <1>1, <1>2, <1>3 DEF IInv

LEMMA SessionTypes ==
  ASSUME Types, Spawned, NEW s \in Sessions
  PROVE  /\ creations[s] \in Slot
         /\ creations[s].adapter \in -1..Len(adapters)
         /\ creations[s].resume \in 0..Len(adapters)
         /\ runtimes[s] \in 0..Len(adapters)
         /\ offline[s] \in 0..Len(adapters)
         /\ rows[s] \in 0..Len(adapters)
         /\ Len(adapters) \in Nat
<1>1. Len(adapters) \in Nat
  BY DEF Types
<1>2. creations[s] \in Slot /\ creations[s].resume \in Nat
  BY DEF Types, Slot
<1>3. runtimes[s] \in Nat /\ offline[s] \in Nat /\ rows[s] \in Nat
  BY DEF Types
<1> QED
  BY <1>1, <1>2, <1>3 DEF Spawned

LEMMA AdapterTypes ==
  ASSUME Types, NEW a \in Sids
  PROVE  /\ a \in Nat \ {0} /\ a <= Len(adapters) /\ Len(adapters) \in Nat
         /\ adapters[a] \in Adapter
         /\ adapters[a].session \in Sessions
         /\ adapters[a].transcript \in Nat \ {0}
<1>1. adapters \in Seq(Adapter) /\ a \in DOMAIN adapters
  BY DEF Types, Sids
<1>2. a \in 1..Len(adapters) /\ Len(adapters) \in Nat /\ adapters[a] \in Adapter
  BY <1>1
<1> QED
  BY <1>2 DEF Adapter

\* A request that begins a creation: it finds neither a runtime nor a creation,
\* and takes the transcript that is offline.
LEMMA RequestKeepsIInv ==
  ASSUME IInv, NEW s \in Sessions, Create(s) \/ EnsureLive(s)
  PROVE  IInv'
<1>1. /\ phase = "serving" /\ runtimes[s] = 0
      /\ creations[s].adapter = 0
      /\ creations' = [creations EXCEPT ![s] = Creation(offline[s])]
      /\ UNCHANGED <<phase, runtimes, graveyard, offline, forgotten, rows, adapters, crashes>>
  BY DEF Create, EnsureLive, MayCreate, Resumes, Nil
<1>2. /\ Creation(offline[s]).adapter = -1
      /\ Creation(offline[s]).resume = offline[s]
      /\ Creation(offline[s]) \in Slot
  BY DEF Creation, Slot, IInv, Types
<1>3. Types'
  BY <1>1, <1>2 DEF IInv, Types
<1>4. Spawned'
  BY <1>1, <1>2 DEF IInv, Types, Spawned, Sids
<1>5. Buried'
  BY <1>1 DEF IInv, Buried, Running
<1>6. Served'
  <2> SUFFICES ASSUME NEW a \in Sids, adapters[a].state # "stillborn" \/ adapters[a].alive,
                      ~adapters[a].killed
               PROVE  \/ creations'[adapters[a].session].adapter = a
                      \/ runtimes[adapters[a].session] = a
                      \/ adapters[a].session \in forgotten /\ adapters[a].state = "dead"
    BY <1>1 DEF Served, Sids
  <2>1. a \in Nat \ {0} /\ adapters[a].session \in Sessions
    BY AdapterTypes DEF IInv
  <2> QED
    BY <1>1, <2>1 DEF IInv, Types, Served
<1>7. Owned'
  <2> SUFFICES ASSUME NEW t \in Sessions PROVE CreationOK(t)' /\ RuntimeOK(t)'
    BY DEF Owned
  <2>1. CASE t = s
    BY <1>1, <1>2, <2>1 DEF IInv, Types, CreationOK, RuntimeOK
  <2>2. CASE t # s
    BY <1>1, <2>2 DEF IInv, Types, Owned, CreationOK, RuntimeOK
  <2> QED
    BY <2>1, <2>2
<1>8. RowsKept'
  BY <1>1 DEF IInv, RowsKept
<1> QED
  BY <1>3, <1>4, <1>5, <1>6, <1>7, <1>8 DEF IInv

LEMMA SpawnKeepsIInv ==
  ASSUME IInv, NEW s \in Sessions, Spawn(s)
  PROVE  IInv'
<1> DEFINE new == Len(adapters) + 1
           child == [session |-> s, state |-> "starting", alive |-> TRUE, killed |-> FALSE,
                     mute |-> FALSE, transcript |-> IF creations[s].resume = 0 THEN new
                                    ELSE creations[s].resume]
<1>1. /\ creations[s].adapter = -1
      /\ adapters' = Append(adapters, child)
      /\ creations' = [creations EXCEPT ![s].adapter = new]
      /\ UNCHANGED <<phase, runtimes, graveyard, offline, forgotten, rows, crashes>>
  BY DEF Spawn
<1>2. Len(adapters) \in Nat /\ creations[s].resume \in Nat /\ creations[s].resume <= Len(adapters)
  BY DEF IInv, Types, Slot, Spawned
<1>3. /\ child \in Adapter /\ child.session = s /\ child.state = "starting"
      /\ child.transcript <= new
      /\ creations[s].resume # 0 => child.transcript = creations[s].resume
  BY <1>2 DEF Adapter
<1>4. /\ adapters' \in Seq(Adapter)
      /\ Len(adapters') = new
      /\ Sids = 1..Len(adapters) /\ Sids' = 1..new
      /\ \A a \in Sids : adapters'[a] = adapters[a]
      /\ adapters'[new] = child
  <2> HIDE DEF child
  <2> QED
    BY <1>1, <1>2, <1>3 DEF IInv, Types, Sids
<1>5. \A t \in Sessions : /\ creations'[t].adapter = IF t = s THEN new ELSE creations[t].adapter
                          /\ creations'[t].resume = creations[t].resume
                          /\ creations'[t].awaited = creations[t].awaited
                          /\ creations[t] # Nil => creations'[t] # Nil
                          /\ t # s => creations'[t] = creations[t]
  BY <1>1, <1>2 DEF IInv, Types, Slot, Nil
<1> HIDE DEF child
<1>6. Types'
  <2>1. [creations[s] EXCEPT !.adapter = new] \in Slot
    <3>1. creations[s] \in Slot /\ new \in Int
      BY <1>2, SessionTypes DEF IInv
    <3> HIDE DEF new
    <3> QED
      BY <3>1 DEF Slot
  <2>2. creations' \in [Sessions -> Slot]
    BY <1>1, <2>1 DEF IInv, Types
  <2> QED
    BY <1>1, <1>4, <2>2 DEF IInv, Types
<1>7. Spawned'
  <2>1. ASSUME NEW t \in Sessions
        PROVE  /\ runtimes[t] <= new /\ offline[t] <= new /\ rows[t] <= new
               /\ creations'[t].adapter \in -1..new /\ creations'[t].resume <= new
    <3>1. /\ creations[t].adapter \in -1..Len(adapters)
          /\ creations[t].resume \in 0..Len(adapters)
          /\ runtimes[t] \in 0..Len(adapters)
          /\ offline[t] \in 0..Len(adapters)
          /\ rows[t] \in 0..Len(adapters)
      BY SessionTypes DEF IInv
    <3>2. creations'[t].adapter \in {new, creations[t].adapter}
      BY <1>5
    <3> QED
      BY <1>2, <1>5, <3>1, <3>2
  <2>2. ASSUME NEW a \in Sids' PROVE adapters'[a].transcript <= new
    <3>1. CASE a \in Sids
      BY <1>2, <1>4, <3>1, AdapterTypes DEF IInv, Spawned
    <3>2. CASE a = new
      BY <1>3, <1>4, <3>2
    <3> QED
      BY <1>2, <1>4, <3>1, <3>2
  <2> QED
    BY <1>1, <1>4, <2>1, <2>2 DEF Spawned
<1>8. Buried'
  <2>1. \A t \in ToSet(graveyard) : runtimes[t] \in Sids
    <3>1. \A t \in ToSet(graveyard) : t \in Sessions
      BY DEF IInv, Types, ToSet
    <3> QED
      BY <1>2, <1>4, <3>1 DEF IInv, Types, Buried, Spawned
  <2> QED
    BY <1>1, <1>4, <2>1 DEF IInv, Buried, Running
<1>9. Served'
  <2> SUFFICES ASSUME NEW a \in Sids', adapters'[a].state # "stillborn" \/ adapters'[a].alive,
                      ~adapters'[a].killed
               PROVE  \/ creations'[adapters'[a].session].adapter = a
                      \/ runtimes'[adapters'[a].session] = a
                      \/ adapters'[a].session \in forgotten' /\ adapters'[a].state = "dead"
    BY DEF Served
  <2>1. CASE a = new
    BY <1>3, <1>4, <1>5, <2>1
  <2>2. CASE a \in Sids
    <3>1. a \in Nat \ {0} /\ adapters[a].session \in Sessions
      BY <2>2, AdapterTypes DEF IInv
    <3> QED
      BY <1>1, <1>4, <1>5, <2>2, <3>1 DEF IInv, Served
  <2> QED
    BY <1>2, <1>4, <2>1, <2>2
<1>10. Owned'
  <2> SUFFICES ASSUME NEW t \in Sessions PROVE CreationOK(t)' /\ RuntimeOK(t)'
    BY DEF Owned
  <2>1. CreationOK(t) /\ RuntimeOK(t)
    BY DEF IInv, Owned
  <2>2. /\ runtimes[t] \in Nat /\ runtimes[t] <= Len(adapters)
        /\ creations[t].adapter \in -1..Len(adapters)
    BY DEF IInv, Types, Spawned
  <2>3. RuntimeOK(t)'
    BY <1>1, <1>2, <1>4, <2>1, <2>2 DEF RuntimeOK
  <2>4. CASE t = s
    <3>1. creations[s] # Nil
      BY <1>1 DEF Nil
    <3> QED
      BY <1>1, <1>2, <1>3, <1>4, <1>5, <2>1, <2>3, <2>4, <3>1 DEF CreationOK
  <2>5. CASE t # s
    BY <1>1, <1>2, <1>4, <1>5, <2>1, <2>2, <2>3, <2>5 DEF CreationOK
  <2> QED
    BY <2>3, <2>4, <2>5
<1>11. RowsKept'
  <2>1. \A t \in Sessions : runtimes[t] # 0 => runtimes[t] \in Sids
    BY <1>2, <1>4 DEF IInv, Types, Spawned
  <2> QED
    BY <1>1, <1>4, <2>1 DEF IInv, RowsKept
<1> QED
  BY <1>6, <1>7, <1>8, <1>9, <1>10, <1>11 DEF IInv

\* A creation that succeeds: what it resumed is its adapter's transcript, and so
\* its row's (Register).
LEMMA RegisterKeepsIInv ==
  ASSUME IInv, NEW s \in Sessions, Register(s)
  PROVE  /\ IInv'
         /\ \A t \in Sessions : rows[t] # 0 /\ t \notin forgotten => rows'[t] = rows[t]
<1> DEFINE a    == creations[s].adapter
           died == ~Running(a)
           gone == IF died THEN Evicted(graveyard) ELSE {}
<1>1. /\ a > 0 /\ adapters[a].state \in {"ready", "dead"}
      /\ runtimes' = [t \in Sessions |-> IF t = s THEN a
                                         ELSE IF t \in gone THEN 0 ELSE runtimes[t]]
      /\ graveyard' = IF died THEN Append(Kept(graveyard), s) ELSE graveyard
      /\ forgotten' = forgotten \cup gone
      /\ rows' = [rows EXCEPT ![s] = adapters[a].transcript]
      /\ offline' = [offline EXCEPT ![s] = 0]
      /\ creations' = [creations EXCEPT ![s] = Nil]
      /\ UNCHANGED <<phase, adapters, crashes>>
  BY DEF Register
<1>2. a \in Sids /\ a \in Nat
  BY <1>1, SessionTypes DEF IInv, Types, Sids
<1>3. creations[s] # Nil
  BY <1>1 DEF Nil
<1>4. /\ runtimes[s] = 0
      /\ phase # "disposed"
      /\ adapters[a].session = s
      /\ offline[s] # 0 => adapters[a].transcript = offline[s]
  BY <1>1, <1>3 DEF IInv, Owned, CreationOK
<1>5. adapters[a].transcript \in 1..Len(adapters)
  BY <1>2, AdapterTypes DEF IInv, Spawned
<1>6. gone \subseteq ToSet(graveyard) /\ s \notin ToSet(graveyard)
  BY <1>4 DEF IInv, Buried, Evicted
<1>7. /\ graveyard' \in Seq(Sessions)
      /\ IsInjective(graveyard')
      /\ ToSet(graveyard') = (ToSet(graveyard) \ gone) \cup (IF died THEN {s} ELSE {})
  <2>1. CASE died
    <3>1. /\ Kept(graveyard) \in Seq(Sessions) /\ IsInjective(Kept(graveyard))
          /\ ToSet(Kept(graveyard)) \subseteq ToSet(graveyard)
      BY SweepKeepsTheNewest DEF IInv, Types
    <3>2. ToSet(Kept(graveyard)) = ToSet(graveyard) \ gone
      BY <2>1, <3>1 DEF Evicted
    <3>3. s \notin ToSet(Kept(graveyard))
      BY <1>6, <3>1
    <3> QED
      BY <1>1, <2>1, <3>1, <3>2, <3>3, Burial
  <2>2. CASE ~died
    BY <1>1, <2>2 DEF IInv, Types
  <2> QED
    BY <2>1, <2>2
<1>8. gone \subseteq Sessions
  BY <1>6 DEF IInv, Types, ToSet
<1> HIDE DEF gone
<1>9. \A t \in Sessions : /\ runtimes'[t] = IF t = s THEN a ELSE IF t \in gone THEN 0 ELSE runtimes[t]
                          /\ creations'[t] = IF t = s THEN Nil ELSE creations[t]
                          /\ offline'[t] = IF t = s THEN 0 ELSE offline[t]
                          /\ rows'[t] = IF t = s THEN adapters[a].transcript ELSE rows[t]
  BY <1>1 DEF IInv, Types
<1>10. Types'
  <2>1. runtimes' \in [Sessions -> Nat]
    BY <1>1, <1>2 DEF IInv, Types
  <2>2. Nil \in Slot
    BY DEF Nil, Slot
  <2>3. creations' \in [Sessions -> Slot]
    BY <1>1, <2>2 DEF IInv, Types
  <2>4. rows' \in [Sessions -> Nat] /\ offline' \in [Sessions -> Nat]
    BY <1>1, <1>5 DEF IInv, Types
  <2>5. forgotten' \subseteq Sessions
    BY <1>1, <1>8 DEF IInv, Types
  <2> QED
    BY <1>1, <1>7, <2>1, <2>3, <2>4, <2>5 DEF IInv, Types
<1>11. Spawned'
  <2> SUFFICES ASSUME NEW t \in Sessions
               PROVE  /\ runtimes'[t] <= Len(adapters)
                      /\ creations'[t].adapter \in -1..Len(adapters)
                      /\ creations'[t].resume <= Len(adapters)
                      /\ offline'[t] <= Len(adapters)
                      /\ rows'[t] <= Len(adapters)
    BY <1>1 DEF IInv, Spawned, Sids
  <2>1. /\ runtimes[t] \in 0..Len(adapters) /\ offline[t] \in 0..Len(adapters)
        /\ rows[t] \in 0..Len(adapters) /\ creations[t].adapter \in -1..Len(adapters)
        /\ creations[t].resume \in 0..Len(adapters)
        /\ Len(adapters) \in Nat /\ a \in 0..Len(adapters)
    BY <1>2, SessionTypes DEF IInv
  <2>2. Nil.adapter = 0 /\ Nil.resume = 0
    BY DEF Nil
  <2> HIDE DEF a
  <2>3. CASE t = s
    BY <1>5, <1>9, <2>1, <2>2, <2>3
  <2>4. CASE t # s
    BY <1>9, <2>1, <2>4
  <2> QED
    BY <2>3, <2>4
<1>12. Buried'
  <2> SUFFICES ASSUME NEW t \in ToSet(graveyard')
               PROVE  runtimes'[t] # 0 /\ adapters[runtimes'[t]].state \notin {"starting", "ready"}
    BY <1>1 DEF Buried, Running
  <2>1. t \in Sessions
    BY <1>7 DEF ToSet
  <2>2. CASE t = s
    BY <1>1, <1>6, <1>7, <1>9, <2>2 DEF Running
  <2>3. CASE t # s
    BY <1>1, <1>7, <1>9, <2>1, <2>3 DEF IInv, Buried, Running
  <2> QED
    BY <2>2, <2>3
<1>13. Served'
  <2> SUFFICES ASSUME NEW b \in Sids, adapters[b].state # "stillborn" \/ adapters[b].alive,
                      ~adapters[b].killed
               PROVE  \/ creations'[adapters[b].session].adapter = b
                      \/ runtimes'[adapters[b].session] = b
                      \/ adapters[b].session \in forgotten' /\ adapters[b].state = "dead"
    BY <1>1 DEF Served, Sids
  <2> DEFINE t == adapters[b].session
  <2>1. b \in Nat \ {0} /\ t \in Sessions /\ adapters[b] \in Adapter
    BY AdapterTypes DEF IInv
  <2>2. \/ creations[t].adapter = b
        \/ runtimes[t] = b
        \/ t \in forgotten /\ adapters[b].state = "dead"
    BY DEF IInv, Served
  <2>3. CASE t = s
    BY <1>1, <1>4, <1>9, <2>1, <2>2, <2>3
  <2>4. CASE t # s /\ t \in gone
    <3>1. runtimes[t] # 0 /\ ~Running(runtimes[t])
      BY <1>6, <2>4 DEF IInv, Buried
    <3>2. creations[t].adapter # b
      <4>1. creations[t] = Nil
        BY <2>1, <3>1 DEF IInv, Owned, CreationOK
      <4> QED
        BY <2>1, <4>1 DEF Nil
    <3>3. adapters[b].state = "dead"
      BY <2>1, <2>2, <3>1, <3>2 DEF IInv, Owned, RuntimeOK, Running
    <3> QED
      BY <1>1, <2>4, <3>3
  <2>5. CASE t # s /\ t \notin gone
    BY <1>1, <1>9, <2>1, <2>2, <2>5
  <2> QED
    BY <2>3, <2>4, <2>5
<1>14. Owned'
  <2> SUFFICES ASSUME NEW t \in Sessions PROVE CreationOK(t)' /\ RuntimeOK(t)'
    BY DEF Owned
  <2>1. CreationOK(t) /\ RuntimeOK(t)
    BY DEF IInv, Owned
  <2> HIDE DEF a
  <2>2. CASE t = s
    BY <1>1, <1>4, <1>9, <2>1, <2>2 DEF CreationOK, RuntimeOK
  <2>3. CASE t # s
    BY <1>1, <1>9, <2>1, <2>3 DEF CreationOK, RuntimeOK
  <2> QED
    BY <2>2, <2>3
<1>15. RowsKept'
  <2> SUFFICES ASSUME NEW t \in Sessions, rows'[t] # 0, t \notin forgotten'
               PROVE  IF runtimes'[t] # 0 THEN adapters[runtimes'[t]].transcript = rows'[t]
                                          ELSE offline'[t] = rows'[t]
    BY <1>1 DEF RowsKept
  <2> HIDE DEF a
  <2>1. CASE t = s
    BY <1>1, <1>9, <2>1
  <2>2. CASE t # s
    BY <1>1, <1>4, <1>9, <2>2 DEF IInv, RowsKept
  <2> QED
    BY <2>1, <2>2
<1>16. ASSUME NEW t \in Sessions, rows[t] # 0, t \notin forgotten PROVE rows'[t] = rows[t]
  <2>1. CASE t = s
    BY <1>4, <1>9, <1>16, <2>1 DEF IInv, RowsKept
  <2>2. CASE t # s
    BY <1>9, <2>2
  <2> QED
    BY <2>1, <2>2
<1> QED
  BY <1>10, <1>11, <1>12, <1>13, <1>14, <1>15, <1>16 DEF IInv

\* What a step that only marks adapters leaves alone about them.
SameAdapters ==
  /\ adapters' \in [Sids -> Adapter]
  /\ \A a \in Sids : /\ adapters'[a].session = adapters[a].session
                     /\ adapters'[a].transcript = adapters[a].transcript

LEMMA MarkingKeepsTypes ==
  ASSUME Types, SameAdapters
  PROVE  /\ adapters' \in Seq(Adapter)
         /\ Len(adapters') = Len(adapters)
         /\ Sids' = Sids
<1>1. adapters \in Seq(Adapter) /\ Len(adapters) \in Nat /\ Sids = 1..Len(adapters)
  BY DEF Types, Sids
<1>2. adapters' \in [1..Len(adapters) -> Adapter]
  BY <1>1 DEF SameAdapters
<1>3. adapters' \in Seq(Adapter) /\ Len(adapters') = Len(adapters)
  BY <1>1, <1>2, IsASeq, LenProperties
<1> QED
  BY <1>1, <1>2, <1>3 DEF Sids

\* A creation that fails ends its adapter, and the session stays offline.
LEMMA FailureKeepsIInv ==
  ASSUME IInv, NEW s \in Sessions, CreationFails(s)
  PROVE  IInv'
<1> DEFINE a == creations[s].adapter
<1>1. /\ creations[s] # Nil
      /\ adapters' = IF a > 0 THEN [adapters EXCEPT ![a].killed = TRUE] ELSE adapters
      /\ creations' = [creations EXCEPT ![s] = Nil]
      /\ UNCHANGED <<phase, runtimes, graveyard, offline, forgotten, rows, crashes>>
  BY DEF CreationFails, Keeps
<1>2. a \in -1..Len(adapters) /\ Len(adapters) \in Nat /\ Sids = 1..Len(adapters)
  BY SessionTypes DEF IInv, Types, Sids
<1>3. runtimes[s] = 0
  BY <1>1 DEF IInv, Owned, CreationOK
<1> HIDE DEF a
<1>4. \A b \in Sids : /\ adapters'[b] \in Adapter
                      /\ adapters'[b].session = adapters[b].session
                      /\ adapters'[b].transcript = adapters[b].transcript
                      /\ adapters'[b].state = adapters[b].state
                      /\ adapters'[b].alive = adapters[b].alive
                      /\ adapters'[b].killed = (adapters[b].killed \/ b = a)
  <2> SUFFICES ASSUME NEW b \in Sids
               PROVE  /\ adapters'[b] \in Adapter
                      /\ adapters'[b].session = adapters[b].session
                      /\ adapters'[b].transcript = adapters[b].transcript
                      /\ adapters'[b].state = adapters[b].state
                      /\ adapters'[b].alive = adapters[b].alive
                      /\ adapters'[b].killed = (adapters[b].killed \/ b = a)
    OBVIOUS
  <2>1. adapters[b] \in Adapter /\ b > 0
    BY AdapterTypes DEF IInv
  <2>2. CASE b = a
    <3>1. adapters'[b] = [adapters[b] EXCEPT !.killed = TRUE]
      BY <1>1, <1>2, <2>1, <2>2 DEF IInv, Types, Sids
    <3> QED
      BY <2>1, <2>2, <3>1 DEF Adapter
  <2>3. CASE b # a
    <3>1. adapters'[b] = adapters[b]
      BY <1>1, <1>2, <2>1, <2>3 DEF IInv, Types, Sids
    <3> QED
      BY <2>1, <2>3, <3>1 DEF Adapter
  <2> QED
    BY <2>2, <2>3
<1>5. SameAdapters
  <2>1. adapters \in [Sids -> Adapter]
    BY DEF IInv, Types, Sids
  <2>2. DOMAIN adapters' = Sids /\ adapters' = [b \in Sids |-> adapters'[b]]
    BY <1>1, <2>1
  <2>3. adapters' \in [Sids -> Adapter]
    BY <1>4, <2>2
  <2> QED
    BY <1>4, <2>3 DEF SameAdapters
<1>6. adapters' \in Seq(Adapter) /\ Len(adapters') = Len(adapters) /\ Sids' = Sids
  BY <1>5, MarkingKeepsTypes DEF IInv
<1>7. Nil \in Slot /\ Nil.adapter = 0 /\ Nil.resume = 0
  BY DEF Nil, Slot
<1>8. \A t \in Sessions : creations'[t] = IF t = s THEN Nil ELSE creations[t]
  BY <1>1 DEF IInv, Types
<1>9. Types'
  <2>1. creations' \in [Sessions -> Slot]
    BY <1>1, <1>7 DEF IInv, Types
  <2> QED
    BY <1>1, <1>6, <2>1 DEF IInv, Types
<1>10. Spawned'
  BY <1>1, <1>2, <1>4, <1>6, <1>7, <1>8 DEF IInv, Spawned
<1>11. Buried'
  <2>1. \A t \in ToSet(graveyard) : runtimes[t] \in Sids
    <3>1. \A t \in ToSet(graveyard) : t \in Sessions
      BY DEF IInv, Types, ToSet
    <3> QED
      BY <1>2, <3>1, SessionTypes DEF IInv, Buried
  <2> QED
    BY <1>1, <1>4, <2>1 DEF IInv, Buried, Running
<1>12. Served'
  <2> SUFFICES ASSUME NEW b \in Sids, adapters'[b].state # "stillborn" \/ adapters'[b].alive,
                      ~adapters'[b].killed
               PROVE  \/ creations'[adapters[b].session].adapter = b
                      \/ runtimes[adapters[b].session] = b
                      \/ adapters[b].session \in forgotten /\ adapters[b].state = "dead"
    BY <1>1, <1>4, <1>6 DEF Served
  <2>1. b \in Nat \ {0} /\ adapters[b].session \in Sessions
    BY AdapterTypes DEF IInv
  <2>2. b # a
    BY <1>4
  <2> QED
    BY <1>4, <1>8, <2>1, <2>2 DEF IInv, Served, a
<1>13. Owned'
  <2> SUFFICES ASSUME NEW t \in Sessions PROVE CreationOK(t)' /\ RuntimeOK(t)'
    BY DEF Owned
  <2>1. CreationOK(t) /\ RuntimeOK(t)
    BY DEF IInv, Owned
  <2>2. runtimes[t] \in 0..Len(adapters) /\ creations[t].adapter \in -1..Len(adapters)
    BY SessionTypes DEF IInv
  <2>3. RuntimeOK(t)'
    BY <1>1, <1>2, <1>4, <2>1, <2>2 DEF RuntimeOK
  <2>4. CreationOK(t)'
    BY <1>1, <1>2, <1>4, <1>8, <2>1, <2>2 DEF CreationOK
  <2> QED
    BY <2>3, <2>4
<1>14. RowsKept'
  <2>1. \A t \in Sessions : runtimes[t] # 0 => runtimes[t] \in Sids
    BY <1>2, SessionTypes DEF IInv
  <2> QED
    BY <1>1, <1>4, <2>1 DEF IInv, RowsKept
<1> QED
  BY <1>9, <1>10, <1>11, <1>12, <1>13, <1>14 DEF IInv

\* An adapter that gets ready, ends, or closes its connection: only its own state
\* changes, and one that was cut off stays so.
LEMMA AdapterStepKeepsIInv ==
  ASSUME IInv, NEW a \in Sids, AdapterReady(a) \/ ConnectionCloses(a) \/ AdapterExits(a)
  PROVE  IInv'
<1> DEFINE To(st, al) ==
      /\ adapters' = [adapters EXCEPT ![a] = [@ EXCEPT !.state = st, !.alive = al]]
      /\ adapters[a].state \in {"ready", "dead"} => st = "dead"
      /\ adapters[a].state = "stillborn" => st = "stillborn"
      /\ al => adapters[a].alive
<1>1. UNCHANGED <<phase, runtimes, graveyard, creations, offline, forgotten, rows, crashes>>
  BY DEF AdapterReady, ConnectionCloses, AdapterExits, memory
<1>2. PICK st \in {"ready", "dead", "stillborn"}, al \in BOOLEAN : To(st, al)
  <2>1. adapters[a] \in Adapter /\ adapters \in Seq(Adapter)
    BY AdapterTypes DEF IInv, Types
  <2>2. adapters[a].state \in {"starting", "ready", "stillborn", "dead"}
        /\ adapters[a].alive \in BOOLEAN
    BY <2>1 DEF Adapter
  <2>3. CASE AdapterReady(a)
    <3>0. /\ adapters[a].state = "starting"
          /\ adapters' = [adapters EXCEPT ![a] = [@ EXCEPT !.state = "ready"]]
          /\ [adapters[a] EXCEPT !.state = "ready"]
               = [adapters[a] EXCEPT !.state = "ready", !.alive = adapters[a].alive]
      BY <2>1, <2>3 DEF AdapterReady, Adapter
    <3>1. To("ready", adapters[a].alive)
      BY <2>1, <3>0
    <3> QED
      BY <2>2, <3>1
  <2>4. CASE ConnectionCloses(a)
    <3>1. To(Severed(adapters[a].state), adapters[a].alive)
      BY <2>1, <2>2, <2>4 DEF ConnectionCloses, Severed, Running, Adapter
    <3> QED
      BY <2>2, <2>4, <3>1 DEF ConnectionCloses, Severed, Running
  <2>5. CASE AdapterExits(a)
    <3>1. To(Severed(adapters[a].state), FALSE)
      BY <2>1, <2>2, <2>5 DEF AdapterExits, Severed, Adapter
    <3>2. Severed(adapters[a].state) \in {"dead", "stillborn"}
      BY <2>2 DEF Severed
    <3> QED
      BY <3>1, <3>2
  <2> QED
    BY <2>3, <2>4, <2>5
<1>3. \A b \in Sids : /\ adapters'[b] \in Adapter
                      /\ adapters'[b].session = adapters[b].session
                      /\ adapters'[b].transcript = adapters[b].transcript
                      /\ b = a => adapters'[b].state = st /\ adapters'[b].alive = al
                      /\ b # a => adapters'[b] = adapters[b]
                      /\ adapters'[b].killed = adapters[b].killed
  <2> SUFFICES ASSUME NEW b \in Sids
               PROVE  /\ adapters'[b] \in Adapter
                      /\ adapters'[b].session = adapters[b].session
                      /\ adapters'[b].transcript = adapters[b].transcript
                      /\ b = a => adapters'[b].state = st /\ adapters'[b].alive = al
                      /\ b # a => adapters'[b] = adapters[b]
                      /\ adapters'[b].killed = adapters[b].killed
    OBVIOUS
  <2>1. adapters[b] \in Adapter
    BY AdapterTypes DEF IInv
  <2>2. CASE b = a
    <3>1. adapters'[b] = [adapters[b] EXCEPT !.state = st, !.alive = al]
      BY <1>2, <2>2 DEF IInv, Types, Sids
    <3> QED
      BY <2>1, <2>2, <3>1 DEF Adapter
  <2>3. CASE b # a
    <3>1. adapters'[b] = adapters[b]
      BY <1>2, <2>3 DEF IInv, Types, Sids
    <3> QED
      BY <2>1, <2>3, <3>1
  <2> QED
    BY <2>2, <2>3
<1>4. SameAdapters
  <2>1. adapters \in [Sids -> Adapter]
    BY DEF IInv, Types, Sids
  <2>2. DOMAIN adapters' = Sids /\ adapters' = [b \in Sids |-> adapters'[b]]
    BY <1>2, <2>1
  <2>3. adapters' \in [Sids -> Adapter]
    BY <1>3, <2>2
  <2> QED
    BY <1>3, <2>3 DEF SameAdapters
<1>5. adapters' \in Seq(Adapter) /\ Len(adapters') = Len(adapters) /\ Sids' = Sids
  BY <1>4, MarkingKeepsTypes DEF IInv
<1>6. /\ \A t \in Sessions : runtimes[t] # 0 => runtimes[t] \in Sids
      /\ \A t \in Sessions : creations[t].adapter > 0 => creations[t].adapter \in Sids
      /\ \A t \in ToSet(graveyard) : t \in Sessions
  BY SessionTypes DEF IInv, Types, Sids, ToSet
<1>7. Types'
  BY <1>1, <1>5 DEF IInv, Types
<1>8. Spawned'
  BY <1>1, <1>3, <1>5 DEF IInv, Spawned
<1>9. Buried'
  <2> SUFFICES ASSUME NEW t \in ToSet(graveyard)
               PROVE  runtimes[t] # 0 /\ adapters'[runtimes[t]].state \notin {"starting", "ready"}
    BY <1>1 DEF Buried, Running
  <2>1. /\ runtimes[t] # 0 /\ runtimes[t] \in Sids /\ adapters[runtimes[t]] \in Adapter
        /\ adapters[runtimes[t]].state \notin {"starting", "ready"}
    BY <1>6, AdapterTypes DEF IInv, Buried, Running
  <2>2. adapters[runtimes[t]].state \in {"stillborn", "dead"}
    BY <2>1 DEF Adapter
  <2>3. CASE runtimes[t] = a
    BY <1>2, <1>3, <2>1, <2>2, <2>3
  <2>4. CASE runtimes[t] # a
    BY <1>3, <2>1, <2>4
  <2> QED
    BY <2>3, <2>4
<1>10. Served'
  <2> SUFFICES ASSUME NEW b \in Sids, adapters'[b].state # "stillborn" \/ adapters'[b].alive,
                      ~adapters[b].killed
               PROVE  \/ creations[adapters[b].session].adapter = b
                      \/ runtimes[adapters[b].session] = b
                      \/ adapters[b].session \in forgotten /\ adapters'[b].state = "dead"
    BY <1>1, <1>3, <1>5 DEF Served
  <2>1. CASE b = a
    <3>1. adapters[b].state # "stillborn" \/ adapters[b].alive
      BY <1>2, <1>3, <2>1
    <3>2. adapters[b].state = "dead" => adapters'[b].state = "dead"
      BY <1>2, <1>3, <2>1
    <3> QED
      BY <3>1, <3>2 DEF IInv, Served
  <2>2. CASE b # a
    <3>1. adapters'[b] = adapters[b]
      BY <1>3, <2>2
    <3> QED
      BY <3>1 DEF IInv, Served
  <2> QED
    BY <2>1, <2>2
<1>11. Owned'
  <2> SUFFICES ASSUME NEW t \in Sessions PROVE CreationOK(t)' /\ RuntimeOK(t)'
    BY DEF Owned
  <2>1. CreationOK(t) /\ RuntimeOK(t)
    BY DEF IInv, Owned
  <2>2. RuntimeOK(t)'
    <3>1. CASE runtimes[t] = a
      BY <1>1, <1>2, <1>3, <1>6, <2>1, <3>1 DEF RuntimeOK, Running
    <3>2. CASE runtimes[t] # a
      BY <1>1, <1>3, <1>6, <2>1, <3>2 DEF RuntimeOK
    <3> QED
      BY <3>1, <3>2
  <2>3. CreationOK(t)'
    BY <1>1, <1>3, <1>6, <2>1 DEF CreationOK
  <2> QED
    BY <2>2, <2>3
<1>12. RowsKept'
  BY <1>1, <1>3, <1>6 DEF IInv, RowsKept
<1> QED
  BY <1>7, <1>8, <1>9, <1>10, <1>11, <1>12 DEF IInv

\* A registered session that dies is buried, and the graveyard swept.
LEMMA DeathKeepsIInv ==
  ASSUME IInv, NEW s \in Sessions, MarkDead(s)
  PROVE  /\ IInv'
         /\ \A t \in Sessions : rows[t] # 0 /\ t \notin forgotten => rows'[t] = rows[t]
<1> DEFINE dead == Append(graveyard, s)
           gone == Evicted(dead)
<1>1. /\ runtimes[s] # 0 /\ ~IsDead(s) /\ ~Running(runtimes[s])
      /\ graveyard' = Kept(dead)
      /\ runtimes' = [t \in Sessions |-> IF t \in gone THEN 0 ELSE runtimes[t]]
      /\ forgotten' = forgotten \cup gone
      /\ rows' = [rows EXCEPT ![s] = adapters[runtimes[s]].transcript]
      /\ UNCHANGED <<phase, creations, offline, adapters, crashes>>
  BY DEF MarkDead
<1>2. s \notin ToSet(graveyard)
  BY <1>1 DEF IsDead, ToSet
<1>3. dead \in Seq(Sessions) /\ IsInjective(dead) /\ ToSet(dead) = ToSet(graveyard) \cup {s}
  BY <1>2, Burial DEF IInv, Types
<1> HIDE DEF dead
<1>4. /\ graveyard' \in Seq(Sessions)
      /\ IsInjective(graveyard')
      /\ ToSet(graveyard') = ToSet(dead) \ gone
  <2>1. /\ Kept(dead) \in Seq(Sessions) /\ IsInjective(Kept(dead))
        /\ ToSet(Kept(dead)) \subseteq ToSet(dead)
    BY <1>3, SweepKeepsTheNewest
  <2> QED
    BY <1>1, <2>1 DEF Evicted
<1>5. gone \subseteq ToSet(dead) /\ gone \subseteq Sessions
  BY <1>3 DEF Evicted, ToSet
<1> HIDE DEF gone
<1>6. \A t \in ToSet(dead) : t \in Sessions /\ runtimes[t] # 0 /\ ~Running(runtimes[t])
  <2> SUFFICES ASSUME NEW t \in ToSet(dead)
               PROVE  t \in Sessions /\ runtimes[t] # 0 /\ ~Running(runtimes[t])
    OBVIOUS
  <2>1. CASE t = s
    BY <1>1, <2>1
  <2>2. CASE t \in ToSet(graveyard)
    <3>1. t \in Sessions
      BY <2>2 DEF IInv, Types, ToSet
    <3> QED
      BY <2>2, <3>1 DEF IInv, Buried
  <2> QED
    BY <1>3, <2>1, <2>2
<1>7. runtimes[s] \in Sids /\ Sids = 1..Len(adapters) /\ Len(adapters) \in Nat
  BY <1>1, SessionTypes DEF IInv, Types, Sids
<1>8. adapters[runtimes[s]].transcript \in 1..Len(adapters)
  BY <1>7, AdapterTypes DEF IInv, Spawned
<1>9. \A t \in Sessions : /\ runtimes'[t] = IF t \in gone THEN 0 ELSE runtimes[t]
                          /\ rows'[t] = IF t = s THEN adapters[runtimes[s]].transcript ELSE rows[t]
  BY <1>1 DEF IInv, Types
<1>10. Types'
  <2>1. runtimes' \in [Sessions -> Nat] /\ rows' \in [Sessions -> Nat]
    BY <1>1, <1>8 DEF IInv, Types
  <2>2. forgotten' \subseteq Sessions
    BY <1>1, <1>5 DEF IInv, Types
  <2> QED
    BY <1>1, <1>4, <2>1, <2>2 DEF IInv, Types
<1>11. Spawned'
  <2>1. ASSUME NEW t \in Sessions PROVE runtimes'[t] <= Len(adapters) /\ rows'[t] <= Len(adapters)
    <3>1. runtimes[t] \in 0..Len(adapters) /\ rows[t] \in 0..Len(adapters)
      BY SessionTypes DEF IInv
    <3> QED
      BY <1>7, <1>8, <1>9, <3>1
  <2> QED
    BY <1>1, <2>1 DEF IInv, Spawned, Sids
<1>12. Buried'
  BY <1>1, <1>4, <1>6, <1>9 DEF Buried, Running
<1>13. Served'
  <2> SUFFICES ASSUME NEW b \in Sids, adapters[b].state # "stillborn" \/ adapters[b].alive,
                      ~adapters[b].killed
               PROVE  \/ creations[adapters[b].session].adapter = b
                      \/ runtimes'[adapters[b].session] = b
                      \/ adapters[b].session \in forgotten' /\ adapters[b].state = "dead"
    BY <1>1 DEF Served, Sids
  <2> DEFINE t == adapters[b].session
  <2>1. t \in Sessions /\ adapters[b] \in Adapter
    BY AdapterTypes DEF IInv
  <2>2. \/ creations[t].adapter = b
        \/ runtimes[t] = b
        \/ t \in forgotten /\ adapters[b].state = "dead"
    BY DEF IInv, Served
  <2>3. CASE runtimes[t] = b /\ t \in gone
    <3>1. ~Running(b)
      BY <1>5, <1>6, <2>3
    <3>2. b # 0 => adapters[b].state \in {"ready", "dead"}
      BY <2>1, <2>3 DEF IInv, Owned, RuntimeOK
    <3>3. b # 0
      BY AdapterTypes DEF IInv
    <3> QED
      BY <1>1, <2>1, <2>3, <3>1, <3>2, <3>3 DEF Running
  <2>4. CASE ~(runtimes[t] = b /\ t \in gone)
    BY <1>1, <1>9, <2>1, <2>2, <2>4
  <2> QED
    BY <2>3, <2>4
<1>14. Owned'
  BY <1>1, <1>9 DEF IInv, Owned, CreationOK, RuntimeOK
<1>15. RowsKept'
  <2> SUFFICES ASSUME NEW t \in Sessions, phase # "disposed", rows'[t] # 0, t \notin forgotten'
               PROVE  IF runtimes'[t] # 0 THEN adapters[runtimes'[t]].transcript = rows'[t]
                                          ELSE offline[t] = rows'[t]
    BY <1>1 DEF RowsKept
  <2>1. t \notin gone /\ t \notin forgotten
    BY <1>1
  <2>2. CASE t = s
    BY <1>1, <1>9, <2>1, <2>2
  <2>3. CASE t # s
    BY <1>9, <2>1, <2>3 DEF IInv, RowsKept
  <2> QED
    BY <2>2, <2>3
<1>16. phase # "disposed"
  BY <1>1 DEF IInv, Owned, RuntimeOK
<1>17. ASSUME NEW t \in Sessions, rows[t] # 0, t \notin forgotten PROVE rows'[t] = rows[t]
  <2>1. CASE t = s
    BY <1>1, <1>9, <1>16, <1>17, <2>1 DEF IInv, RowsKept
  <2>2. CASE t # s
    BY <1>9, <2>2
  <2> QED
    BY <2>1, <2>2
<1> QED
  BY <1>10, <1>11, <1>12, <1>13, <1>14, <1>15, <1>17 DEF IInv

\* What a dead session still persists is the transcript of its row.
LEMMA LateKeepsIInv ==
  ASSUME IInv, NEW a \in Sids, EmitsLate(a)
  PROVE  /\ IInv'
         /\ \A t \in Sessions : rows[t] # 0 /\ t \notin forgotten => rows'[t] = rows[t]
<1> DEFINE s == adapters[a].session
<1>1. /\ adapters[a].state = "dead" /\ ~adapters[a].killed
      /\ creations[s].adapter # a
      /\ adapters' = [adapters EXCEPT ![a].mute = TRUE]
      /\ rows' = [rows EXCEPT ![s] = adapters[a].transcript]
      /\ runtimes[s] # a => graveyard' = graveyard
      /\ runtimes[s] = a =>
           \E i \in DOMAIN graveyard :
             graveyard[i] = s /\ graveyard' = Append(RemoveAt(graveyard, i), s)
      /\ UNCHANGED <<phase, runtimes, creations, offline, forgotten, crashes>>
  BY DEF EmitsLate
<1>2. s \in Sessions /\ a \in Nat \ {0} /\ adapters[a].transcript \in 1..Len(adapters)
  BY AdapterTypes DEF IInv, Spawned
<1>3. runtimes[s] = a \/ s \in forgotten
  BY <1>1 DEF IInv, Served
<1> HIDE DEF s
<1>4. \A b \in Sids : /\ adapters'[b] \in Adapter
                      /\ adapters'[b].session = adapters[b].session
                      /\ adapters'[b].transcript = adapters[b].transcript
                      /\ adapters'[b].state = adapters[b].state
                      /\ adapters'[b].alive = adapters[b].alive
                      /\ adapters'[b].killed = adapters[b].killed
  <2> SUFFICES ASSUME NEW b \in Sids
               PROVE  /\ adapters'[b] \in Adapter
                      /\ adapters'[b].session = adapters[b].session
                      /\ adapters'[b].transcript = adapters[b].transcript
                      /\ adapters'[b].state = adapters[b].state
                      /\ adapters'[b].alive = adapters[b].alive
                      /\ adapters'[b].killed = adapters[b].killed
    OBVIOUS
  <2>1. adapters[b] \in Adapter
    BY AdapterTypes DEF IInv
  <2>2. CASE b = a
    <3>1. adapters'[b] = [adapters[b] EXCEPT !.mute = TRUE]
      BY <1>1, <2>2 DEF IInv, Types, Sids
    <3> QED
      BY <2>1, <3>1 DEF Adapter
  <2>3. CASE b # a
    <3>1. adapters'[b] = adapters[b]
      BY <1>1, <2>3 DEF IInv, Types, Sids
    <3> QED
      BY <2>1, <3>1
  <2> QED
    BY <2>2, <2>3
<1>5. SameAdapters
  <2>1. adapters \in [Sids -> Adapter]
    BY DEF IInv, Types, Sids
  <2>2. DOMAIN adapters' = Sids /\ adapters' = [b \in Sids |-> adapters'[b]]
    BY <1>1, <2>1
  <2>3. adapters' \in [Sids -> Adapter]
    BY <1>4, <2>2
  <2> QED
    BY <1>4, <2>3 DEF SameAdapters
<1>6. adapters' \in Seq(Adapter) /\ Len(adapters') = Len(adapters) /\ Sids' = Sids
  BY <1>5, MarkingKeepsTypes DEF IInv
<1>7. /\ graveyard' \in Seq(Sessions)
      /\ IsInjective(graveyard')
      /\ ToSet(graveyard') \subseteq ToSet(graveyard)
  <2>1. CASE runtimes[s] = a
    <3>1. PICK i \in DOMAIN graveyard :
            graveyard' = Append(RemoveAt(graveyard, i), graveyard[i])
      BY <1>1, <2>1
    <3>2. graveyard \in Seq(Sessions) /\ IsInjective(graveyard)
      BY DEF IInv, Types
    <3> QED
      BY <3>1, <3>2, Reburial
  <2>2. CASE runtimes[s] # a
    BY <1>1, <2>2 DEF IInv, Types
  <2> QED
    BY <2>1, <2>2
<1>8. /\ \A t \in Sessions : runtimes[t] # 0 => runtimes[t] \in Sids
      /\ \A t \in Sessions : creations[t].adapter > 0 => creations[t].adapter \in Sids
      /\ \A t \in ToSet(graveyard) : t \in Sessions
  BY SessionTypes DEF IInv, Types, Sids, ToSet
<1>9. /\ rows'[s] = adapters[a].transcript
      /\ \A t \in Sessions : t # s => rows'[t] = rows[t]
  BY <1>1, <1>2 DEF IInv, Types
<1>10. Types'
  <2>1. rows' \in [Sessions -> Nat]
    BY <1>1, <1>2 DEF IInv, Types
  <2> QED
    BY <1>1, <1>6, <1>7, <2>1 DEF IInv, Types
<1>11. Spawned'
  <2>1. ASSUME NEW t \in Sessions PROVE rows'[t] <= Len(adapters)
    BY <1>2, <1>9 DEF IInv, Spawned
  <2> QED
    BY <1>1, <1>4, <1>6, <2>1 DEF IInv, Spawned
<1>12. Buried'
  BY <1>1, <1>4, <1>7, <1>8 DEF IInv, Buried, Running
<1>13. Served'
  BY <1>1, <1>4, <1>6 DEF IInv, Served
<1>14. Owned'
  <2> SUFFICES ASSUME NEW t \in Sessions PROVE CreationOK(t)' /\ RuntimeOK(t)'
    BY DEF Owned
  <2>1. CreationOK(t) /\ RuntimeOK(t)
    BY DEF IInv, Owned
  <2> QED
    BY <1>1, <1>4, <1>8, <2>1 DEF CreationOK, RuntimeOK
<1>15. RowsKept'
  <2> SUFFICES ASSUME NEW t \in Sessions, phase # "disposed", rows'[t] # 0, t \notin forgotten
               PROVE  /\ runtimes[t] # 0 => adapters[runtimes[t]].transcript = rows'[t]
                      /\ runtimes[t] = 0 => offline[t] = rows'[t]
    BY <1>1, <1>4, <1>8 DEF RowsKept
  <2>1. CASE t = s
    BY <1>2, <1>3, <1>9, <2>1
  <2>2. CASE t # s
    BY <1>9, <2>2 DEF IInv, RowsKept
  <2> QED
    BY <2>1, <2>2
<1>16. ASSUME NEW t \in Sessions, rows[t] # 0, t \notin forgotten PROVE rows'[t] = rows[t]
  <2>1. CASE t = s
    <3>1. runtimes[s] = a /\ runtimes[s] # 0
      BY <1>2, <1>3, <1>16, <2>1
    <3>2. phase # "disposed"
      BY <1>2, <3>1 DEF IInv, Owned, RuntimeOK
    <3> QED
      BY <1>2, <1>9, <1>16, <2>1, <3>1, <3>2 DEF IInv, RowsKept
  <2>2. CASE t # s
    BY <1>9, <2>2
  <2> QED
    BY <2>1, <2>2
<1> QED
  BY <1>10, <1>11, <1>12, <1>13, <1>14, <1>15, <1>16 DEF IInv

\* From here on nothing new is created, and what is being created is waited for.
LEMMA DisposeKeepsIInv ==
  ASSUME IInv, Dispose
  PROVE  IInv'
<1>1. /\ phase = "serving" /\ phase' = "disposing"
      /\ creations' = [s \in Sessions |-> IF creations[s] = Nil THEN Nil
                                          ELSE [creations[s] EXCEPT !.awaited = TRUE]]
      /\ UNCHANGED <<runtimes, graveyard, offline, forgotten, rows, adapters, crashes>>
  BY DEF Dispose
<1>2. \A s \in Sessions : /\ creations'[s] \in Slot
                          /\ creations'[s].adapter = creations[s].adapter
                          /\ creations'[s].resume = creations[s].resume
                          /\ creations'[s] # Nil => creations[s] # Nil /\ creations'[s].awaited
  <2> SUFFICES ASSUME NEW s \in Sessions
               PROVE  /\ creations'[s] \in Slot
                      /\ creations'[s].adapter = creations[s].adapter
                      /\ creations'[s].resume = creations[s].resume
                      /\ creations'[s] # Nil => creations[s] # Nil /\ creations'[s].awaited
    OBVIOUS
  <2>1. creations[s] \in Slot
    BY DEF IInv, Types
  <2>2. CASE creations[s] = Nil
    <3>1. creations'[s] = creations[s] /\ creations'[s] = Nil
      BY <1>1, <2>2
    <3> QED
      BY <2>1, <3>1
  <2>3. CASE creations[s] # Nil
    <3>1. creations'[s] = [creations[s] EXCEPT !.awaited = TRUE]
      BY <1>1, <2>3
    <3> QED
      BY <2>1, <2>3, <3>1 DEF Slot
  <2> QED
    BY <2>2, <2>3
<1>3. creations' \in [Sessions -> Slot]
  <2>1. DOMAIN creations' = Sessions /\ creations' = [s \in Sessions |-> creations'[s]]
    BY <1>1
  <2> QED
    BY <1>2, <2>1
<1>4. Types'
  BY <1>1, <1>3 DEF IInv, Types
<1>5. Spawned'
  BY <1>1, <1>2 DEF IInv, Spawned, Sids
<1>6. Buried'
  BY <1>1 DEF IInv, Buried, Running
<1>7. Served'
  BY <1>1, <1>2, AdapterTypes DEF IInv, Served, Sids
<1>8. Owned'
  <2> SUFFICES ASSUME NEW s \in Sessions PROVE CreationOK(s)' /\ RuntimeOK(s)'
    BY DEF Owned
  <2>1. CreationOK(s) /\ RuntimeOK(s)
    BY DEF IInv, Owned
  <2>2. RuntimeOK(s)'
    BY <1>1, <2>1 DEF RuntimeOK
  <2>3. CreationOK(s)'
    BY <1>1, <1>2, <2>1 DEF CreationOK
  <2> QED
    BY <2>2, <2>3
<1>9. RowsKept'
  BY <1>1 DEF IInv, RowsKept
<1> QED
  BY <1>4, <1>5, <1>6, <1>7, <1>8, <1>9 DEF IInv

\* Nothing was being created any more, and what is registered is killed.
LEMMA DisposeKillsKeepsIInv ==
  ASSUME IInv, DisposeKills
  PROVE  IInv'
<1>1. /\ phase = "disposing" /\ phase' = "disposed"
      /\ \A s \in Sessions : ~creations[s].awaited
      /\ adapters' = [a \in Sids |-> IF runtimes[adapters[a].session] = a
                                     THEN [adapters[a] EXCEPT !.killed = TRUE] ELSE adapters[a]]
      /\ runtimes' = [s \in Sessions |-> 0]
      /\ graveyard' = <<>>
      /\ UNCHANGED <<creations, offline, forgotten, rows, crashes>>
  BY DEF DisposeKills
<1>2. \A s \in Sessions : creations[s] = Nil /\ creations[s].adapter = 0
  BY <1>1 DEF IInv, Owned, CreationOK, Nil
<1>3. \A b \in Sids : /\ adapters'[b] \in Adapter
                      /\ adapters'[b].session = adapters[b].session
                      /\ adapters'[b].transcript = adapters[b].transcript
                      /\ adapters'[b].state = adapters[b].state
                      /\ adapters'[b].alive = adapters[b].alive
                      /\ ~adapters'[b].killed =>
                           ~adapters[b].killed /\ runtimes[adapters[b].session] # b
  <2> SUFFICES ASSUME NEW b \in Sids
               PROVE  /\ adapters'[b] \in Adapter
                      /\ adapters'[b].session = adapters[b].session
                      /\ adapters'[b].transcript = adapters[b].transcript
                      /\ adapters'[b].state = adapters[b].state
                      /\ adapters'[b].alive = adapters[b].alive
                      /\ ~adapters'[b].killed =>
                           ~adapters[b].killed /\ runtimes[adapters[b].session] # b
    OBVIOUS
  <2>1. adapters[b] \in Adapter
    BY AdapterTypes DEF IInv
  <2>2. CASE runtimes[adapters[b].session] = b
    <3>1. adapters'[b] = [adapters[b] EXCEPT !.killed = TRUE]
      BY <1>1, <2>2
    <3> QED
      BY <2>1, <3>1 DEF Adapter
  <2>3. CASE runtimes[adapters[b].session] # b
    <3>1. adapters'[b] = adapters[b]
      BY <1>1, <2>3
    <3> QED
      BY <2>1, <2>3, <3>1
  <2> QED
    BY <2>2, <2>3
<1>4. SameAdapters
  <2>1. DOMAIN adapters' = Sids /\ adapters' = [b \in Sids |-> adapters'[b]]
    BY <1>1
  <2>2. adapters' \in [Sids -> Adapter]
    BY <1>3, <2>1
  <2> QED
    BY <1>3, <2>2 DEF SameAdapters
<1>5. adapters' \in Seq(Adapter) /\ Len(adapters') = Len(adapters) /\ Sids' = Sids
  BY <1>4, MarkingKeepsTypes DEF IInv
<1>6. \A s \in Sessions : runtimes'[s] = 0
  BY <1>1
<1>7. Types'
  <2>1. graveyard' \in Seq(Sessions) /\ IsInjective(graveyard')
    BY <1>1 DEF IsInjective
  <2>2. runtimes' \in [Sessions -> Nat]
    BY <1>1
  <2> QED
    BY <1>1, <1>5, <2>1, <2>2 DEF IInv, Types
<1>8. Spawned'
  <2>1. \A s \in Sessions : runtimes'[s] <= Len(adapters)
    BY <1>6, SessionTypes DEF IInv
  <2> QED
    BY <1>1, <1>3, <1>5, <2>1 DEF IInv, Spawned
<1>9. Buried'
  BY <1>1 DEF Buried, ToSet
<1>10. Served'
  <2> SUFFICES ASSUME NEW b \in Sids, adapters[b].state # "stillborn" \/ adapters[b].alive,
                      ~adapters'[b].killed
               PROVE  adapters[b].session \in forgotten /\ adapters[b].state = "dead"
    BY <1>1, <1>3, <1>5 DEF Served
  <2>1. b \in Nat \ {0} /\ adapters[b].session \in Sessions
    BY AdapterTypes DEF IInv
  <2> QED
    BY <1>2, <1>3, <2>1 DEF IInv, Served
<1>11. Owned'
  BY <1>1, <1>2, <1>6 DEF Owned, CreationOK, RuntimeOK, Nil
<1>12. RowsKept'
  BY <1>1 DEF RowsKept
<1> QED
  BY <1>7, <1>8, <1>9, <1>10, <1>11, <1>12 DEF IInv

\* The next host-service has the rows, and no adapter survives the last one.
LEMMA CrashKeepsIInv ==
  ASSUME IInv, Crash
  PROVE  IInv'
<1>1. /\ crashes < MaxCrashes /\ crashes' = crashes + 1
      /\ phase' = "serving"
      /\ runtimes' = [s \in Sessions |-> 0]
      /\ graveyard' = <<>>
      /\ creations' = [s \in Sessions |-> Nil]
      /\ offline' = rows
      /\ forgotten' = {}
      /\ adapters' = [a \in Sids |-> [adapters[a] EXCEPT !.killed = TRUE]]
      /\ rows' = rows
  BY DEF Crash
<1>2. \A b \in Sids : /\ adapters'[b] \in Adapter
                      /\ adapters'[b].session = adapters[b].session
                      /\ adapters'[b].transcript = adapters[b].transcript
                      /\ adapters'[b].killed
  <2> SUFFICES ASSUME NEW b \in Sids
               PROVE  /\ adapters'[b] \in Adapter
                      /\ adapters'[b].session = adapters[b].session
                      /\ adapters'[b].transcript = adapters[b].transcript
                      /\ adapters'[b].killed
    OBVIOUS
  <2>1. adapters[b] \in Adapter
    BY AdapterTypes DEF IInv
  <2>2. adapters'[b] = [adapters[b] EXCEPT !.killed = TRUE]
    BY <1>1
  <2> QED
    BY <2>1, <2>2 DEF Adapter
<1>3. SameAdapters
  <2>1. DOMAIN adapters' = Sids /\ adapters' = [b \in Sids |-> adapters'[b]]
    BY <1>1
  <2>2. adapters' \in [Sids -> Adapter]
    BY <1>2, <2>1
  <2> QED
    BY <1>2, <2>2 DEF SameAdapters
<1>4. adapters' \in Seq(Adapter) /\ Len(adapters') = Len(adapters) /\ Sids' = Sids
  BY <1>3, MarkingKeepsTypes DEF IInv
<1>5. /\ Nil \in Slot /\ Nil.adapter = 0 /\ Nil.resume = 0
      /\ \A s \in Sessions : runtimes'[s] = 0 /\ creations'[s] = Nil /\ offline'[s] = rows[s]
  BY <1>1 DEF Nil, Slot
<1>6. Types'
  <2>1. graveyard' \in Seq(Sessions) /\ IsInjective(graveyard')
    BY <1>1 DEF IsInjective
  <2>2. /\ runtimes' \in [Sessions -> Nat] /\ offline' \in [Sessions -> Nat]
        /\ creations' \in [Sessions -> Slot]
    BY <1>1, <1>5 DEF IInv, Types
  <2>3. crashes' \in 0..MaxCrashes
    BY <1>1, RegistryAssumption DEF IInv, Types
  <2>4. rows' \in [Sessions -> Nat] /\ forgotten' \subseteq Sessions
    BY <1>1 DEF IInv, Types
  <2> QED
    BY <1>1, <1>4, <2>1, <2>2, <2>3, <2>4 DEF Types
<1>7. Spawned'
  <2>1. ASSUME NEW s \in Sessions
        PROVE  rows[s] \in 0..Len(adapters) /\ Len(adapters) \in Nat
    BY SessionTypes DEF IInv
  <2>2. ASSUME NEW a \in Sids PROVE adapters'[a].transcript <= Len(adapters)
    BY <1>2 DEF IInv, Spawned
  <2>3. ASSUME NEW s \in Sessions
        PROVE  /\ runtimes'[s] <= Len(adapters) /\ offline'[s] <= Len(adapters)
               /\ rows'[s] <= Len(adapters) /\ creations'[s].resume <= Len(adapters)
               /\ creations'[s].adapter \in -1..Len(adapters)
    BY <1>1, <1>5, <2>1
  <2> QED
    BY <1>4, <2>2, <2>3 DEF Spawned
<1>8. Buried'
  BY <1>1 DEF Buried, ToSet
<1>9. Served'
  BY <1>2, <1>4 DEF Served
<1>10. Owned'
  BY <1>5 DEF Owned, CreationOK, RuntimeOK
<1>11. RowsKept'
  BY <1>1, <1>5 DEF RowsKept
<1> QED
  BY <1>6, <1>7, <1>8, <1>9, <1>10, <1>11 DEF IInv

-----------------------------------------------------------------------------
\* No step breaks the invariant, and none changes the transcript of a row.
LEMMA StepIInv ==
  ASSUME IInv, [Next]_vars
  PROVE  /\ IInv'
         /\ \A s \in Sessions : rows[s] # 0 /\ s \notin forgotten => rows'[s] = rows[s]
<1> DEFINE RowsStay == \A s \in Sessions :
                      rows[s] # 0 /\ s \notin forgotten => rows'[s] = rows[s]
<1>1. ASSUME NEW s \in Sessions, Create(s) \/ EnsureLive(s) PROVE IInv' /\ RowsStay
  BY <1>1, RequestKeepsIInv DEF Create, EnsureLive
<1>2. ASSUME NEW s \in Sessions, Spawn(s) PROVE IInv' /\ RowsStay
  BY <1>2, SpawnKeepsIInv DEF Spawn
<1>3. ASSUME NEW s \in Sessions, Register(s) PROVE IInv' /\ RowsStay
  BY <1>3, RegisterKeepsIInv
<1>4. ASSUME NEW s \in Sessions, CreationFails(s) PROVE IInv' /\ RowsStay
  BY <1>4, FailureKeepsIInv DEF CreationFails
<1>5. ASSUME NEW s \in Sessions, MarkDead(s) PROVE IInv' /\ RowsStay
  BY <1>5, DeathKeepsIInv
<1>6. ASSUME NEW a \in Sids, AdapterReady(a) \/ ConnectionCloses(a) \/ AdapterExits(a) PROVE IInv' /\ RowsStay
  BY <1>6, AdapterStepKeepsIInv DEF AdapterReady, ConnectionCloses, AdapterExits
<1>7. ASSUME NEW a \in Sids, EmitsLate(a) PROVE IInv' /\ RowsStay
  BY <1>7, LateKeepsIInv
<1>8. ASSUME Dispose PROVE IInv' /\ RowsStay
  BY <1>8, DisposeKeepsIInv DEF Dispose
<1>9. ASSUME DisposeKills PROVE IInv' /\ RowsStay
  BY <1>9, DisposeKillsKeepsIInv DEF DisposeKills
<1>10. ASSUME Crash PROVE IInv' /\ RowsStay
  BY <1>10, CrashKeepsIInv DEF Crash
<1>11. ASSUME UNCHANGED vars PROVE IInv' /\ RowsStay
  <2>1. Types' /\ Spawned' /\ Buried' /\ Served' /\ RowsKept'
    BY <1>11 DEF IInv, vars, memory, Types, Spawned, Buried, Served, RowsKept, Sids, Running
  <2>2. Owned'
    BY <1>11 DEF IInv, vars, memory, Owned, CreationOK, RuntimeOK
  <2> QED
    BY <1>11, <2>1, <2>2 DEF IInv, vars
<1> HIDE DEF RowsStay
<1>12. IInv' /\ RowsStay
  <2>1. ASSUME NEW s \in Sessions,
               Create(s) \/ EnsureLive(s) \/ CreationStep(s) \/ MarkDead(s)
        PROVE  IInv' /\ RowsStay
    <3>1. CASE CreationStep(s)
      BY <3>1, <1>2, <1>3, <1>4 DEF CreationStep
    <3> QED
      BY <2>1, <3>1, <1>1, <1>5
  <2>2. ASSUME NEW a \in Sids, AdapterReady(a) \/ ConnectionCloses(a) \/ AdapterExits(a) \/ EmitsLate(a)
        PROVE  IInv' /\ RowsStay
    BY <2>2, <1>6, <1>7
  <2> QED
    BY <2>1, <2>2, <1>8, <1>9, <1>10, <1>11 DEF Next
<1> QED
  BY <1>12 DEF RowsStay

LEMMA Inductive == Spec => []IInv
<1>1. IInv /\ [Next]_vars => IInv'
  BY StepIInv
<1> QED
  BY <1>1, InitIInv, PTL DEF Spec

-----------------------------------------------------------------------------
\* Every variable keeps its type, whatever the bounds.
THEOREM TypeCorrect == Spec => []TypeOK
<1>1. ASSUME IInv PROVE TypeOK
  <2>1. \A s \in Sessions : /\ runtimes[s] \in 0..Len(adapters)
                            /\ offline[s] \in 0..Len(adapters)
                            /\ rows[s] \in 0..Len(adapters)
                            /\ creations[s] \in [adapter : -1..Len(adapters),
                                                 resume : 0..Len(adapters), awaited : BOOLEAN]
    <3> SUFFICES ASSUME NEW s \in Sessions
                 PROVE  /\ runtimes[s] \in 0..Len(adapters)
                        /\ offline[s] \in 0..Len(adapters)
                        /\ rows[s] \in 0..Len(adapters)
                        /\ creations[s] \in [adapter : -1..Len(adapters),
                                             resume : 0..Len(adapters), awaited : BOOLEAN]
      OBVIOUS
    <3> QED
      BY <1>1, SessionTypes DEF IInv, Slot
  <2>2. /\ runtimes \in [Sessions -> 0..Len(adapters)]
        /\ offline \in [Sessions -> 0..Len(adapters)]
        /\ rows \in [Sessions -> 0..Len(adapters)]
        /\ creations \in [Sessions -> [adapter : -1..Len(adapters),
                                       resume : 0..Len(adapters), awaited : BOOLEAN]]
    BY <1>1, <2>1 DEF IInv, Types
  <2>3. ToSet(graveyard) \subseteq {s \in Sessions : runtimes[s] # 0}
    <3>1. ToSet(graveyard) \subseteq Sessions
      BY <1>1 DEF IInv, Types, ToSet
    <3> QED
      BY <1>1, <3>1 DEF IInv, Buried
  <2> DEFINE Bounded == [session : Sessions, alive : BOOLEAN, killed : BOOLEAN, mute : BOOLEAN,
                         state : {"starting", "ready", "stillborn", "dead"},
                         transcript : 1..Len(adapters)]
  <2>4. adapters \in Seq(Bounded)
    <3>1. /\ adapters \in Seq(Adapter) /\ Len(adapters) \in Nat
          /\ DOMAIN adapters = 1..Len(adapters)
      BY <1>1 DEF IInv, Types
    <3>2. ASSUME NEW a \in 1..Len(adapters) PROVE adapters[a] \in Bounded
      <4>1. adapters[a] \in Adapter
        BY <3>1
      <4>2. adapters[a].transcript \in 1..Len(adapters)
        BY <1>1, <3>1, <4>1 DEF IInv, Spawned, Sids, Adapter
      <4> QED
        BY <4>1, <4>2 DEF Adapter
    <3> HIDE DEF Bounded
    <3>3. adapters \in [1..Len(adapters) -> Bounded]
      BY <3>1, <3>2
    <3> QED
      BY <3>1, <3>3, IsASeq
  <2> QED
    BY <1>1, <2>2, <2>3, <2>4 DEF IInv, Types, TypeOK
<1> QED
  BY <1>1, Inductive, PTL

\* The host has an open connection to one adapter of a session at most, whatever requests, failures, deaths,
\* evictions, disposals and crashes there are, and in whatever order.
THEOREM OneAdapter == Spec => []OneAdapterPerSession
<1>1. ASSUME IInv PROVE OneAdapterPerSession
  <2> SUFFICES ASSUME NEW s \in Sessions
               PROVE  Cardinality({a \in Sids : /\ adapters[a].session = s
                                                /\ Running(a) /\ ~adapters[a].killed}) <= 1
    BY DEF OneAdapterPerSession
  <2> DEFINE live == {a \in Sids : /\ adapters[a].session = s
                                   /\ Running(a) /\ ~adapters[a].killed}
  <2>1. \A a \in live : creations[s].adapter = a \/ runtimes[s] = a
    BY <1>1 DEF IInv, Served, Running
  <2>2. \A a \in live : a \in Nat \ {0}
    BY <1>1, AdapterTypes DEF IInv
  <2>3. creations[s].adapter = 0 \/ runtimes[s] = 0
    BY <1>1 DEF IInv, Owned, CreationOK, Nil
  <2>4. \A a, b \in live : a = b
    BY <2>1, <2>2, <2>3
  <2> HIDE DEF live
  <2>5. live = {} => Cardinality(live) = 0
    BY FS_EmptySet
  <2>6. live # {} => Cardinality(live) = 1
    <3> SUFFICES ASSUME live # {} PROVE Cardinality(live) = 1
      OBVIOUS
    <3>1. PICK a \in live : live = {a}
      BY <2>4
    <3> QED
      BY <3>1, FS_Singleton
  <2>7. Cardinality(live) <= 1
    BY <2>5, <2>6
  <2> QED
    BY <2>7 DEF live
<1> QED
  BY <1>1, Inductive, PTL

\* No persisted session gets lost in memory, and none is served from a transcript
\* that is not its row's.
THEOREM SessionsKept == Spec => []SessionsAreKept
<1>1. ASSUME IInv PROVE SessionsAreKept
  <2> SUFFICES ASSUME NEW s \in Sessions, phase = "serving", rows[s] # 0, s \notin forgotten
               PROVE  IF runtimes[s] # 0
                      THEN offline[s] = 0 /\ adapters[runtimes[s]].transcript = rows[s]
                      ELSE offline[s] = rows[s]
    BY DEF SessionsAreKept
  <2>1. RuntimeOK(s)
    BY <1>1 DEF IInv, Owned
  <2> QED
    BY <1>1, <2>1 DEF IInv, RowsKept, RuntimeOK
<1> QED
  BY <1>1, Inductive, PTL

\* The transcript of a row never changes before its session is evicted.
THEOREM TranscriptKept == Spec => TranscriptIsKept
<1>1. IInv /\ [Next]_vars =>
        (\A s \in Sessions : rows[s] # 0 /\ s \notin forgotten => rows'[s] = rows[s])
  BY StepIInv
<1> QED
  BY <1>1, Inductive, PTL DEF Spec, TranscriptIsKept

\* A disposed host-service has left no adapter alive that it has not killed, but for
\* those that closed their connection and whose session was evicted before.
THEOREM DisposeLeavesNone == Spec => []DisposeLeavesNoAdapter
<1>1. ASSUME IInv PROVE DisposeLeavesNoAdapter
  <2> SUFFICES ASSUME phase = "disposed", NEW a \in Sids,
                      adapters[a].alive, ~adapters[a].killed
               PROVE  ~Running(a) /\ adapters[a].session \in forgotten
    BY DEF DisposeLeavesNoAdapter
  <2>1. a \in Nat \ {0} /\ adapters[a].session \in Sessions
    BY <1>1, AdapterTypes DEF IInv
  <2>2. creations[adapters[a].session] = Nil /\ runtimes[adapters[a].session] = 0
    BY <1>1, <2>1 DEF IInv, Owned, CreationOK, RuntimeOK
  <2>3. adapters[a].session \in forgotten /\ adapters[a].state = "dead"
    BY <1>1, <2>1, <2>2 DEF IInv, Served, Nil
  <2> QED
    BY <2>3 DEF Running
<1> QED
  BY <1>1, Inductive, PTL
=============================================================================
