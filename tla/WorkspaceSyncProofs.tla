------------------------- MODULE WorkspaceSyncProofs -------------------------
(***************************************************************************)
(* Proofs about WorkspaceSync, for any workspaces, names, faults and       *)
(* bounds.                                                                 *)
(*                                                                         *)
(* Deletion: of whatever is left of a deletion, a tombstone or a call, the *)
(* row is gone for good; a saga past the worktree's removal has removed it,*)
(* if the project is known; and once the tombstone has been replayed the   *)
(* cloud does not have the workspace (Erased).                             *)
(* Names: of a row that is dirty and the cloud's, the one written later    *)
(* says what was wished; of a row that is synced the cloud's does, and a   *)
(* push of that row that is still under way has nothing to say against it  *)
(* (Named).  Both rest on what a call knows while the rows change under it *)
(* (CallOK).                                                               *)
(***************************************************************************)
EXTENDS WorkspaceSync, TLAPS

CloudRow == [name : Names, at : Nat]
LocalRow == [name : Names, at : Nat, synced : BOOLEAN]

Push == [kind : {"push"}, owner : {"user", "pass"}, id : Ids, pushed : LocalRow,
         at : {"asked", "confirmed", "renaming", "renamed"}, answer : CloudRow \cup {Nil}]

Delete == [kind : {"delete"}, owner : {"destroy", "pass"}, id : Ids, pushed : {Nil},
           at : {"asked", "deleted"}, answer : {Nil}]

Types ==
  /\ rows \in [Ids -> LocalRow \cup {Nil}]
  /\ cloud \in [Ids -> CloudRow \cup {Nil}]
  /\ trees \in [Ids -> {"none", "present", "gone"}]
  /\ destroys \in [Ids -> {"none", "removing", "deleting"}]
  /\ calls \subseteq Push \cup Delete
  /\ pass \in [stage : {"idle", "deletes", "creates"}, tombs : SUBSET Ids,
               rows : SUBSET [id : Ids, row : LocalRow]]
  /\ tombs \subseteq Ids
  /\ late \subseteq Ids
  /\ wish \in [Ids -> Names \cup {Nil}]
  /\ clock \in Nat

\* Every row was written at a time of its own.
Timed(id) ==
  /\ rows[id] # Nil => rows[id].at <= clock
  /\ cloud[id] # Nil => cloudProject /\ cloud[id].at <= clock

\* A row that is pushed is the one of the table, or an older one.
Pushable(id, row) ==
  /\ trees[id] # "none"
  /\ row.at <= clock
  /\ rows[id] # Nil /\ row.at = rows[id].at => row.name = rows[id].name

\* What a call knows of the cloud: its answer, or the cloud's row was written
\* after the one that is pushed.
CallOK(id, c) ==
  /\ Pushable(id, c.pushed)
  /\ c.at \in {"confirmed", "renaming"} =>
       /\ c.answer # Nil
       /\ rows[id] # Nil /\ cloudProject =>
            /\ cloud[id] # Nil
            /\ cloud[id] = c.answer \/ cloud[id].at > c.pushed.at
  /\ c.at = "renaming" =>
       c.answer.name # c.pushed.name /\ c.answer.at <= c.pushed.at
  /\ c.at = "renamed" /\ rows[id] # Nil /\ cloudProject =>
       cloud[id] # Nil /\ cloud[id].at > c.pushed.at

PushesOf(id) == {c \in calls : c.kind = "push" /\ c.id = id}
DeletesOf(id) == {c \in calls : c.kind = "delete" /\ c.id = id}
Listed(id) == {e \in pass.rows : e.id = id}

Pushing(id) ==
  /\ \A c \in PushesOf(id) : CallOK(id, c)
  /\ \A e \in Listed(id) : Pushable(id, e.row)

Gone(id) == trees[id] # "none" /\ rows[id] = Nil

Known == project = "known" /\ cloudProject

\* What is left of a deletion is left of one that is committed.
Deletion(id) ==
  /\ trees[id] = "none" => rows[id] = Nil
  /\ Known /\ trees[id] = "present" => rows[id] # Nil
  /\ destroys[id] # "none" => trees[id] # "none"
  /\ Known /\ destroys[id] = "deleting" => trees[id] = "gone"
  /\ id \in tombs \cup pass.tombs \/ DeletesOf(id) # {} => Gone(id)

Replayed(id) == id \notin tombs \/ \E c \in DeletesOf(id) : c.at = "deleted"

Erased(id) == Gone(id) /\ Replayed(id) /\ id \notin late \cup torn => cloud[id] = Nil

\* A push of the row that was written then is under way, or will be.
Pending(id, time) ==
  \/ \E c \in PushesOf(id) : c.pushed.at = time
  \/ \E e \in Listed(id) : e.row.at = time

CloudIsNewer(id) == cloud[id] # Nil /\ cloud[id].at > rows[id].at

Named(id) ==
  rows[id] # Nil /\ cloudProject /\ id \notin late =>
    /\ rows[id].synced =>
         /\ cloud[id] # Nil
         /\ cloud[id].name = wish[id]
         /\ Pending(id, rows[id].at) =>
              cloud[id].name = rows[id].name \/ CloudIsNewer(id)
    /\ ~rows[id].synced =>
         wish[id] = IF CloudIsNewer(id) THEN cloud[id].name ELSE rows[id].name

Holds(id) == Timed(id) /\ Pushing(id) /\ Deletion(id) /\ Erased(id) /\ Named(id)

IInv == Types /\ \A id \in Ids : Holds(id)

-----------------------------------------------------------------------------
\* Rows and calls.

LEMMA LocalFacts ==
  ASSUME NEW name \in Names, NEW time \in Nat, NEW synced \in BOOLEAN
  PROVE  LET r == Local(Row(name, time), synced)
         IN  r \in LocalRow /\ r # Nil /\ r.name = name /\ r.at = time /\ r.synced = synced
BY SyncAssumption DEF Local, Row, LocalRow

LEMMA RowFacts ==
  ASSUME NEW name \in Names, NEW time \in Nat
  PROVE  LET r == Row(name, time)
         IN  r \in CloudRow /\ r # Nil /\ r.name = name /\ r.at = time
BY SyncAssumption DEF Row, CloudRow

LEMMA TableFacts ==
  ASSUME Types, NEW id \in Ids
  PROVE  /\ rows[id] # Nil => /\ rows[id] \in LocalRow
                              /\ rows[id].at \in Nat
                              /\ rows[id].name \in Names
                              /\ rows[id].synced \in BOOLEAN
         /\ cloud[id] # Nil => /\ cloud[id] \in CloudRow
                               /\ cloud[id].at \in Nat
                               /\ cloud[id].name \in Names
BY DEF Types, LocalRow, CloudRow

LEMMA CallFacts ==
  ASSUME NEW c \in Push \cup Delete
  PROVE  /\ c.id \in Ids
         /\ c.kind \in {"push", "delete"}
         /\ c.kind = "push" => /\ c \in Push
                               /\ c.pushed \in LocalRow /\ c.pushed.at \in Nat
                               /\ c.pushed.name \in Names
                               /\ c.at # "deleted"
                               /\ c.answer # Nil => /\ c.answer \in CloudRow
                                                    /\ c.answer.at \in Nat
                                                    /\ c.answer.name \in Names
         /\ c.kind = "delete" => c \in Delete /\ c.at \in {"asked", "deleted"}
BY DEF Push, Delete, LocalRow, CloudRow

LEMMA MovedPush ==
  ASSUME NEW c \in Push, NEW at \in {"asked", "confirmed", "renaming", "renamed"},
         NEW answer \in CloudRow \cup {Nil}, Moves(c, at, answer)
  PROVE  \E m \in Push : /\ calls' = (calls \ {c}) \cup {m}
                         /\ m.kind = "push" /\ m.id = c.id /\ m.pushed = c.pushed
                         /\ m.at = at /\ m.answer = answer
<1> DEFINE m == [c EXCEPT !.at = at, !.answer = answer]
<1>1. calls' = (calls \ {c}) \cup {m}
  BY DEF Moves
<1>2. /\ m \in Push /\ m.kind = "push" /\ m.id = c.id /\ m.pushed = c.pushed
      /\ m.at = at /\ m.answer = answer
  BY DEF Push
<1> HIDE DEF m
<1> QED
  BY <1>1, <1>2

LEMMA MovedDelete ==
  ASSUME NEW c \in Delete, Moves(c, "deleted", Nil)
  PROVE  \E m \in Delete : /\ calls' = (calls \ {c}) \cup {m}
                           /\ m.kind = "delete" /\ m.id = c.id /\ m.at = "deleted"
<1> DEFINE m == [c EXCEPT !.at = "deleted", !.answer = Nil]
<1>1. calls' = (calls \ {c}) \cup {m}
  BY DEF Moves
<1>2. m \in Delete /\ m.kind = "delete" /\ m.id = c.id /\ m.at = "deleted"
  BY DEF Delete
<1> HIDE DEF m
<1> QED
  BY <1>1, <1>2

\* A push that starts knows nothing but its row.
LEMMA StartedPush ==
  ASSUME NEW owner \in {"user", "pass"}, NEW id \in Ids, NEW row \in LocalRow,
         Starts("push", owner, id, row)
  PROVE  \E c \in Push : /\ calls' = calls \cup {c}
                         /\ c.kind = "push" /\ c.id = id /\ c.pushed = row
                         /\ c.at = "asked"
<1> DEFINE c == [kind |-> "push", owner |-> owner, id |-> id, pushed |-> row,
                 at |-> "asked", answer |-> Nil]
<1>1. calls' = calls \cup {c}
  BY DEF Starts
<1>2. c \in Push /\ c.kind = "push" /\ c.id = id /\ c.pushed = row /\ c.at = "asked"
  BY DEF Push
<1> HIDE DEF c
<1> QED
  BY <1>1, <1>2

LEMMA StartedDelete ==
  ASSUME NEW owner \in {"destroy", "pass"}, NEW id \in Ids,
         Starts("delete", owner, id, Nil)
  PROVE  \E c \in Delete : /\ calls' = calls \cup {c}
                           /\ c.kind = "delete" /\ c.id = id /\ c.at = "asked"
<1> DEFINE c == [kind |-> "delete", owner |-> owner, id |-> id, pushed |-> Nil,
                 at |-> "asked", answer |-> Nil]
<1>1. calls' = calls \cup {c}
  BY DEF Starts
<1>2. c \in Delete /\ c.kind = "delete" /\ c.id = id /\ c.at = "asked"
  BY DEF Delete
<1> HIDE DEF c
<1> QED
  BY <1>1, <1>2

-----------------------------------------------------------------------------
\* The steps.

LEMMA InitHolds == Init => IInv
<1> SUFFICES ASSUME Init PROVE IInv
  OBVIOUS
<1>1. Types
  BY DEF Init, Types, Idle
<1>2. \A id \in Ids : Holds(id)
  BY DEF Init, Holds, Timed, Pushing, Deletion, Known, Erased, Named, Idle, PushesOf, DeletesOf,
         Listed, Gone, Replayed
<1> QED
  BY <1>1, <1>2 DEF IInv

\* What a step that is about another workspace does to this one, or nothing that
\* matters: calls and lists lose something, a saga begins or is given up.
Aside(id) ==
  /\ rows'[id] = rows[id] /\ cloud'[id] = cloud[id]
  /\ trees'[id] = trees[id] /\ wish'[id] = wish[id]
  /\ \/ destroys'[id] \in {"none", destroys[id]}
     \/ destroys'[id] = "removing" /\ trees[id] # "none"
     \/ destroys'[id] = "deleting" /\ (Known => trees[id] = "gone") /\ trees[id] # "none"
  /\ UNCHANGED <<project, cloudProject, torn>>
  /\ id \in tombs' <=> id \in tombs
  /\ id \in pass'.tombs => id \in tombs \cup pass.tombs
  /\ id \in late => id \in late'
  /\ clock' \in Nat /\ clock <= clock'
  /\ PushesOf(id)' \subseteq PushesOf(id)
  /\ DeletesOf(id)' \subseteq DeletesOf(id)
  /\ Listed(id)' \subseteq Listed(id)

LEMMA AsideHolds ==
  ASSUME Types, NEW id \in Ids, Holds(id), Aside(id)
  PROVE  Holds(id)'
<1>1. /\ rows[id] # Nil => rows[id].at \in Nat
      /\ cloud[id] # Nil => cloud[id].at \in Nat
      /\ clock \in Nat
  BY TableFacts DEF Types
<1>2. Timed(id)'
  BY <1>1 DEF Holds, Aside, Known, Timed
<1>3. /\ \A c \in PushesOf(id) : c.pushed.at \in Nat
      /\ \A e \in Listed(id) : e.row.at \in Nat
  BY CallFacts DEF Types, PushesOf, Listed, LocalRow
<1>4. Pushing(id)'
  <2>1. \A c \in PushesOf(id) : CallOK(id, c)'
    BY <1>1, <1>3 DEF Holds, Aside, Known, Pushing, CallOK, Pushable
  <2>2. \A e \in Listed(id) : Pushable(id, e.row)'
    BY <1>1, <1>3 DEF Holds, Aside, Known, Pushing, Pushable
  <2> QED
    BY <2>1, <2>2 DEF Aside, Known, Pushing
<1>5. Deletion(id)'
  BY DEF Holds, Aside, Deletion, Known, Gone
<1>6. Erased(id)'
  <2>1. Replayed(id)' => Replayed(id)
    BY DEF Aside, Known, Replayed
  <2> QED
    BY <2>1 DEF Holds, Aside, Known, Erased, Gone
<1>7. Named(id)'
  <2>1. Pending(id, rows[id].at)' => Pending(id, rows[id].at)
    BY DEF Aside, Known, Pending
  <2>2. CloudIsNewer(id)' <=> CloudIsNewer(id)
    BY DEF Aside, Known, CloudIsNewer
  <2> QED
    BY <2>1, <2>2 DEF Holds, Aside, Known, Named
<1> QED
  BY <1>2, <1>4, <1>5, <1>6, <1>7 DEF Holds

LEMMA CallStarts ==
  ASSUME NEW c, calls' = calls \cup {c}
  PROVE  \A i \in Ids :
           /\ PushesOf(i)' =
                PushesOf(i) \cup (IF c.kind = "push" /\ c.id = i THEN {c} ELSE {})
           /\ DeletesOf(i)' =
                DeletesOf(i) \cup (IF c.kind = "delete" /\ c.id = i THEN {c} ELSE {})
BY DEF PushesOf, DeletesOf

LEMMA CallMoves ==
  ASSUME NEW c \in calls, NEW m, calls' = (calls \ {c}) \cup {m},
         m.kind = c.kind, m.id = c.id
  PROVE  \A i \in Ids :
           /\ PushesOf(i)' \subseteq
                PushesOf(i) \cup (IF c.kind = "push" /\ c.id = i THEN {m} ELSE {})
           /\ DeletesOf(i)' \subseteq
                DeletesOf(i) \cup (IF c.kind = "delete" /\ c.id = i THEN {m} ELSE {})
BY DEF PushesOf, DeletesOf

LEMMA CallEnds ==
  ASSUME calls' \subseteq calls
  PROVE  \A i \in Ids :
           /\ PushesOf(i)' \subseteq PushesOf(i)
           /\ DeletesOf(i)' \subseteq DeletesOf(i)
BY DEF PushesOf, DeletesOf

\* The reconciler keeps what it has still to do.
LEMMA ListedSame ==
  ASSUME pass'.rows \subseteq pass.rows
  PROVE  \A i \in Ids : Listed(i)' \subseteq Listed(i)
BY DEF Listed

LEMMA CreateStep ==
  ASSUME IInv, NEW id \in Ids, Create(id)
  PROVE  IInv'
<1>1. /\ trees[id] = "none" /\ clock' = clock + 1
      /\ trees' = [trees EXCEPT ![id] = "present"]
      /\ rows' = [rows EXCEPT ![id] = Local(Row(First, clock'), FALSE)]
      /\ wish' = [wish EXCEPT ![id] = First]
      /\ UNCHANGED <<tombs, cloud, destroys, pass, late,
                 project, cloudProject, torn>>
  BY DEF Create, UserActs, Writes, projects
<1>2. Types /\ Holds(id) /\ clock \in Nat /\ clock' \in Nat
  BY <1>1 DEF IInv, Types
<1> DEFINE row == Local(Row(First, clock'), FALSE)
<1>3. row \in LocalRow /\ row # Nil /\ row.name = First /\ row.at = clock' /\ row.synced = FALSE
  <2>1. First \in Names /\ FALSE \in BOOLEAN
    BY SyncAssumption
  <2> QED
    BY <1>2, <2>1, LocalFacts
<1>4. rows' = [rows EXCEPT ![id] = row]
  BY <1>1
<1> HIDE DEF row
<1>5. /\ rows'[id] = row /\ trees'[id] = "present" /\ wish'[id] = First
      /\ \A i \in Ids : i # id =>
           rows'[i] = rows[i] /\ trees'[i] = trees[i] /\ wish'[i] = wish[i]
  BY <1>1, <1>2, <1>4 DEF Types
<1>6. PICK c \in Push : /\ calls' = calls \cup {c}
                        /\ c.kind = "push" /\ c.id = id /\ c.pushed = row /\ c.at = "asked"
  <2>1. Starts("push", "user", id, row)
    BY <1>5 DEF Create
  <2>2. "user" \in {"user", "pass"}
    OBVIOUS
  <2> QED
    BY <1>3, <2>1, <2>2, StartedPush
<1>7. Types'
  <2>1. rows' \in [Ids -> LocalRow \cup {Nil}]
    BY <1>2, <1>3, <1>4 DEF Types
  <2>2. trees' \in [Ids -> {"none", "present", "gone"}]
    BY <1>1, <1>2 DEF Types
  <2>3. wish' \in [Ids -> Names \cup {Nil}]
    BY <1>1, <1>2, SyncAssumption DEF Types
  <2>4. calls' \subseteq Push \cup Delete
    BY <1>2, <1>6 DEF Types
  <2> QED
    BY <1>1, <1>2, <2>1, <2>2, <2>3, <2>4 DEF Types
<1>8. ASSUME NEW i \in Ids, i # id
      PROVE  Holds(i)'
  <2>1. /\ PushesOf(i)' \subseteq PushesOf(i) /\ DeletesOf(i)' \subseteq DeletesOf(i)
        /\ Listed(i)' \subseteq Listed(i)
    BY <1>1, <1>6, <1>8, CallStarts, ListedSame
  <2>2. Aside(i)
    BY <1>1, <1>2, <1>5, <1>8, <2>1 DEF Aside, Known
  <2> QED
    BY <1>2, <2>2, AsideHolds DEF IInv
<1>9. Holds(id)'
  <2>1. /\ Timed(id) /\ Pushing(id) /\ Deletion(id)
        /\ cloud'[id] = cloud[id] /\ destroys'[id] = destroys[id]
        /\ cloud[id] # Nil => cloud[id].at \in Nat /\ cloud[id].at < clock'
    <3>1. cloud[id] # Nil => cloud[id].at \in Nat /\ cloud[id].at <= clock
      BY <1>2, TableFacts DEF Holds, Timed
    <3>2. clock \in Nat /\ clock' = clock + 1
      BY <1>1, <1>2
    <3> QED
      BY <1>1, <1>2, <3>1, <3>2 DEF Holds
  <2>2. PushesOf(id) = {} /\ Listed(id) = {} /\ rows[id] = Nil
    BY <1>1, <2>1 DEF Pushing, CallOK, Pushable, Deletion, Known
  <2>3. DeletesOf(id) = {} /\ id \notin tombs \cup pass.tombs
    BY <1>1, <2>1 DEF Deletion, Known, Gone
  <2>4. PushesOf(id)' = {c} /\ DeletesOf(id)' = {} /\ Listed(id)' = {}
    BY <1>1, <1>6, <2>2, <2>3, CallStarts, ListedSame
  <2>5. Timed(id)'
    <3>1. cloud'[id] # Nil => cloudProject'
      BY <1>1, <2>1, Zenon DEF Timed
    <3> QED
      BY <1>2, <1>3, <1>5, <2>1, <3>1 DEF Timed
  <2>6. Pushing(id)'
    BY <1>2, <1>3, <1>5, <1>6, <2>4 DEF Pushing, CallOK, Pushable
  <2>7. Deletion(id)'
    BY <1>1, <1>3, <1>5, <2>1, <2>3, <2>4 DEF Deletion, Known, Gone
  <2>8. Erased(id)'
    BY <1>3, <1>5 DEF Erased, Gone
  <2>9. ~CloudIsNewer(id)'
    BY <1>2, <1>3, <1>5, <2>1 DEF CloudIsNewer
  <2>10. Named(id)'
    BY <1>3, <1>5, <2>9 DEF Named
  <2> QED
    BY <2>5, <2>6, <2>7, <2>8, <2>10 DEF Holds
<1> QED
  BY <1>7, <1>8, <1>9 DEF IInv

\* A row that is written is newer than any that is pushed.
LEMMA RowIsWritten ==
  ASSUME Types, NEW id \in Ids, Pushing(id), trees[id] # "none",
         rows[id] # Nil, rows'[id] # Nil, rows'[id].at = clock', clock' = clock + 1,
         trees'[id] = trees[id], cloud'[id] = cloud[id], cloudProject' = cloudProject
  PROVE  /\ \A c \in PushesOf(id) : CallOK(id, c)' /\ c.pushed.at < clock'
         /\ \A e \in Listed(id) : Pushable(id, e.row)' /\ e.row.at < clock'
<1>1. clock \in Nat
  BY DEF Types
<1>2. ASSUME NEW r \in LocalRow, Pushable(id, r)
      PROVE  Pushable(id, r)' /\ r.at < clock'
  <2>1. r.at \in Nat /\ r.at <= clock
    BY <1>2 DEF LocalRow, Pushable
  <2>2. r.at < clock' /\ r.at <= clock' /\ r.at # clock'
    BY <1>1, <2>1
  <2> QED
    BY <2>2 DEF Pushable
<1>3. ASSUME NEW c \in PushesOf(id)
      PROVE  CallOK(id, c)' /\ c.pushed.at < clock'
  <2>1. CallOK(id, c) /\ c \in calls /\ c.kind = "push"
    BY DEF Pushing, PushesOf
  <2>2. c.pushed \in LocalRow
    BY <2>1, CallFacts DEF Types
  <2>3. Pushable(id, c.pushed)' /\ c.pushed.at < clock'
    BY <1>2, <2>1, <2>2 DEF CallOK
  <2> QED
    BY <2>1, <2>3 DEF CallOK
<1>4. ASSUME NEW e \in Listed(id)
      PROVE  Pushable(id, e.row)' /\ e.row.at < clock'
  <2>1. e.row \in LocalRow /\ Pushable(id, e.row)
    BY DEF Types, Pushing, Listed
  <2> QED
    BY <1>2, <2>1
<1> QED
  BY <1>3, <1>4

LEMMA UpdateStep ==
  ASSUME IInv, NEW id \in Ids, NEW name \in Names, Update(id, name)
  PROVE  IInv'
<1>1. /\ rows[id] # Nil /\ clock' = clock + 1
      /\ rows' = [rows EXCEPT ![id] = Local(Row(name, clock'), FALSE)]
      /\ wish' = [wish EXCEPT ![id] = name]
      /\ UNCHANGED <<trees, tombs, cloud, destroys, pass, late,
                 project, cloudProject, torn>>
  BY DEF Update, UserActs, Writes, projects
<1>2. Types /\ Holds(id) /\ clock \in Nat /\ clock' \in Nat
  BY <1>1 DEF IInv, Types
<1> DEFINE row == Local(Row(name, clock'), FALSE)
<1>3. row \in LocalRow /\ row # Nil /\ row.name = name /\ row.at = clock' /\ row.synced = FALSE
  <2>1. FALSE \in BOOLEAN
    OBVIOUS
  <2> QED
    BY <1>2, <2>1, LocalFacts
<1>4. rows' = [rows EXCEPT ![id] = row]
  BY <1>1
<1> HIDE DEF row
<1>5. /\ rows'[id] = row /\ wish'[id] = name
      /\ \A i \in Ids : i # id => rows'[i] = rows[i] /\ wish'[i] = wish[i]
  BY <1>1, <1>2, <1>4 DEF Types
<1>6. PICK c \in Push : /\ calls' = calls \cup {c}
                        /\ c.kind = "push" /\ c.id = id /\ c.pushed = row /\ c.at = "asked"
  <2>1. Starts("push", "user", id, row)
    BY <1>5 DEF Update
  <2>2. "user" \in {"user", "pass"}
    OBVIOUS
  <2> QED
    BY <1>3, <2>1, <2>2, StartedPush
<1>7. Types'
  <2>1. rows' \in [Ids -> LocalRow \cup {Nil}]
    BY <1>2, <1>3, <1>4 DEF Types
  <2>2. wish' \in [Ids -> Names \cup {Nil}]
    BY <1>1, <1>2 DEF Types
  <2>3. calls' \subseteq Push \cup Delete
    BY <1>2, <1>6 DEF Types
  <2> QED
    BY <1>1, <1>2, <2>1, <2>2, <2>3 DEF Types
<1>8. ASSUME NEW i \in Ids, i # id
      PROVE  Holds(i)'
  <2>1. /\ PushesOf(i)' \subseteq PushesOf(i) /\ DeletesOf(i)' \subseteq DeletesOf(i)
        /\ Listed(i)' \subseteq Listed(i)
    BY <1>1, <1>6, <1>8, CallStarts, ListedSame
  <2>2. Aside(i)
    BY <1>1, <1>2, <1>5, <1>8, <2>1 DEF Aside, Known
  <2> QED
    BY <1>2, <2>2, AsideHolds DEF IInv
<1>9. Holds(id)'
  <2>1. /\ Timed(id) /\ Pushing(id) /\ Deletion(id)
        /\ cloud'[id] = cloud[id] /\ destroys'[id] = destroys[id] /\ trees'[id] = trees[id]
        /\ cloud[id] # Nil => cloud[id].at \in Nat /\ cloud[id].at < clock'
    <3>1. cloud[id] # Nil => cloud[id].at \in Nat /\ cloud[id].at <= clock
      BY <1>2, TableFacts DEF Holds, Timed
    <3>2. clock \in Nat /\ clock' = clock + 1
      BY <1>1, <1>2
    <3> QED
      BY <1>1, <1>2, <3>1, <3>2 DEF Holds
  <2>2. DeletesOf(id) = {} /\ id \notin tombs \cup pass.tombs /\ trees[id] # "none"
    BY <1>1, <2>1 DEF Deletion, Known, Gone
  <2>3. /\ PushesOf(id)' \subseteq PushesOf(id) \cup {c}
        /\ DeletesOf(id)' = {} /\ Listed(id)' \subseteq Listed(id)
    BY <1>1, <1>6, <2>2, CallStarts, ListedSame
  <2>4. Timed(id)'
    <3>1. cloud'[id] # Nil => cloudProject'
      BY <1>1, <2>1, Zenon DEF Timed
    <3> QED
      BY <1>2, <1>3, <1>5, <2>1, <3>1 DEF Timed
  <2>5. Pushing(id)'
    <3>1. CallOK(id, c)'
      BY <1>2, <1>3, <1>5, <1>6, <2>1, <2>2 DEF CallOK, Pushable
    <3>2. /\ \A d \in PushesOf(id) : CallOK(id, d)'
          /\ \A e \in Listed(id) : Pushable(id, e.row)'
      BY <1>1, <1>2, <1>3, <1>5, <2>1, <2>2, RowIsWritten
    <3> QED
      BY <2>3, <3>1, <3>2 DEF Pushing
  <2>6. Deletion(id)'
    BY <1>1, <1>3, <1>5, <2>1, <2>2, <2>3 DEF Deletion, Known, Gone
  <2>7. Erased(id)'
    BY <1>3, <1>5 DEF Erased, Gone
  <2>8. ~CloudIsNewer(id)'
    BY <1>2, <1>3, <1>5, <2>1 DEF CloudIsNewer
  <2>9. Named(id)'
    BY <1>3, <1>5, <2>8 DEF Named
  <2> QED
    BY <2>4, <2>5, <2>6, <2>7, <2>9 DEF Holds
<1> QED
  BY <1>7, <1>8, <1>9 DEF IInv

\* What the cloud is told next is newer than any row that is pushed.
LEMMA CloudIsWritten ==
  ASSUME Types, NEW id \in Ids, Pushing(id),
         rows'[id] = rows[id], trees'[id] = trees[id], clock' = clock + 1,
         cloud'[id] # Nil, cloud'[id].at = clock'
  PROVE  /\ \A c \in PushesOf(id) : CallOK(id, c)'
         /\ \A e \in Listed(id) : Pushable(id, e.row)'
<1>1. clock \in Nat
  BY DEF Types
<1>2. ASSUME NEW r \in LocalRow, Pushable(id, r)
      PROVE  Pushable(id, r)' /\ r.at < clock'
  <2>1. r.at \in Nat /\ r.at <= clock
    BY <1>2 DEF LocalRow, Pushable
  <2>2. r.at < clock' /\ r.at <= clock'
    BY <1>1, <2>1
  <2> QED
    BY <1>2, <2>2 DEF Pushable
<1>3. ASSUME NEW c \in PushesOf(id)
      PROVE  CallOK(id, c)'
  <2>1. CallOK(id, c) /\ c \in calls /\ c.kind = "push"
    BY DEF Pushing, PushesOf
  <2>2. c.pushed \in LocalRow
    BY <2>1, CallFacts DEF Types
  <2>3. Pushable(id, c.pushed)' /\ c.pushed.at < clock' /\ c.pushed.at \in Nat
    BY <1>2, <2>1, <2>2 DEF CallOK, LocalRow
  <2>4. cloud'[id].at > c.pushed.at
    BY <1>1, <2>3
  <2> QED
    BY <2>1, <2>3, <2>4 DEF CallOK
<1>4. ASSUME NEW e \in Listed(id)
      PROVE  Pushable(id, e.row)'
  <2>1. e.row \in LocalRow /\ Pushable(id, e.row)
    BY DEF Types, Pushing, Listed
  <2> QED
    BY <1>2, <2>1
<1> QED
  BY <1>3, <1>4

LEMMA RenameInCloudStep ==
  ASSUME IInv, NEW id \in Ids, NEW name \in Names, RenameInCloud(id, name)
  PROVE  IInv'
<1>1. /\ cloud[id] # Nil /\ clock' = clock + 1
      /\ cloud' = [cloud EXCEPT ![id] = Row(name, clock')]
      /\ wish' = [wish EXCEPT ![id] = name]
      /\ UNCHANGED <<rows, trees, tombs, calls, destroys, pass, late,
                 project, cloudProject, torn>>
  BY DEF RenameInCloud, UserActs, Writes, projects
<1>2. Types /\ Holds(id) /\ clock \in Nat /\ clock' \in Nat
  BY <1>1 DEF IInv, Types
<1> DEFINE row == Row(name, clock')
<1>3. row \in CloudRow /\ row # Nil /\ row.name = name /\ row.at = clock'
  BY <1>2, RowFacts
<1>4. cloud' = [cloud EXCEPT ![id] = row]
  BY <1>1
<1> HIDE DEF row
<1>5. /\ cloud'[id] = row /\ wish'[id] = name
      /\ \A i \in Ids : i # id => cloud'[i] = cloud[i] /\ wish'[i] = wish[i]
  BY <1>1, <1>2, <1>4 DEF Types
<1>6. \A i \in Ids : PushesOf(i)' = PushesOf(i) /\ DeletesOf(i)' = DeletesOf(i)
                     /\ Listed(i)' = Listed(i)
  BY <1>1 DEF PushesOf, DeletesOf, Listed
<1>7. Types'
  <2>1. cloud' \in [Ids -> CloudRow \cup {Nil}]
    BY <1>2, <1>3, <1>4 DEF Types
  <2>2. wish' \in [Ids -> Names \cup {Nil}]
    BY <1>1, <1>2 DEF Types
  <2> QED
    BY <1>1, <1>2, <2>1, <2>2 DEF Types
<1>8. ASSUME NEW i \in Ids, i # id
      PROVE  Holds(i)'
  <2>1. Aside(i)
    BY <1>1, <1>2, <1>5, <1>6, <1>8 DEF Aside, Known
  <2> QED
    BY <1>2, <2>1, AsideHolds DEF IInv
<1>9. Holds(id)'
  <2>1. /\ Timed(id) /\ Pushing(id) /\ Deletion(id) /\ Erased(id)
        /\ rows'[id] = rows[id]
        /\ rows[id] # Nil => rows[id].at \in Nat /\ rows[id].at < clock'
    <3>1. rows[id] # Nil => rows[id].at \in Nat /\ rows[id].at <= clock
      BY <1>2, TableFacts DEF Holds, Timed
    <3>2. clock \in Nat /\ clock' = clock + 1
      BY <1>1, <1>2
    <3> QED
      BY <1>1, <1>2, <3>1, <3>2 DEF Holds
  <2>2. Timed(id)'
    BY <1>1, <1>2, <1>3, <1>5, <2>1 DEF Timed
  <2>3. Pushing(id)'
    BY <1>1, <1>2, <1>3, <1>5, <1>6, <2>1, CloudIsWritten DEF Pushing
  <2>4. Deletion(id)'
    BY <1>1, <1>6, <2>1 DEF Deletion, Known, Gone
  <2>5. Erased(id)'
    BY <1>1, <1>6, <2>1 DEF Erased, Gone, Replayed
  <2>6. rows[id] # Nil => CloudIsNewer(id)'
    BY <1>2, <1>3, <1>5, <2>1 DEF CloudIsNewer
  <2>7. Named(id)'
    BY <1>3, <1>5, <2>1, <2>6 DEF Named
  <2> QED
    BY <2>2, <2>3, <2>4, <2>5, <2>7 DEF Holds
<1> QED
  BY <1>7, <1>8, <1>9 DEF IInv

\* A saga touches the worktree only.
LEMMA SagaKeeps ==
  ASSUME NEW id \in Ids, Holds(id), Deletion(id)',
         UNCHANGED <<rows, tombs, cloud, calls, pass, clock, wish, late,
                 project, cloudProject, torn>>,
         trees[id] # "none" => trees'[id] # "none",
         Gone(id)' => Gone(id)
  PROVE  Holds(id)'
<1>1. PushesOf(id)' = PushesOf(id) /\ DeletesOf(id)' = DeletesOf(id) /\ Listed(id)' = Listed(id)
  BY DEF PushesOf, DeletesOf, Listed
<1>2. Timed(id)'
  BY DEF Holds, Timed
<1>3. Pushing(id)'
  BY <1>1 DEF Holds, Pushing, CallOK, Pushable
<1>4. Erased(id)'
  BY <1>1 DEF Holds, Erased, Replayed
<1>5. Named(id)'
  BY <1>1 DEF Holds, Named, Pending, CloudIsNewer
<1> QED
  BY <1>2, <1>3, <1>4, <1>5 DEF Holds

LEMMA DestroyStep ==
  ASSUME IInv, NEW id \in Ids, Destroy(id)
  PROVE  IInv'
<1>1. /\ trees[id] # "none" /\ clock' = clock + 1
      /\ destroys' = [destroys EXCEPT ![id] = Found(id)]
      /\ UNCHANGED <<rows, tombs, trees, cloud, calls, pass, wish, late,
                 project, cloudProject, torn>>
  BY DEF Destroy, Found, UserActs, Writes, projects
<1>2. Types /\ clock \in Nat /\ clock' \in Nat /\ clock <= clock'
  BY <1>1 DEF IInv, Types
<1>3. Types'
  BY <1>1, <1>2 DEF Types, Found
<1>4. \A i \in Ids : PushesOf(i)' = PushesOf(i) /\ DeletesOf(i)' = DeletesOf(i)
                     /\ Listed(i)' = Listed(i)
  BY <1>1 DEF PushesOf, DeletesOf, Listed
<1>5. ASSUME NEW i \in Ids
      PROVE  Holds(i)'
  <2>1. destroys'[i] = IF i = id THEN Found(id) ELSE destroys[i]
    BY <1>1, <1>2 DEF Types
  <2>2. Aside(i)
    <3>1. Found(id) = "deleting" /\ Known => rows[id] = Nil
      BY DEF Found, Known
    <3>2. Known /\ rows[id] = Nil => trees[id] = "gone"
      BY <1>1, <1>2 DEF IInv, Types, Holds, Deletion
    <3>3. Found(id) \in {"removing", "deleting"}
      BY DEF Found
    <3> QED
      BY <1>1, <1>2, <1>4, <2>1, <3>1, <3>2, <3>3 DEF Aside
  <2> QED
    BY <1>2, <2>2, AsideHolds DEF IInv
<1> QED
  BY <1>3, <1>5 DEF IInv

LEMMA RemoveTreeStep ==
  ASSUME IInv, NEW id \in Ids, RemoveTree(id)
  PROVE  IInv'
<1>1. /\ destroys[id] = "removing"
      /\ trees' = [trees EXCEPT ![id] = "gone"]
      /\ destroys' = [destroys EXCEPT ![id] = "deleting"]
      /\ UNCHANGED <<rows, tombs, cloud, calls, pass, clock, wish, late,
                 project, cloudProject, torn>>
  BY DEF RemoveTree, Removed, projects
<1>2. Types /\ trees' \in [Ids -> {"none", "present", "gone"}]
  BY <1>1 DEF IInv, Types
<1>3. Types'
  BY <1>1, <1>2 DEF Types
<1>4. ASSUME NEW i \in Ids
      PROVE  Holds(i)'
  <2>1. /\ destroys'[i] = IF i = id THEN "deleting" ELSE destroys[i]
        /\ trees'[i] = IF i = id THEN "gone" ELSE trees[i]
    BY <1>1, <1>2 DEF Types
  <2>2. Holds(i) /\ trees[i] \in {"none", "present", "gone"}
    BY <1>2 DEF IInv, Types
  <2>3. DeletesOf(i)' = DeletesOf(i) /\ rows'[i] = rows[i]
    BY <1>1 DEF DeletesOf
  <2>4. Gone(i)' <=> Gone(i)
    BY <1>1, <2>1, <2>2, <2>3 DEF Gone, Holds, Deletion
  <2>5. Deletion(i)'
    BY <1>1, <2>1, <2>2, <2>3, <2>4 DEF Holds, Deletion, Known
  <2> QED
    BY <1>1, <2>1, <2>2, <2>4, <2>5, SagaKeeps
<1> QED
  BY <1>3, <1>4 DEF IInv

LEMMA DestroyFailsStep ==
  ASSUME IInv, NEW id \in Ids, DestroyFails(id)
  PROVE  IInv'
<1>1. /\ destroys' = [destroys EXCEPT ![id] = "none"]
      /\ UNCHANGED <<rows, tombs, trees, cloud, calls, pass, clock, wish, late,
                 project, cloudProject, torn>>
  BY DEF DestroyFails, projects
<1>2. Types /\ Types'
  BY <1>1 DEF IInv, Types
<1>3. ASSUME NEW i \in Ids
      PROVE  Holds(i)'
  <2>1. destroys'[i] \in {"none", destroys[i]}
    BY <1>1, <1>2 DEF Types
  <2>2. Holds(i) /\ DeletesOf(i)' = DeletesOf(i)
    BY <1>1 DEF IInv, DeletesOf
  <2>3. Gone(i)' <=> Gone(i)
    BY <1>1 DEF Gone
  <2>4. Deletion(i)'
    BY <1>1, <2>1, <2>2, <2>3 DEF Holds, Deletion, Known
  <2> QED
    BY <1>1, <2>2, <2>3, <2>4, SagaKeeps
<1> QED
  BY <1>2, <1>3 DEF IInv

\* A delete is asked of a workspace that is gone, or goes now.
LEMMA DeleteIsAsked ==
  ASSUME NEW id \in Ids, Holds(id), NEW c, c.at = "asked",
         trees[id] # "none", Known => trees[id] = "gone", rows'[id] = Nil,
         UNCHANGED <<trees, cloud, clock, late,
                 project, cloudProject, torn>>,
         id \in tombs => id \in tombs', id \in tombs' \/ Gone(id),
         PushesOf(id)' \subseteq PushesOf(id), Listed(id)' \subseteq Listed(id),
         DeletesOf(id)' = DeletesOf(id) \cup {c}
  PROVE  Holds(id)'
<1>1. Timed(id)'
  BY DEF Holds, Timed
<1>2. Pushing(id)'
  BY DEF Holds, Pushing, CallOK, Pushable
<1>3. Gone(id)' /\ Deletion(id)'
  BY DEF Deletion, Known, Gone
<1>4. Erased(id)'
  <2>1. Replayed(id)' => Replayed(id) /\ Gone(id)
    BY DEF Holds, Deletion, Known, Replayed
  <2> QED
    BY <2>1 DEF Holds, Erased
<1>5. Named(id)'
  BY DEF Named
<1> QED
  BY <1>1, <1>2, <1>3, <1>4, <1>5 DEF Holds

LEMMA CommitDeleteStep ==
  ASSUME IInv, NEW id \in Ids, CommitDelete(id)
  PROVE  IInv'
<1>1. /\ destroys[id] = "deleting"
      /\ rows' = [rows EXCEPT ![id] = Nil]
      /\ tombs' = tombs \cup {id}
      /\ UNCHANGED <<trees, cloud, destroys, pass, clock, wish, late,
                 project, cloudProject, torn>>
  BY DEF CommitDelete, projects
<1>2. Types /\ Holds(id) /\ clock \in Nat
  BY DEF IInv, Types
<1>3. PICK c \in Delete : /\ calls' = calls \cup {c}
                          /\ c.kind = "delete" /\ c.id = id /\ c.at = "asked"
  <2>1. "destroy" \in {"destroy", "pass"}
    OBVIOUS
  <2> QED
    BY <2>1, StartedDelete DEF CommitDelete
<1>4. Types'
  <2>1. rows' \in [Ids -> LocalRow \cup {Nil}]
    BY <1>1, <1>2 DEF Types
  <2>2. calls' \subseteq Push \cup Delete
    BY <1>2, <1>3 DEF Types
  <2> QED
    BY <1>1, <1>2, <2>1, <2>2 DEF Types
<1>5. ASSUME NEW i \in Ids, i # id
      PROVE  Holds(i)'
  <2>1. /\ PushesOf(i)' \subseteq PushesOf(i) /\ DeletesOf(i)' \subseteq DeletesOf(i)
        /\ Listed(i)' \subseteq Listed(i)
    BY <1>1, <1>3, <1>5, CallStarts, ListedSame
  <2>2. rows'[i] = rows[i]
    BY <1>1, <1>2, <1>5 DEF Types
  <2>3. Aside(i)
    BY <1>1, <1>2, <1>5, <2>1, <2>2 DEF Aside, Known
  <2> QED
    BY <1>2, <2>3, AsideHolds DEF IInv
<1>6. Holds(id)'
  <2>1. /\ PushesOf(id)' \subseteq PushesOf(id) /\ Listed(id)' \subseteq Listed(id)
        /\ DeletesOf(id)' = DeletesOf(id) \cup {c}
    BY <1>1, <1>3, CallStarts, ListedSame
  <2>2. /\ trees[id] # "none" /\ rows'[id] = Nil
        /\ Known => trees[id] = "gone"
    BY <1>1, <1>2 DEF Types, Holds, Deletion
  <2> QED
    BY <1>1, <1>2, <1>3, <2>1, <2>2, DeleteIsAsked
<1> QED
  BY <1>4, <1>5, <1>6 DEF IInv

\* The reconciler's steps leave all tables alone, and list nothing new.
LEMMA PassKeeps ==
  ASSUME IInv, UNCHANGED <<rows, tombs, trees, cloud, calls, destroys, clock, wish, late,
                 project, cloudProject, torn>>,
         pass' \in [stage : {"idle", "deletes", "creates"}, tombs : SUBSET Ids,
                    rows : SUBSET [id : Ids, row : LocalRow]],
         pass'.tombs \subseteq tombs \cup pass.tombs, pass'.rows \subseteq pass.rows
  PROVE  IInv'
<1>1. Types /\ Types'
  BY DEF IInv, Types
<1>2. ASSUME NEW i \in Ids
      PROVE  Holds(i)'
  <2>1. PushesOf(i)' = PushesOf(i) /\ DeletesOf(i)' = DeletesOf(i) /\ Listed(i)' \subseteq Listed(i)
    BY ListedSame DEF PushesOf, DeletesOf
  <2>2. Aside(i)
    BY <1>1, <2>1 DEF Types, Aside, Known
  <2> QED
    BY <1>1, <2>2, AsideHolds DEF IInv
<1> QED
  BY <1>1, <1>2 DEF IInv

LEMMA StartPassStep == IInv /\ StartPass => IInv'
<1> SUFFICES ASSUME IInv, StartPass PROVE IInv'
  OBVIOUS
<1>1. pass' = [stage |-> "deletes", tombs |-> tombs, rows |-> {}] /\ tombs \subseteq Ids
  BY DEF StartPass, IInv, Types
<1>2. /\ pass' \in [stage : {"idle", "deletes", "creates"}, tombs : SUBSET Ids,
                    rows : SUBSET [id : Ids, row : LocalRow]]
      /\ pass'.tombs \subseteq tombs \cup pass.tombs /\ pass'.rows \subseteq pass.rows
  BY <1>1
<1> QED
  BY <1>2, PassKeeps DEF StartPass, projects

LEMMA PassEndsStep == IInv /\ PassEnds => IInv'
<1> SUFFICES ASSUME IInv, PassEnds PROVE IInv'
  OBVIOUS
<1>1. /\ pass' \in [stage : {"idle", "deletes", "creates"}, tombs : SUBSET Ids,
                    rows : SUBSET [id : Ids, row : LocalRow]]
      /\ pass'.tombs \subseteq tombs \cup pass.tombs /\ pass'.rows \subseteq pass.rows
  BY DEF PassEnds, Idle
<1> QED
  BY <1>1, PassKeeps DEF PassEnds, projects

LEMMA PassDeletesStep ==
  ASSUME IInv, NEW id \in Ids, PassDeletes(id)
  PROVE  IInv'
<1>1. /\ id \in pass.tombs
      /\ pass' = [pass EXCEPT !.tombs = @ \ {id}]
      /\ UNCHANGED <<rows, tombs, trees, cloud, destroys, clock, wish, late,
                 project, cloudProject, torn>>
  BY DEF PassDeletes, projects
<1>2. Types /\ Holds(id) /\ clock \in Nat
  BY DEF IInv, Types
<1>3. PICK c \in Delete : /\ calls' = calls \cup {c}
                          /\ c.kind = "delete" /\ c.id = id /\ c.at = "asked"
  <2>1. "pass" \in {"destroy", "pass"}
    OBVIOUS
  <2> QED
    BY <2>1, StartedDelete DEF PassDeletes
<1>4. /\ pass' \in [stage : {"idle", "deletes", "creates"}, tombs : SUBSET Ids,
                    rows : SUBSET [id : Ids, row : LocalRow]]
      /\ pass'.tombs \subseteq pass.tombs /\ pass'.rows = pass.rows
  BY <1>1, <1>2 DEF Types
<1>5. Types'
  <2>1. calls' \subseteq Push \cup Delete
    BY <1>2, <1>3 DEF Types
  <2> QED
    BY <1>1, <1>2, <1>4, <2>1 DEF Types
<1>6. ASSUME NEW i \in Ids, i # id
      PROVE  Holds(i)'
  <2>1. /\ PushesOf(i)' \subseteq PushesOf(i) /\ DeletesOf(i)' \subseteq DeletesOf(i)
        /\ Listed(i)' \subseteq Listed(i)
    BY <1>3, <1>4, <1>6, CallStarts, ListedSame
  <2>2. Aside(i)
    BY <1>1, <1>2, <1>4, <1>6, <2>1 DEF Aside, Known
  <2> QED
    BY <1>2, <2>2, AsideHolds DEF IInv
<1>7. Holds(id)'
  <2>1. /\ PushesOf(id)' \subseteq PushesOf(id) /\ Listed(id)' \subseteq Listed(id)
        /\ DeletesOf(id)' = DeletesOf(id) \cup {c}
    BY <1>3, <1>4, CallStarts, ListedSame
  <2>2. Gone(id) /\ (Known => trees[id] = "gone")
    BY <1>1, <1>2 DEF Holds, Deletion, Gone, Types
  <2> QED
    BY <1>1, <1>2, <1>3, <2>1, <2>2, DeleteIsAsked DEF Gone
<1> QED
  BY <1>5, <1>6, <1>7 DEF IInv

LEMMA PassListsStep == IInv /\ PassLists => IInv'
<1> SUFFICES ASSUME IInv, PassLists PROVE IInv'
  OBVIOUS
<1>1. UNCHANGED <<rows, tombs, trees, cloud, calls, destroys, clock, wish, late,
                 project, cloudProject, torn>>
  BY DEF PassLists, projects
<1>2. Types /\ clock \in Nat
  BY DEF IInv, Types
<1>3. \A i \in Unsynced : i \in Ids /\ rows[i] # Nil /\ ~rows[i].synced /\ rows[i] \in LocalRow
  BY <1>2, TableFacts DEF Unsynced
<1> DEFINE list == {[id |-> i, row |-> rows[i]] : i \in Unsynced}
<1>4. /\ list \subseteq [id : Ids, row : LocalRow]
      /\ \A e \in list : e.id \in Unsynced /\ e.row = rows[e.id]
      /\ pass' = [pass EXCEPT !.stage = "creates", !.rows = list]
  BY <1>3 DEF PassLists
<1> HIDE DEF list
<1>5. /\ pass'.tombs = pass.tombs /\ pass'.rows = list
      /\ pass' \in [stage : {"idle", "deletes", "creates"}, tombs : SUBSET Ids,
                    rows : SUBSET [id : Ids, row : LocalRow]]
  BY <1>2, <1>4 DEF Types
<1>6. Types'
  BY <1>1, <1>2, <1>5 DEF Types
<1>7. ASSUME NEW i \in Ids
      PROVE  Holds(i)'
  <2>1. Holds(i) /\ PushesOf(i)' = PushesOf(i) /\ DeletesOf(i)' = DeletesOf(i)
    BY <1>1 DEF IInv, PushesOf, DeletesOf
  <2>2. \A e \in Listed(i)' : i \in Unsynced /\ e.row = rows[i]
    BY <1>4, <1>5 DEF Listed
  <2>3. Timed(i)'
    BY <1>1, <2>1 DEF Holds, Timed
  <2>4. Pushing(i)'
    <3>1. \A c \in PushesOf(i) : CallOK(i, c)'
      BY <1>1, <2>1 DEF Holds, Pushing, CallOK, Pushable
    <3>2. \A e \in Listed(i)' : Pushable(i, e.row)'
      BY <1>1, <1>3, <2>1, <2>2 DEF Holds, Timed, Deletion, Known, Pushable
    <3> QED
      BY <2>1, <3>1, <3>2 DEF Pushing
  <2>5. Deletion(i)' /\ Erased(i)'
    BY <1>1, <1>5, <2>1 DEF Holds, Deletion, Known, Erased, Gone, Replayed
  <2>6. Named(i)'
    <3>1. rows[i] # Nil /\ rows[i].synced => Listed(i)' = {}
      BY <1>3, <2>2
    <3>2. rows[i] # Nil /\ rows[i].synced /\ Pending(i, rows[i].at)' => Pending(i, rows[i].at)
      BY <1>1, <2>1, <3>1 DEF Pending
    <3> QED
      BY <1>1, <2>1, <3>2 DEF Holds, Named, CloudIsNewer
  <2> QED
    BY <2>3, <2>4, <2>5, <2>6 DEF Holds
<1> QED
  BY <1>6, <1>7 DEF IInv

LEMMA PassPushesStep ==
  ASSUME IInv, NEW e \in pass.rows, PassPushes(e)
  PROVE  IInv'
<1>1. /\ pass' = [pass EXCEPT !.rows = @ \ {e}]
      /\ UNCHANGED <<rows, tombs, trees, cloud, destroys, clock, wish, late,
                 project, cloudProject, torn>>
  BY DEF PassPushes, projects
<1>2. Types /\ clock \in Nat /\ e.id \in Ids /\ e.row \in LocalRow
  BY DEF IInv, Types
<1>3. PICK c \in Push : /\ calls' = calls \cup {c}
                        /\ c.kind = "push" /\ c.id = e.id /\ c.pushed = e.row /\ c.at = "asked"
  <2>1. "pass" \in {"user", "pass"}
    OBVIOUS
  <2> QED
    BY <1>2, <2>1, StartedPush DEF PassPushes
<1>4. /\ pass' \in [stage : {"idle", "deletes", "creates"}, tombs : SUBSET Ids,
                    rows : SUBSET [id : Ids, row : LocalRow]]
      /\ pass'.tombs = pass.tombs /\ pass'.rows \subseteq pass.rows
  BY <1>1, <1>2 DEF Types
<1>5. Types'
  <2>1. calls' \subseteq Push \cup Delete
    BY <1>2, <1>3 DEF Types
  <2> QED
    BY <1>1, <1>2, <1>4, <2>1 DEF Types
<1>6. ASSUME NEW i \in Ids
      PROVE  Holds(i)'
  <2>1. /\ Holds(i) /\ DeletesOf(i)' = DeletesOf(i) /\ Listed(i)' \subseteq Listed(i)
        /\ PushesOf(i)' = PushesOf(i) \cup (IF e.id = i THEN {c} ELSE {})
    <3>1. /\ DeletesOf(i)' = DeletesOf(i)
          /\ PushesOf(i)' = PushesOf(i) \cup (IF e.id = i THEN {c} ELSE {})
      <4>1. ~(c.kind = "delete")
        BY <1>3
      <4> QED
        BY <1>3, <4>1, CallStarts
    <3>2. Holds(i) /\ Listed(i)' \subseteq Listed(i)
      BY <1>4, ListedSame DEF IInv
    <3> QED
      BY <3>1, <3>2
  <2>2. e.id = i => e \in Listed(i)
    BY DEF Listed
  <2>3. Timed(i)'
    BY <1>1, <2>1 DEF Holds, Timed
  <2>4. Pushing(i)'
    <3>1. \A d \in PushesOf(i) : CallOK(i, d)'
      BY <1>1, <2>1 DEF Holds, Pushing, CallOK, Pushable
    <3>2. e.id = i => CallOK(i, c)'
      BY <1>1, <1>3, <2>1, <2>2 DEF Holds, Pushing, CallOK, Pushable
    <3>3. \A d \in Listed(i) : Pushable(i, d.row)'
      BY <1>1, <2>1 DEF Holds, Pushing, Pushable
    <3> QED
      BY <2>1, <3>1, <3>2, <3>3 DEF Pushing
  <2>5. Deletion(i)' /\ Erased(i)'
    BY <1>1, <1>4, <2>1 DEF Holds, Deletion, Known, Erased, Gone, Replayed
  <2>6. Named(i)'
    <3>1. Pending(i, rows[i].at)' => Pending(i, rows[i].at)
      BY <1>1, <1>3, <2>1, <2>2 DEF Pending
    <3> QED
      BY <1>1, <2>1, <3>1 DEF Holds, Named, CloudIsNewer
  <2> QED
    BY <2>3, <2>4, <2>5, <2>6 DEF Holds
<1> QED
  BY <1>5, <1>6 DEF IInv

-----------------------------------------------------------------------------
\* The calls.

\* A push goes on to where it may be.
LEMMA PushMoves ==
  ASSUME IInv, NEW c \in calls, NEW m \in Push, c.kind = "push",
         m.kind = "push", m.id = c.id, m.pushed = c.pushed, CallOK(c.id, m),
         calls' = (calls \ {c}) \cup {m},
         UNCHANGED <<rows, tombs, trees, cloud, destroys, pass, clock, wish, late,
                 project, cloudProject, torn>>
  PROVE  IInv'
<1>1. Types /\ Types'
  BY DEF IInv, Types
<1>2. ASSUME NEW i \in Ids
      PROVE  Holds(i)'
  <2>1. /\ PushesOf(i)' \subseteq PushesOf(i) \cup (IF c.id = i THEN {m} ELSE {})
        /\ DeletesOf(i)' \subseteq DeletesOf(i) /\ Listed(i)' = Listed(i)
    <3>1. ~(c.kind = "delete")
      OBVIOUS
    <3> QED
      BY <3>1, CallMoves DEF Listed
  <2>2. Holds(i) /\ (c.id = i => c \in PushesOf(i))
    BY DEF IInv, PushesOf
  <2>3. Timed(i)'
    BY <2>2 DEF Holds, Timed
  <2>4. Pushing(i)'
    <3>1. \A d \in PushesOf(i) : CallOK(i, d)'
      BY <2>2 DEF Holds, Pushing, CallOK, Pushable
    <3>2. c.id = i => CallOK(i, m)'
      BY DEF CallOK, Pushable
    <3>3. \A e \in Listed(i) : Pushable(i, e.row)'
      BY <2>2 DEF Holds, Pushing, Pushable
    <3> QED
      BY <2>1, <3>1, <3>2, <3>3 DEF Pushing
  <2>5. Deletion(i)' /\ Erased(i)'
    BY <2>1, <2>2 DEF Holds, Deletion, Known, Erased, Gone, Replayed
  <2>6. Named(i)'
    <3>1. Pending(i, rows[i].at)' => Pending(i, rows[i].at)
      BY <2>1, <2>2 DEF Pending
    <3> QED
      BY <2>2, <3>1 DEF Holds, Named, CloudIsNewer
  <2> QED
    BY <2>3, <2>4, <2>5, <2>6 DEF Holds
<1> QED
  BY <1>1, <1>2 DEF IInv

\* What a push writes in the cloud, and what it goes on with.
LEMMA PushWrites ==
  ASSUME IInv, NEW c \in calls, NEW m \in Push, c.kind = "push",
         m.kind = "push", m.id = c.id, m.pushed = c.pushed,
         m.at \in {"confirmed", "renamed"},
         m.at = "confirmed" => m.answer # Nil /\ m.answer = cloud'[c.id],
         calls' = (calls \ {c}) \cup {m},
         clock' = clock + 1, cloud' = [cloud EXCEPT ![c.id] = Row(c.pushed.name, clock')],
         UNCHANGED <<rows, tombs, trees, destroys, pass, wish,
                 project, cloudProject, torn>>, cloudProject,
         late' \in {late, late \cup {c.id}},
         c.id \notin late' => /\ ~Overtaken(c)
                              /\ wish[c.id] = c.pushed.name
  PROVE  IInv'
<1> DEFINE row == Row(c.pushed.name, clock')
<1>1. /\ Types /\ c.id \in Ids /\ c.pushed \in LocalRow /\ c.pushed.name \in Names
      /\ clock \in Nat /\ clock' \in Nat
  BY CallFacts DEF IInv, Types
<1>2. row \in CloudRow /\ row # Nil /\ row.name = c.pushed.name /\ row.at = clock'
  BY <1>1, RowFacts
<1>3. cloud' = [cloud EXCEPT ![c.id] = row]
  OBVIOUS
<1> HIDE DEF row
<1>4. cloud'[c.id] = row /\ \A i \in Ids : i # c.id => cloud'[i] = cloud[i]
  BY <1>1, <1>3 DEF Types
<1>5. Types'
  <2>1. cloud' \in [Ids -> CloudRow \cup {Nil}]
    BY <1>1, <1>2, <1>3 DEF Types
  <2>2. calls' \subseteq Push \cup Delete /\ late' \subseteq Ids
    BY <1>1 DEF Types
  <2> QED
    BY <1>1, <2>1, <2>2 DEF Types
<1>6. \A i \in Ids : /\ PushesOf(i)' \subseteq PushesOf(i) \cup (IF c.id = i THEN {m} ELSE {})
                     /\ DeletesOf(i)' \subseteq DeletesOf(i) /\ Listed(i)' = Listed(i)
  <2>1. ~(c.kind = "delete")
    OBVIOUS
  <2> QED
    BY <2>1, CallMoves DEF Listed
<1>7. ASSUME NEW i \in Ids, i # c.id
      PROVE  Holds(i)'
  <2>1. Aside(i)
    BY <1>1, <1>4, <1>6, <1>7 DEF Aside, Known
  <2> QED
    BY <1>1, <2>1, AsideHolds DEF IInv
<1>8. Holds(c.id)'
  <2> DEFINE id == c.id
  <2> HIDE DEF id
  <2>1. id = c.id /\ id \in Ids /\ Holds(id) /\ c \in PushesOf(id)
    BY <1>1 DEF IInv, PushesOf, id
  <2>2. \A e \in Listed(id) : Pushable(id, e.row)'
    BY <1>1, <1>2, <1>4, <2>1, CloudIsWritten DEF Holds
  <2>3. \A d \in PushesOf(id) : CallOK(id, d)'
    BY <1>1, <1>2, <1>4, <2>1, CloudIsWritten DEF Holds
  <2>4. c.pushed.at \in Nat /\ c.pushed.at <= clock
    BY <1>1, <2>1 DEF LocalRow, Holds, Pushing, CallOK, Pushable
  <2>5. c.pushed.at < clock'
    BY <1>1, <2>4
  <2>6. CallOK(id, m)'
    BY <1>2, <1>4, <2>1, <2>3, <2>4, <2>5 DEF CallOK
  <2>7. Pushing(id)'
    BY <1>1, <1>6, <2>1, <2>2, <2>3, <2>6 DEF Pushing
  <2>8. Timed(id)'
    <3>1. rows[id] # Nil => rows[id].at \in Nat /\ rows[id].at <= clock
      BY <1>1, <2>1, TableFacts DEF Holds, Timed
    <3> QED
      BY <1>1, <1>2, <1>4, <2>1, <3>1 DEF Timed
  <2>9. Deletion(id)'
    BY <1>6, <2>1 DEF Holds, Deletion, Known, Gone
  <2>10. Erased(id)'
    BY <2>1 DEF Erased, Gone, Overtaken
  <2>11. Named(id)'
    <3>1. ASSUME rows[id] # Nil, id \notin late'
          PROVE  cloud'[id] # Nil /\ cloud'[id].name = wish[id] /\ rows[id].name = wish[id]
      <4>1. rows[id].at = c.pushed.at /\ wish[id] = c.pushed.name
        BY <2>1, <3>1 DEF Overtaken
      <4>2. Pushable(id, c.pushed)
        BY <2>1 DEF Holds, Pushing, CallOK
      <4> QED
        BY <1>2, <1>4, <2>1, <3>1, <4>1, <4>2 DEF Pushable
    <3> QED
      BY <3>1 DEF Named
  <2> QED
    BY <2>1, <2>7, <2>8, <2>9, <2>10, <2>11 DEF Holds
<1> QED
  BY <1>5, <1>7, <1>8 DEF IInv

LEMMA CloudCreatesStep ==
  ASSUME IInv, NEW c \in calls, CloudCreates(c)
  PROVE  IInv'
<1>1. /\ Types /\ c.kind = "push" /\ c.at = "asked" /\ cloudProject
      /\ Moves(c, "confirmed", cloud'[c.id])
      /\ UNCHANGED <<rows, tombs, trees, destroys, pass, wish,
                 project, cloudProject, torn>>
  BY DEF IInv, CloudCreates, projects
<1>2. /\ c \in Push /\ c.id \in Ids /\ c.pushed.name \in Names
      /\ Holds(c.id) /\ CallOK(c.id, c)
  <2>1. c \in Push /\ c.id \in Ids /\ c.pushed.name \in Names
    BY <1>1, CallFacts DEF Types
  <2> QED
    BY <1>1, <2>1 DEF IInv, Holds, Pushing, PushesOf
<1>3. CASE cloud[c.id] # Nil
  <2>1. UNCHANGED <<cloud, clock, late,
                 project, cloudProject, torn>>
    BY <1>3 DEF CloudCreates, LateIf, projects
  <2>2. cloud'[c.id] \in CloudRow /\ cloud'[c.id] # Nil
    BY <1>1, <1>2, <1>3, <2>1, TableFacts
  <2>3. PICK m \in Push : /\ calls' = (calls \ {c}) \cup {m}
                          /\ m.kind = "push" /\ m.id = c.id /\ m.pushed = c.pushed
                          /\ m.at = "confirmed" /\ m.answer = cloud'[c.id]
    BY <1>1, <1>2, <2>2, MovedPush
  <2>4. CallOK(c.id, m)
    BY <1>2, <1>3, <2>1, <2>3 DEF CallOK
  <2> QED
    BY <1>1, <2>1, <2>3, <2>4, PushMoves
<1>4. CASE cloud[c.id] = Nil
  <2>1. /\ clock' = clock + 1
        /\ cloud' = [cloud EXCEPT ![c.id] = Row(c.pushed.name, clock')]
        /\ late' = IF Overtaken(c) THEN late \cup {c.id} ELSE late
    BY <1>4 DEF CloudCreates, LateIf, Writes
  <2>2. cloud'[c.id] \in CloudRow /\ cloud'[c.id] # Nil
    <3>1. clock' \in Nat /\ cloud'[c.id] = Row(c.pushed.name, clock')
      BY <1>1, <1>2, <2>1 DEF Types
    <3> QED
      BY <1>2, <3>1, RowFacts
  <2>3. PICK m \in Push : /\ calls' = (calls \ {c}) \cup {m}
                          /\ m.kind = "push" /\ m.id = c.id /\ m.pushed = c.pushed
                          /\ m.at = "confirmed" /\ m.answer = cloud'[c.id]
    BY <1>1, <1>2, <2>2, MovedPush
  <2>4. ASSUME c.id \notin late'
        PROVE  ~Overtaken(c) /\ wish[c.id] = c.pushed.name
    <3>1. ~Overtaken(c) /\ c.id \notin late
      BY <2>1, <2>4
    <3>2. rows[c.id] # Nil /\ rows[c.id].name = c.pushed.name
      BY <1>2, <3>1 DEF Overtaken, CallOK, Pushable
    <3>3. wish[c.id] = rows[c.id].name
      BY <1>1, <1>2, <1>4, <3>1, <3>2 DEF Holds, Named, CloudIsNewer
    <3> QED
      BY <3>1, <3>2, <3>3
  <2>5. m.at \in {"confirmed", "renamed"} /\ late' \in {late, late \cup {c.id}}
    BY <2>1, <2>3
  <2> QED
    BY <1>1, <2>1, <2>2, <2>3, <2>4, <2>5, PushWrites
<1> QED
  BY <1>3, <1>4

LEMMA SendNameStep ==
  ASSUME IInv, NEW c \in calls, SendName(c)
  PROVE  IInv'
<1>1. /\ Types /\ c.at = "confirmed" /\ c.answer.name # c.pushed.name /\ ~CloudNewer(c)
      /\ Moves(c, "renaming", c.answer)
      /\ UNCHANGED <<rows, tombs, trees, cloud, destroys, pass, clock, wish, late,
                 project, cloudProject, torn>>
  BY DEF IInv, SendName, projects
<1>2. c \in Push /\ c.kind = "push" /\ c.id \in Ids /\ c.pushed.at \in Nat
  BY <1>1, CallFacts DEF Types
<1>3. CallOK(c.id, c)
  BY <1>2 DEF IInv, Holds, Pushing, PushesOf
<1>4. c.answer # Nil /\ c.answer \in CloudRow /\ c.answer.at \in Nat
  BY <1>1, <1>2, <1>3, CallFacts DEF CallOK
<1>5. PICK m \in Push : /\ calls' = (calls \ {c}) \cup {m}
                        /\ m.kind = "push" /\ m.id = c.id /\ m.pushed = c.pushed
                        /\ m.at = "renaming" /\ m.answer = c.answer
  BY <1>1, <1>2, <1>4, MovedPush
<1>6. c.answer.at <= c.pushed.at
  BY <1>1, <1>2, <1>4 DEF CloudNewer
<1>7. CallOK(c.id, m)
  BY <1>1, <1>3, <1>5, <1>6 DEF CallOK
<1> QED
  BY <1>1, <1>2, <1>5, <1>7, PushMoves

LEMMA CloudRenamesStep ==
  ASSUME IInv, NEW c \in calls, CloudRenames(c)
  PROVE  IInv'
<1>1. /\ Types /\ c.at = "renaming" /\ cloud[c.id] # Nil /\ clock' = clock + 1
      /\ cloud' = [cloud EXCEPT ![c.id] = Row(c.pushed.name, clock')]
      /\ Moves(c, "renamed", Nil)
      /\ late' = IF Overtaken(c) \/ cloud[c.id] # c.answer THEN late \cup {c.id} ELSE late
      /\ UNCHANGED <<rows, tombs, trees, destroys, pass, wish,
                 project, cloudProject, torn>>
  BY DEF IInv, CloudRenames, LateIf, Writes, projects
<1>2. c \in Push /\ c.kind = "push" /\ c.id \in Ids /\ c.pushed.at \in Nat
  BY <1>1, CallFacts DEF Types
<1>3. Holds(c.id) /\ CallOK(c.id, c) /\ c \in PushesOf(c.id)
  BY <1>2 DEF IInv, Holds, Pushing, PushesOf
<1>4. PICK m \in Push : /\ calls' = (calls \ {c}) \cup {m}
                        /\ m.kind = "push" /\ m.id = c.id /\ m.pushed = c.pushed
                        /\ m.at = "renamed"
  BY <1>1, <1>2, MovedPush
<1>7. cloudProject
  BY <1>1, <1>3 DEF Holds, Timed
<1>5. ASSUME c.id \notin late'
      PROVE  ~Overtaken(c) /\ wish[c.id] = c.pushed.name
  <2>1. ~Overtaken(c) /\ c.id \notin late /\ cloud[c.id] = c.answer
    BY <1>1, <1>5
  <2>2. rows[c.id] # Nil /\ rows[c.id].at = c.pushed.at /\ rows[c.id].name = c.pushed.name
    BY <1>3, <2>1 DEF Overtaken, CallOK, Pushable
  <2>3. cloud[c.id].name # rows[c.id].name /\ ~CloudIsNewer(c.id)
    <3>1. c.answer.name # c.pushed.name /\ c.answer.at <= c.pushed.at /\ c.answer.at \in Nat
      BY <1>1, <1>2, <1>3, <2>1, CallFacts DEF CallOK
    <3> QED
      BY <1>2, <2>1, <2>2, <3>1 DEF CloudIsNewer
  <2>4. Pending(c.id, rows[c.id].at)
    BY <1>3, <2>2 DEF Pending
  <2>5. wish[c.id] = rows[c.id].name
    BY <1>3, <1>7, <2>1, <2>2, <2>3, <2>4 DEF Holds, Named
  <2> QED
    BY <2>1, <2>2, <2>5
<1>6. m.at \in {"confirmed", "renamed"} /\ late' \in {late, late \cup {c.id}}
  BY <1>1, <1>4
<1> QED
  BY <1>1, <1>2, <1>4, <1>5, <1>6, <1>7, PushWrites

LEMMA CloudDeletesStep ==
  ASSUME IInv, NEW c \in calls, CloudDeletes(c)
  PROVE  IInv'
<1>1. /\ Types /\ c.kind = "delete" /\ cloud' = [cloud EXCEPT ![c.id] = Nil]
      /\ Moves(c, "deleted", Nil) /\ clock \in Nat
      /\ UNCHANGED <<rows, tombs, trees, destroys, pass, clock, wish, late,
                 project, cloudProject, torn>>
  BY DEF IInv, Types, CloudDeletes, projects
<1>2. c \in Delete /\ c.id \in Ids
  BY <1>1, CallFacts DEF Types
<1>3. PICK m \in Delete : /\ calls' = (calls \ {c}) \cup {m}
                          /\ m.kind = "delete" /\ m.id = c.id /\ m.at = "deleted"
  BY <1>1, <1>2, MovedDelete
<1>4. cloud'[c.id] = Nil /\ \A i \in Ids : i # c.id => cloud'[i] = cloud[i]
  BY <1>1, <1>2 DEF Types
<1>5. Types'
  <2>1. cloud' \in [Ids -> CloudRow \cup {Nil}]
    BY <1>1 DEF Types
  <2>2. calls' \subseteq Push \cup Delete
    BY <1>1, <1>3 DEF Types
  <2> QED
    BY <1>1, <2>1, <2>2 DEF Types
<1>6. \A i \in Ids : /\ PushesOf(i)' \subseteq PushesOf(i) /\ Listed(i)' = Listed(i)
                     /\ DeletesOf(i)' \subseteq DeletesOf(i) \cup (IF c.id = i THEN {m} ELSE {})
  <2>1. ~(c.kind = "push")
    BY <1>1
  <2> QED
    BY <1>1, <1>3, <2>1, CallMoves DEF Listed
<1>7. ASSUME NEW i \in Ids, i # c.id
      PROVE  Holds(i)'
  <2>1. Aside(i)
    BY <1>1, <1>4, <1>6, <1>7 DEF Aside, Known
  <2> QED
    BY <1>1, <2>1, AsideHolds DEF IInv
<1>8. Holds(c.id)'
  <2>1. Holds(c.id) /\ Gone(c.id)
    BY <1>1, <1>2 DEF IInv, Holds, Deletion, Known, DeletesOf
  <2>2. rows[c.id] = Nil /\ trees[c.id] # "none"
    BY <2>1 DEF Gone
  <2>3. Timed(c.id)' /\ Named(c.id)' /\ Erased(c.id)' /\ Deletion(c.id)'
    BY <1>1, <1>4, <2>1, <2>2 DEF Holds, Timed, Named, Erased, Deletion, Known, Gone
  <2>4. Pushing(c.id)'
    <3>1. PushesOf(c.id)' \subseteq PushesOf(c.id) /\ Listed(c.id)' = Listed(c.id)
      BY <1>2, <1>6
    <3> QED
      BY <1>1, <2>1, <2>2, <3>1 DEF Holds, Pushing, CallOK, Pushable
  <2> QED
    BY <2>3, <2>4 DEF Holds
<1> QED
  BY <1>5, <1>7, <1>8 DEF IInv

\* A push that ends may mark its row, if the cloud's name is as good.
LEMMA MarkSyncedStep ==
  ASSUME IInv, NEW c \in calls, c.kind = "push", MarkSynced(c), Ends(c),
         UNCHANGED <<tombs, trees, cloud, destroys, pass, clock, wish, late,
                 project, cloudProject, torn>>,
         Marked(c) /\ cloudProject =>
           /\ cloud[c.id] # Nil
           /\ cloud[c.id].name = rows[c.id].name \/ CloudIsNewer(c.id)
  PROVE  IInv'
<1>1. Types /\ c.id \in Ids /\ clock \in Nat /\ calls' \subseteq calls
  BY CallFacts DEF IInv, Types, Ends
<1>2. /\ rows' \in [Ids -> LocalRow \cup {Nil}]
      /\ \A i \in Ids :
           /\ ~(i = c.id /\ Marked(c)) => rows'[i] = rows[i]
           /\ i = c.id /\ Marked(c) =>
                /\ rows[i] # Nil /\ rows'[i] # Nil
                /\ rows'[i].name = rows[i].name /\ rows'[i].at = rows[i].at
                /\ rows'[i].synced = TRUE
  <2>1. CASE ~Marked(c)
    BY <1>1, <2>1 DEF MarkSynced, Types
  <2>2. CASE Marked(c)
    <3> DEFINE row == [rows[c.id] EXCEPT !.synced = TRUE]
    <3>1. rows[c.id] # Nil /\ rows[c.id] \in LocalRow
      BY <1>1, <2>2, TableFacts DEF Marked
    <3>2. /\ row \in LocalRow /\ row.name = rows[c.id].name /\ row.at = rows[c.id].at
          /\ row.synced = TRUE
      BY <3>1 DEF LocalRow
    <3>3. rows' = [rows EXCEPT ![c.id] = row]
      BY <2>2 DEF MarkSynced
    <3> HIDE DEF row
    <3>4. row # Nil
      BY <3>2, SyncAssumption DEF LocalRow
    <3> QED
      BY <1>1, <2>2, <3>1, <3>2, <3>3, <3>4 DEF Types
  <2> QED
    BY <2>1, <2>2
<1>3. Types'
  BY <1>1, <1>2 DEF Types
<1>4. \A i \in Ids : /\ PushesOf(i)' \subseteq PushesOf(i) /\ DeletesOf(i)' \subseteq DeletesOf(i)
                     /\ Listed(i)' = Listed(i)
  BY <1>1, CallEnds DEF Listed
<1>5. ASSUME NEW i \in Ids, ~(i = c.id /\ Marked(c))
      PROVE  Holds(i)'
  <2>1. Aside(i)
    BY <1>1, <1>2, <1>4, <1>5 DEF Aside, Known
  <2> QED
    BY <1>1, <2>1, AsideHolds DEF IInv
<1>6. ASSUME Marked(c)
      PROVE  Holds(c.id)'
  <2> DEFINE id == c.id
  <2> HIDE DEF id
  <2>1. id \in Ids /\ Holds(id)
    BY <1>1 DEF IInv, id
  <2>2. cloudProject => /\ cloud[id] # Nil
                        /\ cloud[id].name = rows[id].name \/ CloudIsNewer(id)
    BY <1>6 DEF id
  <2>3. /\ rows[id] # Nil /\ rows'[id] # Nil
        /\ rows'[id].name = rows[id].name /\ rows'[id].at = rows[id].at
        /\ rows'[id].synced = TRUE
    BY <1>1, <1>2, <1>6 DEF id
  <2>4. /\ PushesOf(id)' \subseteq PushesOf(id) /\ DeletesOf(id)' \subseteq DeletesOf(id)
        /\ Listed(id)' = Listed(id)
    BY <1>4, <2>1
  <2>5. Timed(id)'
    BY <2>1, <2>3 DEF Holds, Timed
  <2>6. Pushing(id)'
    BY <2>1, <2>3, <2>4 DEF Holds, Pushing, CallOK, Pushable
  <2>7. Deletion(id)' /\ Erased(id)'
    BY <2>1, <2>3, <2>4 DEF Holds, Deletion, Known, Erased, Gone
  <2>8. Named(id)'
    <3>1. CloudIsNewer(id)' <=> CloudIsNewer(id)
      BY <2>3 DEF CloudIsNewer
    <3>2. ASSUME id \notin late, cloudProject
          PROVE  cloud[id].name = wish[id]
      BY <2>1, <2>2, <2>3, <3>2, TableFacts, <1>1 DEF Holds, Named
    <3> QED
      BY <2>2, <2>3, <3>1, <3>2 DEF Named
  <2> QED
    BY <2>5, <2>6, <2>7, <2>8 DEF Holds, id
<1> QED
  BY <1>3, <1>5, <1>6 DEF IInv

LEMMA ConfirmedStep ==
  ASSUME IInv, NEW c \in calls, Confirmed(c)
  PROVE  IInv'
<1>1. /\ Types /\ c.at = "confirmed" /\ c.answer.name = c.pushed.name
      /\ MarkSynced(c) /\ Ends(c)
      /\ UNCHANGED <<tombs, trees, cloud, destroys, pass, clock, wish, late,
                 project, cloudProject, torn>>
  BY DEF IInv, Confirmed, projects
<1>2. c.kind = "push" /\ c.id \in Ids
  BY <1>1, CallFacts DEF Types
<1>3. CallOK(c.id, c)
  BY <1>2 DEF IInv, Holds, Pushing, PushesOf
<1>4. ASSUME Marked(c), cloudProject
      PROVE  /\ cloud[c.id] # Nil
             /\ cloud[c.id].name = rows[c.id].name \/ CloudIsNewer(c.id)
  BY <1>1, <1>3, <1>4 DEF Marked, CallOK, Pushable, CloudIsNewer
<1> QED
  BY <1>1, <1>2, <1>4, MarkSyncedStep

LEMMA RenamedStep ==
  ASSUME IInv, NEW c \in calls, Renamed(c)
  PROVE  IInv'
<1>1. /\ Types /\ c.at = "renamed" /\ MarkSynced(c) /\ Ends(c)
      /\ UNCHANGED <<tombs, trees, cloud, destroys, pass, clock, wish, late,
                 project, cloudProject, torn>>
  BY DEF IInv, Renamed, projects
<1>2. c.kind = "push" /\ c.id \in Ids
  BY <1>1, CallFacts DEF Types
<1>3. CallOK(c.id, c)
  BY <1>2 DEF IInv, Holds, Pushing, PushesOf
<1>4. ASSUME Marked(c), cloudProject
      PROVE  cloud[c.id] # Nil /\ CloudIsNewer(c.id)
  BY <1>1, <1>3, <1>4 DEF Marked, CallOK, CloudIsNewer
<1> QED
  BY <1>1, <1>2, <1>4, MarkSyncedStep

LEMMA AdoptNameStep ==
  ASSUME IInv, NEW c \in calls, AdoptName(c)
  PROVE  IInv'
<1>1. /\ Types /\ c.at = "confirmed" /\ CloudNewer(c) /\ calls' \subseteq calls
      /\ late' = IF Overtaken(c) THEN late \cup {c.id} ELSE late
      /\ UNCHANGED <<tombs, trees, cloud, destroys, pass, wish,
                 project, cloudProject, torn>>
  BY DEF IInv, AdoptName, Ends, LateIf, projects
<1>2. /\ c.kind = "push" /\ c.id \in Ids /\ c.pushed.at \in Nat /\ clock \in Nat
  BY <1>1, CallFacts DEF Types
<1>3. Holds(c.id) /\ CallOK(c.id, c)
  BY <1>2 DEF IInv, Holds, Pushing, PushesOf
<1>4. c.answer # Nil /\ c.answer.at \in Nat /\ c.answer.name \in Names /\ c.answer.at > c.pushed.at
  BY <1>1, <1>2, <1>3, CallFacts DEF Types, CallOK, CloudNewer
<1>5. \A i \in Ids : /\ PushesOf(i)' \subseteq PushesOf(i) /\ DeletesOf(i)' \subseteq DeletesOf(i)
                     /\ Listed(i)' = Listed(i)
  BY <1>1, CallEnds DEF Listed
<1>6. calls' \subseteq Push \cup Delete /\ late' \subseteq Ids
  BY <1>1, <1>2 DEF Types
<1>7. CASE rows[c.id] = Nil
  <2>1. UNCHANGED <<rows, clock>>
    BY <1>7 DEF AdoptName
  <2>2. Types'
    BY <1>1, <1>6, <2>1 DEF Types
  <2>3. ASSUME NEW i \in Ids
        PROVE  Holds(i)'
    <3>1. Aside(i)
      BY <1>1, <1>2, <1>5, <2>1 DEF Aside, Known
    <3> QED
      BY <1>1, <3>1, AsideHolds DEF IInv
  <2> QED
    BY <2>2, <2>3 DEF IInv
<1>8. CASE rows[c.id] # Nil
  <2> DEFINE row == Local(Row(c.answer.name, clock'), TRUE)
             id == c.id
  <2>1. clock' = clock + 1 /\ clock' \in Nat /\ rows' = [rows EXCEPT ![id] = row]
    <3>1. clock' = clock + 1 /\ rows' = [rows EXCEPT ![id] = row]
      BY <1>8, Zenon DEF AdoptName, Writes
    <3> HIDE DEF row, id
    <3> QED
      BY <1>2, <3>1
  <2>2. row \in LocalRow /\ row # Nil /\ row.at = clock' /\ row.synced = TRUE
    <3>1. TRUE \in BOOLEAN
      OBVIOUS
    <3> QED
      BY <1>4, <2>1, <3>1, LocalFacts, Zenon
  <2> HIDE DEF row, id
  <2>3. id = c.id /\ id \in Ids /\ rows[id] # Nil /\ Holds(id)
    BY <1>2, <1>3, <1>8 DEF id
  <2>4. rows'[id] = row /\ \A i \in Ids : i # id => rows'[i] = rows[i]
    BY <1>1, <2>1, <2>3 DEF Types
  <2>5. Types'
    <3>1. rows' \in [Ids -> LocalRow \cup {Nil}]
      BY <1>1, <2>1, <2>2 DEF Types
    <3> QED
      BY <1>1, <1>6, <2>1, <3>1 DEF Types
  <2>6. ASSUME NEW i \in Ids, i # id
        PROVE  Holds(i)'
    <3>1. Aside(i)
      BY <1>1, <1>2, <1>5, <2>1, <2>4, <2>6 DEF Aside, Known
    <3> QED
      BY <1>1, <3>1, AsideHolds DEF IInv
  <2>7. Holds(id)'
    <3>1. /\ \A d \in PushesOf(id) : CallOK(id, d)' /\ d.pushed.at < clock'
          /\ \A e \in Listed(id) : Pushable(id, e.row)' /\ e.row.at < clock'
      <4>1. Pushing(id) /\ trees[id] # "none"
        BY <2>3 DEF Holds, Deletion, Known
      <4> QED
        BY <1>1, <2>1, <2>2, <2>3, <2>4, <4>1, RowIsWritten
    <3>2. Pushing(id)'
      BY <1>5, <2>3, <3>1 DEF Pushing
    <3>3. Timed(id)'
      <4>1. cloud[id] # Nil => cloud[id].at \in Nat /\ cloud[id].at <= clock
        BY <1>1, <2>3, TableFacts DEF Holds, Timed
      <4> QED
        <5>1. cloud'[id] # Nil => cloudProject'
          BY <1>1, <2>3, Zenon DEF Holds, Timed
        <5> QED
          BY <1>1, <1>2, <2>1, <2>2, <2>4, <4>1, <5>1 DEF Timed
    <3>4. Deletion(id)' /\ Erased(id)'
      BY <1>1, <1>5, <2>2, <2>3, <2>4 DEF Holds, Deletion, Known, Erased, Gone
    <3>5. Named(id)'
      <4>1. \A time : Pending(id, time)' => time < clock'
        BY <1>5, <2>3, <3>1 DEF Pending
      <4>2. ~Pending(id, rows[id].at)'
        BY <2>1, <2>2, <2>4, <4>1
      <4>3. ASSUME id \notin late', cloudProject
            PROVE  cloud[id] # Nil /\ cloud[id].name = wish[id]
        <5>1. id \notin late /\ rows[id].at = c.pushed.at
          BY <1>1, <2>3, <4>3 DEF Overtaken
        <5>2. cloud[id] # Nil /\ cloud[id].at > c.pushed.at
          BY <1>1, <1>3, <1>4, <2>3, <4>3 DEF CallOK
        <5>3. CloudIsNewer(id)
          BY <5>1, <5>2 DEF CloudIsNewer
        <5> QED
          BY <1>1, <2>3, <4>3, <5>1, <5>2, <5>3, TableFacts DEF Holds, Named
      <4> QED
        BY <1>1, <2>2, <2>4, <4>2, <4>3 DEF Named
    <3> QED
      BY <3>2, <3>3, <3>4, <3>5 DEF Holds
  <2> QED
    BY <2>5, <2>6, <2>7 DEF IInv
<1> QED
  BY <1>7, <1>8

LEMMA DeletedStep ==
  ASSUME IInv, NEW c \in calls, Deleted(c)
  PROVE  IInv'
<1>1. /\ Types /\ c.at = "deleted" /\ tombs' = tombs \ {c.id} /\ calls' \subseteq calls
      /\ clock \in Nat
      /\ UNCHANGED <<rows, trees, cloud, pass, clock, wish, late,
                 project, cloudProject, torn>>
  BY DEF IInv, Types, Deleted, Ends, projects
<1>2. c.kind = "delete" /\ c.id \in Ids
  BY <1>1, CallFacts DEF Types
<1>3. /\ destroys' \in [Ids -> {"none", "removing", "deleting"}]
      /\ \A i \in Ids : destroys'[i] \in {"none", destroys[i]}
  BY <1>1 DEF Deleted, Saga, Types
<1>4. \A i \in Ids : /\ PushesOf(i)' \subseteq PushesOf(i) /\ DeletesOf(i)' \subseteq DeletesOf(i)
                     /\ Listed(i)' = Listed(i)
  BY <1>1, CallEnds DEF Listed
<1>5. Types'
  BY <1>1, <1>3 DEF Types
<1>6. ASSUME NEW i \in Ids, i # c.id
      PROVE  Holds(i)'
  <2>1. Aside(i)
    BY <1>1, <1>3, <1>4, <1>6 DEF Aside, Known
  <2> QED
    BY <1>1, <2>1, AsideHolds DEF IInv
<1>7. Holds(c.id)'
  <2>1. Holds(c.id) /\ c \in DeletesOf(c.id)
    BY <1>2 DEF IInv, DeletesOf
  <2>2. Gone(c.id) /\ Replayed(c.id)
    BY <1>1, <2>1 DEF Holds, Deletion, Known, Replayed
  <2>3. /\ rows[c.id] = Nil /\ trees[c.id] # "none"
        /\ c.id \notin late \cup torn => cloud[c.id] = Nil
    BY <2>1, <2>2 DEF Holds, Erased, Gone
  <2>4. Timed(c.id)' /\ Named(c.id)' /\ Erased(c.id)' /\ Deletion(c.id)'
    BY <1>1, <1>2, <1>3, <2>1, <2>3 DEF Holds, Timed, Named, Erased, Deletion, Known, Gone
  <2>5. Pushing(c.id)'
    <3>1. PushesOf(c.id)' \subseteq PushesOf(c.id) /\ Listed(c.id)' = Listed(c.id)
      BY <1>2, <1>4
    <3> QED
      BY <1>1, <2>1, <2>3, <3>1 DEF Holds, Pushing, CallOK, Pushable
  <2> QED
    BY <2>4, <2>5 DEF Holds
<1> QED
  BY <1>5, <1>6, <1>7 DEF IInv

LEMMA CallFailsStep ==
  ASSUME IInv, NEW c \in calls, CallFails(c)
  PROVE  IInv'
<1>1. /\ Types /\ calls' \subseteq calls /\ clock \in Nat
      /\ UNCHANGED <<rows, tombs, trees, cloud, pass, clock, wish, late,
                 project, cloudProject, torn>>
  BY DEF IInv, Types, CallFails, Ends, Kept, projects
<1>2. /\ destroys' \in [Ids -> {"none", "removing", "deleting"}]
      /\ \A i \in Ids : destroys'[i] \in {"none", destroys[i]}
  BY <1>1 DEF CallFails, Saga, Types
<1>3. Types'
  BY <1>1, <1>2 DEF Types
<1>4. ASSUME NEW i \in Ids
      PROVE  Holds(i)'
  <2>1. Aside(i)
    BY <1>1, <1>2, CallEnds DEF Aside, Known, Listed
  <2> QED
    BY <1>1, <2>1, AsideHolds DEF IInv
<1> QED
  BY <1>3, <1>4 DEF IInv

LEMMA CrashStep == IInv /\ Crash => IInv'
<1> SUFFICES ASSUME IInv, Crash PROVE IInv'
  OBVIOUS
<1>1. /\ Types /\ calls' = {} /\ pass' = Idle /\ destroys' = [id \in Ids |-> "none"]
      /\ clock \in Nat
      /\ UNCHANGED <<rows, tombs, trees, cloud, clock, wish, late,
                 project, cloudProject, torn>>
  BY DEF IInv, Types, Crash, Lost, projects
<1>2. Types'
  BY <1>1 DEF Types, Idle
<1>3. ASSUME NEW i \in Ids
      PROVE  Holds(i)'
  <2>1. PushesOf(i)' = {} /\ DeletesOf(i)' = {} /\ Listed(i)' = {} /\ pass'.tombs = {}
    BY <1>1 DEF PushesOf, DeletesOf, Listed, Idle
  <2>2. Aside(i)
    BY <1>1, <2>1 DEF Aside, Known
  <2> QED
    BY <1>1, <2>2, AsideHolds DEF IInv
<1> QED
  BY <1>2, <1>3 DEF IInv

LEMMA TornDeleteStep ==
  ASSUME IInv, NEW id \in Ids, TornDelete(id)
  PROVE  IInv'
<1>1. /\ Types /\ calls' = {} /\ pass' = Idle /\ destroys' = [i \in Ids |-> "none"]
      /\ rows[id] # Nil /\ rows' = [rows EXCEPT ![id] = Nil] /\ torn' = torn \cup {id}
      /\ destroys[id] = "deleting" /\ clock \in Nat
      /\ UNCHANGED <<tombs, trees, cloud, clock, wish, late, project, cloudProject>>
  BY DEF IInv, Types, TornDelete, Lost
<1>2. Types'
  BY <1>1 DEF Types, Idle
<1>3. \A i \in Ids : /\ PushesOf(i)' = {} /\ DeletesOf(i)' = {} /\ Listed(i)' = {}
                     /\ pass'.tombs = {} /\ destroys'[i] = "none"
                     /\ i # id => rows'[i] = rows[i]
  BY <1>1 DEF PushesOf, DeletesOf, Listed, Idle, Types
<1>4. rows'[id] = Nil /\ id \in torn'
  BY <1>1 DEF Types
<1>5. Holds(id)'
  <2>1. Holds(id) /\ (Known => trees[id] = "gone")
    BY <1>1 DEF IInv, Holds, Deletion
  <2>2. Timed(id)' /\ Deletion(id)'
    BY <1>1, <1>3, <1>4, <2>1 DEF Holds, Timed, Deletion, Known, Gone
  <2>3. Pushing(id)' /\ Erased(id)' /\ Named(id)'
    BY <1>3, <1>4 DEF Pushing, Erased, Named
  <2> QED
    BY <2>2, <2>3 DEF Holds
<1>6. ASSUME NEW i \in Ids, i # id
      PROVE  Holds(i)'
  <2>1. Holds(i) /\ rows'[i] = rows[i]
    BY <1>3, <1>6 DEF IInv
  <2>2. Timed(i)' /\ Deletion(i)'
    BY <1>1, <1>3, <2>1 DEF Holds, Timed, Deletion, Known, Gone
  <2>3. Erased(i)'
    BY <1>1, <1>3, <2>1 DEF Holds, Erased, Gone, Replayed
  <2>4. Pushing(i)'
    BY <1>3 DEF Pushing
  <2>5. Named(i)'
    BY <1>1, <1>3, <2>1 DEF Holds, Named, Pending, CloudIsNewer
  <2> QED
    BY <2>2, <2>3, <2>4, <2>5 DEF Holds
<1> QED
  BY <1>2, <1>5, <1>6 DEF IInv

-----------------------------------------------------------------------------
\* The removal of the project.

\* The host goes on with the removal only when the cloud has served it.
ProjectOK ==
  /\ project \in {"known", "lost", "removed"} /\ cloudProject \in BOOLEAN
  /\ removal.stage \in {"served", "trees"} => cloudProject = FALSE

LEMMA ProjectStep == ProjectOK /\ [Next]_vars => ProjectOK'
<1> SUFFICES ASSUME ProjectOK, [Next]_vars PROVE ProjectOK'
  OBVIOUS
<1> USE DEF ProjectOK, NoRemoval
<1>1. CASE UNCHANGED projects
  BY <1>1 DEF projects
<1>2. CASE RemoveProject
  BY <1>2 DEF RemoveProject
<1>3. CASE CloudRemovesProject
  BY <1>3 DEF CloudRemovesProject
<1>4. CASE RemovalFails \/ ListWorktrees
  BY <1>4 DEF RemovalFails, ListWorktrees
<1>5. ASSUME NEW id \in Ids, TryRemoveTree(id) PROVE ProjectOK'
  BY <1>5 DEF TryRemoveTree
<1>6. CASE DeleteRows \/ LoseProject
  BY <1>6 DEF DeleteRows, LoseProject
<1>7. CASE Lost
  BY <1>7 DEF Lost
<1>8. CASE StartPass \/ PassLists \/ PassEnds \/ Crash
  BY <1>1, <1>7, <1>8 DEF StartPass, PassLists, PassEnds, Crash
<1>9. ASSUME NEW id \in Ids,
             \/ Create(id) \/ Destroy(id) \/ RemoveTree(id) \/ DestroyFails(id)
             \/ CommitDelete(id) \/ TornDelete(id) \/ PassDeletes(id)
             \/ \E name \in Names : Update(id, name) \/ RenameInCloud(id, name)
      PROVE  ProjectOK'
  BY <1>1, <1>7, <1>9 DEF Create, Destroy, RemoveTree, DestroyFails, CommitDelete,
     TornDelete, PassDeletes, Update, RenameInCloud
<1>10. ASSUME NEW e \in pass.rows, PassPushes(e) PROVE ProjectOK'
  BY <1>1, <1>10 DEF PassPushes
<1>11. ASSUME NEW c \in calls,
              \/ CloudCreates(c) \/ CloudRenames(c) \/ CloudDeletes(c)
              \/ Confirmed(c) \/ AdoptName(c) \/ SendName(c) \/ Renamed(c)
              \/ Deleted(c) \/ CallFails(c)
       PROVE  ProjectOK'
  BY <1>1, <1>11 DEF CloudCreates, CloudRenames, CloudDeletes, Confirmed, AdoptName,
     SendName, Renamed, Deleted, CallFails
<1> QED
  BY <1>1, <1>2, <1>3, <1>4, <1>5, <1>6, <1>8, <1>9, <1>10, <1>11 DEF Next, vars

\* A step of the removal leaves calls, sagas and names alone: rows and worktrees go,
\* and the host or the cloud comes to have the project no more.
LEMMA RemovalKeeps ==
  ASSUME IInv,
         UNCHANGED <<tombs, calls, destroys, pass, clock, wish, late, torn>>,
         \A i \in Ids : /\ rows'[i] \in {rows[i], Nil} /\ cloud'[i] \in {cloud[i], Nil}
                        /\ trees'[i] = trees[i] \/ (trees[i] # "none" /\ trees'[i] = "gone"),
         rows' \in [Ids -> LocalRow \cup {Nil}], cloud' \in [Ids -> CloudRow \cup {Nil}],
         trees' \in [Ids -> {"none", "present", "gone"}],
         Known' => Known /\ UNCHANGED <<rows, cloud, trees>>,
         cloudProject' = TRUE => UNCHANGED <<rows, cloud, cloudProject>>,
         cloudProject' = FALSE => \A i \in Ids : cloud'[i] = Nil,
         cloudProject' \in BOOLEAN
  PROVE  IInv'
<1>1. Types /\ Types'
  BY DEF IInv, Types
<1>2. ASSUME NEW i \in Ids
      PROVE  Holds(i)'
  <2>1. Holds(i) /\ rows'[i] \in {rows[i], Nil} /\ cloud'[i] \in {cloud[i], Nil}
    BY DEF IInv
  <2>2. PushesOf(i)' = PushesOf(i) /\ DeletesOf(i)' = DeletesOf(i) /\ Listed(i)' = Listed(i)
    BY DEF PushesOf, DeletesOf, Listed
  <2>3. trees[i] # "none" <=> trees'[i] # "none"
    OBVIOUS
  <2>4. Timed(i)'
    <3>1. cloud'[i] # Nil => cloudProject'
      OBVIOUS
    <3> QED
      BY <2>1, <3>1 DEF Holds, Timed
  <2>5. Deletion(i)'
    BY <2>1, <2>2, <2>3 DEF Holds, Deletion, Gone
  <2>6. CASE cloudProject' = TRUE
    <3>1. Pushing(i)'
      BY <2>1, <2>2, <2>3, <2>6 DEF Holds, Pushing, CallOK, Pushable
    <3>2. Erased(i)' /\ Named(i)'
      BY <2>1, <2>2, <2>3, <2>6 DEF Holds, Erased, Gone, Replayed, Named, Pending, CloudIsNewer
    <3> QED
      BY <2>4, <2>5, <3>1, <3>2 DEF Holds
  <2>7. CASE cloudProject' = FALSE
    <3>1. Pushing(i)'
      BY <2>1, <2>2, <2>3, <2>7 DEF Holds, Pushing, CallOK, Pushable
    <3>2. Erased(i)' /\ Named(i)'
      BY <2>7 DEF Erased, Named
    <3> QED
      BY <2>4, <2>5, <3>1, <3>2 DEF Holds
  <2> QED
    BY <2>6, <2>7
<1> QED
  BY <1>1, <1>2 DEF IInv

LEMMA RemovalStep ==
  ASSUME IInv, ProjectOK,
         \/ RemoveProject \/ CloudRemovesProject \/ RemovalFails \/ ListWorktrees
         \/ DeleteRows \/ LoseProject
         \/ \E id \in Ids : TryRemoveTree(id)
  PROVE  IInv'
<1>1. /\ Types /\ cloudProject \in BOOLEAN /\ clock \in Nat
      /\ cloudProject = FALSE => \A i \in Ids : cloud[i] = Nil
  BY DEF IInv, Types, Holds, Timed, ProjectOK
<1>2. CASE RemoveProject \/ RemovalFails \/ ListWorktrees
  <2>1. /\ UNCHANGED <<rows, tombs, trees, cloud, calls, destroys, pass, project, cloudProject,
                       wish, late, torn>>
        /\ clock' \in Nat /\ clock <= clock'
    BY <1>1, <1>2 DEF RemoveProject, RemovalFails, ListWorktrees, UserActs, Writes
  <2>2. Types'
    BY <1>1, <2>1 DEF Types
  <2>3. ASSUME NEW i \in Ids
        PROVE  Holds(i)'
    <3>1. PushesOf(i)' = PushesOf(i) /\ DeletesOf(i)' = DeletesOf(i) /\ Listed(i)' = Listed(i)
      BY <2>1 DEF PushesOf, DeletesOf, Listed
    <3>2. Aside(i)
      BY <1>1, <2>1, <3>1 DEF Aside, Types
    <3> QED
      BY <1>1, <3>2, AsideHolds DEF IInv
  <2> QED
    BY <2>2, <2>3 DEF IInv
<1>3. CASE CloudRemovesProject
  <2>1. /\ UNCHANGED <<rows, tombs, trees, calls, destroys, pass, project, clock,
                       wish, late, torn>>
        /\ cloudProject' = FALSE /\ cloud' = [i \in Ids |-> Nil]
    BY <1>3 DEF CloudRemovesProject, Cascade
  <2>2. /\ rows' = rows /\ trees' = trees /\ \A i \in Ids : cloud'[i] = Nil
        /\ rows' \in [Ids -> LocalRow \cup {Nil}] /\ cloud' \in [Ids -> CloudRow \cup {Nil}]
        /\ trees' \in [Ids -> {"none", "present", "gone"}]
    BY <1>1, <2>1 DEF Types
  <2>3. ~Known' /\ cloudProject' # TRUE /\ cloudProject' \in BOOLEAN
    BY <2>1 DEF Known
  <2>4. \A i \in Ids : /\ rows'[i] \in {rows[i], Nil} /\ cloud'[i] \in {cloud[i], Nil}
                       /\ trees'[i] = trees[i] \/ (trees[i] # "none" /\ trees'[i] = "gone")
    BY <2>2
  <2> QED
    BY <2>1, <2>2, <2>3, <2>4, RemovalKeeps
<1>4. CASE DeleteRows
  <2>1. /\ UNCHANGED <<tombs, trees, cloud, calls, destroys, pass, cloudProject, clock,
                       wish, late, torn>>
        /\ cloudProject = FALSE
        /\ \E kept \in SUBSET Ids :
             rows' = [id \in Ids |-> IF id \in kept THEN rows[id] ELSE Nil]
    <3>1. cloudProject = FALSE
      BY <1>4 DEF DeleteRows, ProjectOK
    <3>2. ASSUME rows' = [id \in Ids |-> Nil]
          PROVE  rows' = [id \in Ids |-> IF id \in {} THEN rows[id] ELSE Nil]
      BY <3>2
    <3>3. {} \in SUBSET Ids
      OBVIOUS
    <3> QED
      BY <1>4, <3>1, <3>2, <3>3 DEF DeleteRows
  <2>2. PICK kept \in SUBSET Ids :
             rows' = [id \in Ids |-> IF id \in kept THEN rows[id] ELSE Nil]
    BY <2>1
  <2>3. /\ rows' \in [Ids -> LocalRow \cup {Nil}]
        /\ \A i \in Ids : rows'[i] \in {rows[i], Nil}
    BY <1>1, <2>2 DEF Types
  <2>4. /\ cloud' \in [Ids -> CloudRow \cup {Nil}]
        /\ trees' \in [Ids -> {"none", "present", "gone"}]
        /\ \A i \in Ids : cloud'[i] = Nil
    BY <1>1, <2>1 DEF Types
  <2>5. ~Known' /\ cloudProject' = FALSE
    BY <2>1 DEF Known
  <2>6. \A i \in Ids : /\ rows'[i] \in {rows[i], Nil} /\ cloud'[i] \in {cloud[i], Nil}
                       /\ trees'[i] = trees[i] \/ (trees[i] # "none" /\ trees'[i] = "gone")
    BY <2>1, <2>3
  <2> QED
    BY <2>1, <2>3, <2>4, <2>5, <2>6, RemovalKeeps
<1>5. CASE LoseProject
  <2>1. /\ UNCHANGED <<rows, tombs, trees, cloud, calls, destroys, pass, cloudProject, clock,
                       wish, late, torn>>
        /\ project' = "lost"
    BY <1>5 DEF LoseProject
  <2>2. /\ rows' \in [Ids -> LocalRow \cup {Nil}] /\ cloud' \in [Ids -> CloudRow \cup {Nil}]
        /\ trees' \in [Ids -> {"none", "present", "gone"}]
    BY <1>1, <2>1 DEF Types
  <2>3. ~Known' /\ cloudProject' \in BOOLEAN
    BY <1>1, <2>1 DEF Known
  <2>4. \A i \in Ids : /\ rows'[i] \in {rows[i], Nil} /\ cloud'[i] \in {cloud[i], Nil}
                       /\ trees'[i] = trees[i] \/ (trees[i] # "none" /\ trees'[i] = "gone")
    BY <2>1
  <2>5. cloudProject' = FALSE => \A i \in Ids : cloud'[i] = Nil
    BY <1>1, <2>1
  <2> QED
    BY <2>1, <2>2, <2>3, <2>4, <2>5, RemovalKeeps
<1>6. ASSUME NEW id \in Ids, TryRemoveTree(id)
      PROVE  IInv'
  <2>1. /\ UNCHANGED <<rows, tombs, cloud, calls, destroys, pass, project, cloudProject, clock,
                       wish, late, torn>>
        /\ cloudProject = FALSE
    BY <1>6 DEF TryRemoveTree, ProjectOK
  <2>2. \/ trees[id] = "present" /\ trees' = [trees EXCEPT ![id] = "gone"]
        \/ trees' = trees
    BY <1>6 DEF TryRemoveTree
  <2>3. CASE trees' = trees
    <3>1. /\ trees' \in [Ids -> {"none", "present", "gone"}]
          /\ \A i \in Ids : trees'[i] = trees[i]
      BY <1>1, <2>3 DEF Types
    <3>2. /\ rows' \in [Ids -> LocalRow \cup {Nil}] /\ cloud' \in [Ids -> CloudRow \cup {Nil}]
          /\ ~Known' /\ cloudProject' = FALSE /\ \A i \in Ids : cloud'[i] = Nil
      BY <1>1, <2>1 DEF Types, Known
    <3>3. \A i \in Ids : /\ rows'[i] \in {rows[i], Nil} /\ cloud'[i] \in {cloud[i], Nil}
                         /\ trees'[i] = trees[i] \/ (trees[i] # "none" /\ trees'[i] = "gone")
      BY <2>1, <3>1
    <3> QED
      BY <2>1, <3>1, <3>2, <3>3, RemovalKeeps
  <2>4. CASE trees[id] = "present" /\ trees' = [trees EXCEPT ![id] = "gone"]
    <3>1. /\ trees' \in [Ids -> {"none", "present", "gone"}]
          /\ trees'[id] = "gone"
          /\ \A i \in Ids : i # id => trees'[i] = trees[i]
      BY <1>1, <2>4 DEF Types
    <3>2. /\ rows' \in [Ids -> LocalRow \cup {Nil}] /\ cloud' \in [Ids -> CloudRow \cup {Nil}]
          /\ ~Known' /\ cloudProject' = FALSE /\ \A i \in Ids : cloud'[i] = Nil
      BY <1>1, <2>1 DEF Types, Known
    <3>3. \A i \in Ids : /\ rows'[i] \in {rows[i], Nil} /\ cloud'[i] \in {cloud[i], Nil}
                         /\ trees'[i] = trees[i] \/ (trees[i] # "none" /\ trees'[i] = "gone")
      BY <2>1, <2>4, <3>1
    <3> QED
      BY <2>1, <3>1, <3>2, <3>3, RemovalKeeps
  <2> QED
    BY <2>2, <2>3, <2>4
<1> QED
  BY <1>2, <1>3, <1>4, <1>5, <1>6

LEMMA StutterStep == IInv /\ UNCHANGED vars => IInv'
<1> SUFFICES ASSUME IInv, UNCHANGED vars PROVE IInv'
  OBVIOUS
<1>1. UNCHANGED <<rows, tombs, trees, cloud, calls, destroys, clock, wish, late, pass,
                 project, cloudProject, torn>>
  BY DEF vars, projects
<1>2. Types
  BY DEF IInv
<1>3. /\ pass' \in [stage : {"idle", "deletes", "creates"}, tombs : SUBSET Ids,
                    rows : SUBSET [id : Ids, row : LocalRow]]
      /\ pass'.tombs \subseteq tombs \cup pass.tombs /\ pass'.rows \subseteq pass.rows
  BY <1>1, <1>2 DEF Types
<1> QED
  BY <1>1, <1>3, PassKeeps

-----------------------------------------------------------------------------
\* The theorems.

LEMMA StepHolds == IInv /\ ProjectOK /\ [Next]_vars => IInv'
<1> SUFFICES ASSUME IInv, ProjectOK, [Next]_vars PROVE IInv'
  OBVIOUS
<1>1. ASSUME NEW id \in Ids, Create(id) PROVE IInv'
  BY <1>1, CreateStep
<1>2. ASSUME NEW id \in Ids, Destroy(id) PROVE IInv'
  BY <1>2, DestroyStep
<1>3. ASSUME NEW id \in Ids, RemoveTree(id) PROVE IInv'
  BY <1>3, RemoveTreeStep
<1>4. ASSUME NEW id \in Ids, DestroyFails(id) PROVE IInv'
  BY <1>4, DestroyFailsStep
<1>5. ASSUME NEW id \in Ids, CommitDelete(id) PROVE IInv'
  BY <1>5, CommitDeleteStep
<1>6. ASSUME NEW id \in Ids, PassDeletes(id) PROVE IInv'
  BY <1>6, PassDeletesStep
<1>7. ASSUME NEW id \in Ids, NEW name \in Names, Update(id, name) PROVE IInv'
  BY <1>7, UpdateStep
<1>8. ASSUME NEW id \in Ids, NEW name \in Names, RenameInCloud(id, name) PROVE IInv'
  BY <1>8, RenameInCloudStep
<1>9. ASSUME NEW e \in pass.rows, PassPushes(e) PROVE IInv'
  BY <1>9, PassPushesStep
<1>10. ASSUME NEW c \in calls, CloudCreates(c) PROVE IInv'
  BY <1>10, CloudCreatesStep
<1>11. ASSUME NEW c \in calls, CloudRenames(c) PROVE IInv'
  BY <1>11, CloudRenamesStep
<1>12. ASSUME NEW c \in calls, CloudDeletes(c) PROVE IInv'
  BY <1>12, CloudDeletesStep
<1>13. ASSUME NEW c \in calls, Confirmed(c) PROVE IInv'
  BY <1>13, ConfirmedStep
<1>14. ASSUME NEW c \in calls, AdoptName(c) PROVE IInv'
  BY <1>14, AdoptNameStep
<1>15. ASSUME NEW c \in calls, SendName(c) PROVE IInv'
  BY <1>15, SendNameStep
<1>16. ASSUME NEW c \in calls, Renamed(c) PROVE IInv'
  BY <1>16, RenamedStep
<1>17. ASSUME NEW c \in calls, Deleted(c) PROVE IInv'
  BY <1>17, DeletedStep
<1>18. ASSUME NEW c \in calls, CallFails(c) PROVE IInv'
  BY <1>18, CallFailsStep
<1>19. ASSUME NEW id \in Ids, TornDelete(id) PROVE IInv'
  BY <1>19, TornDeleteStep
<1>20. ASSUME NEW id \in Ids, TryRemoveTree(id) PROVE IInv'
  BY <1>20, RemovalStep
<1> QED
  BY <1>1, <1>2, <1>3, <1>4, <1>5, <1>6, <1>7, <1>8, <1>9, <1>10, <1>11, <1>12, <1>13,
     <1>14, <1>15, <1>16, <1>17, <1>18, <1>19, <1>20, RemovalStep, StartPassStep,
     PassListsStep, PassEndsStep, CrashStep, StutterStep DEF Next

LEMMA InvariantHolds == Spec => []IInv
<1>1. Init => ProjectOK
  BY DEF Init, ProjectOK, NoRemoval
<1> QED
  BY <1>1, InitHolds, ProjectStep, StepHolds, PTL DEF Spec

\* A worktree on disk has a row and can be deleted again, whatever a deletion met
\* with and whatever crashed, as long as the project is known here and in the
\* cloud: no removal of it has been served and its row is not missing
\* (workspace-cleanup.ts, project.remove).
THEOREM WorktreesHaveRows == Spec => []NoOrphanWorktree
<1>1. IInv => NoOrphanWorktree
  BY DEF IInv, Holds, Deletion, Known, NoOrphanWorktree
<1> QED
  BY <1>1, InvariantHolds, PTL

\* A deletion is final: once nothing of it is left to do the cloud does not have
\* the workspace, however often a delete or a removal failed or the host crashed,
\* unless a push of an older row was served after a later write or the host crashed
\* between the row's deletion and its tombstone (workspace-cleanup.ts step 3,
\* project.remove, the reconciler's tombstones).
THEOREM DeletionIsFinal == Spec => []DeletedStaysDeleted
<1>1. ASSUME IInv PROVE DeletedStaysDeleted
  <2>1. \A id \in Ids : Erased(id)
    BY <1>1 DEF IInv, Holds
  <2> QED
    BY <2>1 DEF Erased, Gone, Replayed, DeletesOf, DeletedStaysDeleted, Forgotten, CallsOf
<1> QED
  BY <1>1, InvariantHolds, PTL

\* Of two names the last written wins: a row that counts as synced shows in the
\* cloud the name a user gave last, there or here, unless a push that a later
\* write had overtaken was served or the cloud has deleted the project
\* (pushWorkspaceCreateToCloud, markWorkspaceCloudSynced).
THEOREM LastNameWins == Spec => []LastWriteWins
<1>1. ASSUME IInv PROVE LastWriteWins
  <2>1. \A id \in Ids : Named(id)
    BY <1>1 DEF IInv, Holds
  <2> QED
    BY <2>1 DEF Named, LastWriteWins, Settled, ShowsWish
<1> QED
  BY <1>1, InvariantHolds, PTL

=============================================================================
