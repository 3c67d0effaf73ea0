---------------------------- MODULE WorkspaceSync ----------------------------
(***************************************************************************)
(* Workspaces of a host-service and their mirror in the cloud:             *)
(* local-workspace-store.ts, workspace-cloud-sync.ts, the deletion saga of *)
(* workspace-cleanup.ts, workspace.update, the removal of their project,   *)
(* and the cloud's procedures.                                             *)
(*                                                                         *)
(* A write commits to the local row, which is then dirty, and is pushed to *)
(* the cloud by a call nobody waits for; what fails is left to a           *)
(* reconciler.  A push is two requests, create-or-confirm and, if the      *)
(* cloud's name is the older one, a rename.  Several calls of a workspace  *)
(* may be under way, and rows change meanwhile.                            *)
(*                                                                         *)
(* One clock serves the host and the cloud and advances with each write.   *)
(* A request of a call that failed or whose host crashed does not arrive   *)
(* later.  Workspaces are worktrees: a main workspace, which the cloud may *)
(* know under another id, can be neither renamed nor deleted.  They are of *)
(* one project.  Its removal deletes it in the cloud, whose rows of its    *)
(* workspaces go with it, then the worktrees as far as git lets it, then   *)
(* the rows, of which no tombstones are kept.  One removal runs at a time. *)
(***************************************************************************)
EXTENDS Integers, FiniteSets

CONSTANTS
  Ids, Names,
  First,      \* the name a workspace is created with
  Faults,     \* "fail": a request or a removal fails; "crash": the host-service;
              \* "torn": it crashes between the two statements of a deletion;
              \* "metadata": the project's row is missing, the workspaces' are not
  Renderers,  \* whether a renderer renames in the cloud
  Nil,        \* no row
  \* bounds of the instance
  MaxCalls,   \* calls under way
  MaxClock,   \* time after which no user acts
  MaxFaults

ASSUME SyncAssumption ==
  /\ First \in Names
  /\ Nil \notin Names \cup [name : Names, at : Nat] \cup [name : Names, at : Nat, synced : BOOLEAN]
  /\ Faults \subseteq {"fail", "crash", "torn", "metadata"} /\ Renderers \in BOOLEAN
  /\ MaxCalls \in Nat /\ MaxClock \in Nat /\ MaxFaults \in Nat

VARIABLES
  rows,       \* local table: name, updatedAt, whether cloudSyncedAt is set
  tombs,      \* workspace_cloud_deletes
  trees,      \* worktrees: "none" yet, "present", "gone"
  cloud,      \* table of the cloud: name, updatedAt
  calls,      \* calls under way: kind, workspace, owner, the row pushed, where
              \* it is, and the cloud's answer
  destroys,   \* deletion sagas under way: none, "removing", "deleting"
  pass,       \* the reconciler: its stage, tombstones and rows still to push
  project,    \* the project's local row: "known", "lost" or "removed"
  cloudProject, \* whether the cloud has the project
  removal,    \* project.remove: its stage, and worktrees still to be removed
  clock, faults,
  wish,       \* ghost: the name in the last row a user wrote, here or there
  late,       \* ghost: workspaces of which a call that had been overtaken by a
              \* later write was served, or its answer taken
  torn        \* ghost: workspaces whose row went without a tombstone in a crash

projects == <<project, cloudProject, removal>>
vars == <<rows, tombs, trees, cloud, calls, destroys, pass, projects, clock, faults,
          wish, late, torn>>

Fault(kind) == kind \in Faults /\ faults < MaxFaults /\ faults' = faults + 1

Idle == [stage |-> "idle", tombs |-> {}, rows |-> {}]
NoRemoval == [stage |-> "idle", left |-> {}]

\* The next write's time.
Writes == clock' = clock + 1
UserActs == clock < MaxClock /\ Writes

CallsOf(id) == {c \in calls : c.id = id}
OwnedBy(owner) == {c \in calls : c.owner = owner}

\* The row a call pushes is not the table's any more.
Overtaken(c) == rows[c.id] = Nil \/ rows[c.id].at # c.pushed.at
LateIf(c, condition) == late' = IF condition THEN late \cup {c.id} ELSE late

\* A call starts: pushWorkspaceCreateToCloud of row r, or v2Workspace.delete.
Starts(kind, owner, id, r) ==
  /\ Cardinality(calls) < MaxCalls
  /\ calls' = calls \cup {[kind |-> kind, owner |-> owner, id |-> id, pushed |-> r,
                           at |-> "asked", answer |-> Nil]}

Moves(c, at, answer) == calls' = (calls \ {c}) \cup {[c EXCEPT !.at = at, !.answer = answer]}
Ends(c) == calls' = calls \ {c}

Row(name, time) == [name |-> name, at |-> time]
Local(r, synced) == [name |-> r.name, at |-> r.at, synced |-> synced]
-----------------------------------------------------------------------------
\* The users.

\* workspaces.create: the row, then its push.
Create(id) ==
  /\ trees[id] = "none" /\ project = "known"
  /\ UserActs
  /\ trees' = [trees EXCEPT ![id] = "present"]
  /\ rows' = [rows EXCEPT ![id] = Local(Row(First, clock'), FALSE)]
  /\ Starts("push", "user", id, rows'[id])
  /\ wish' = [wish EXCEPT ![id] = First]
  /\ UNCHANGED <<tombs, cloud, destroys, pass, faults, late, projects, torn>>

\* workspace.update: of the name, or of something else.
Update(id, name) ==
  /\ rows[id] # Nil
  /\ UserActs
  /\ rows' = [rows EXCEPT ![id] = Local(Row(name, clock'), FALSE)]
  /\ Starts("push", "user", id, rows'[id])
  /\ wish' = [wish EXCEPT ![id] = name]
  /\ UNCHANGED <<tombs, trees, cloud, destroys, pass, faults, late, projects, torn>>

\* v2Workspace.update from a renderer.
RenameInCloud(id, name) ==
  /\ Renderers
  /\ cloud[id] # Nil
  /\ UserActs
  /\ cloud' = [cloud EXCEPT ![id] = Row(name, clock')]
  /\ wish' = [wish EXCEPT ![id] = name]
  /\ UNCHANGED <<rows, tombs, trees, calls, destroys, pass, faults, late, projects, torn>>

-----------------------------------------------------------------------------
\* The deletion saga.

\* It reads the workspace's row and the project's once: without either of them
\* the worktree is left alone.
Found(id) == IF rows[id] # Nil /\ project = "known" THEN "removing" ELSE "deleting"

Destroy(id) ==
  /\ trees[id] # "none" /\ destroys[id] = "none"
  /\ UserActs
  /\ destroys' = [destroys EXCEPT ![id] = Found(id)]
  /\ UNCHANGED <<rows, tombs, trees, cloud, calls, pass, faults, wish, late, projects, torn>>

\* With a bug: what git says is not looked at.
Removed_OrNot(id) == {"present", "gone"}

\* What becomes of the worktree when its removal is taken for done.
Removed(id) == {"gone"}

\* git worktree remove, and a look at git's registry.
RemoveTree(id) ==
  /\ destroys[id] = "removing"
  /\ \E t \in Removed(id) : trees' = [trees EXCEPT ![id] = t]
  /\ destroys' = [destroys EXCEPT ![id] = "deleting"]
  /\ UNCHANGED <<rows, tombs, cloud, calls, pass, clock, faults, wish, late, projects, torn>>

\* A dirty worktree, a teardown script that fails, a worktree that stays.
DestroyFails(id) ==
  /\ destroys[id] = "removing"
  /\ Fault("fail")
  /\ destroys' = [destroys EXCEPT ![id] = "none"]
  /\ UNCHANGED <<rows, tombs, trees, cloud, calls, pass, clock, wish, late, projects, torn>>

\* deleteLocalWorkspace, and the delete in the cloud.
CommitDelete(id) ==
  /\ destroys[id] = "deleting" /\ OwnedBy("destroy") \cap CallsOf(id) = {}
  /\ rows' = [rows EXCEPT ![id] = Nil]
  /\ tombs' = tombs \cup {id}
  /\ Starts("delete", "destroy", id, Nil)
  /\ UNCHANGED <<trees, cloud, destroys, pass, clock, faults, wish, late, projects, torn>>

-----------------------------------------------------------------------------
\* project.remove.

RemoveProject ==
  /\ removal.stage = "idle" /\ project # "removed"
  /\ UserActs
  /\ removal' = [NoRemoval EXCEPT !.stage = "asked"]
  /\ UNCHANGED <<rows, tombs, trees, cloud, calls, destroys, pass, project, cloudProject,
                 faults, wish, late, torn>>

\* v2Project.delete: they go with it.
Cascade == [id \in Ids |-> Nil]

CloudRemovesProject ==
  /\ removal.stage = "asked"
  /\ cloudProject' = FALSE
  /\ cloud' = Cascade
  /\ removal' = [removal EXCEPT !.stage = "served"]
  /\ UNCHANGED <<rows, tombs, trees, calls, destroys, pass, project, clock, faults,
                 wish, late, torn>>

\* The request fails, before or after it was served: nothing else is done.
RemovalFails ==
  /\ removal.stage \in {"asked", "served"}
  /\ Fault("fail")
  /\ removal' = NoRemoval
  /\ UNCHANGED <<rows, tombs, trees, cloud, calls, destroys, pass, project, cloudProject,
                 clock, wish, late, torn>>

ListWorktrees ==
  /\ removal.stage = "served"
  /\ removal' = IF project = "known"
                 THEN [stage |-> "trees", left |-> {id \in Ids : rows[id] # Nil}]
                 ELSE NoRemoval
  /\ UNCHANGED <<rows, tombs, trees, cloud, calls, destroys, pass, project, cloudProject,
                 clock, faults, wish, late, torn>>

\* git worktree remove, which refuses one with changes: that is logged.
TryRemoveTree(id) ==
  /\ removal.stage = "trees" /\ id \in removal.left
  /\ \/ trees[id] = "present" /\ trees' = [trees EXCEPT ![id] = "gone"]
     \/ UNCHANGED trees
  /\ removal' = [removal EXCEPT !.left = @ \ {id}]
  /\ UNCHANGED <<rows, tombs, cloud, calls, destroys, pass, project, cloudProject,
                 clock, faults, wish, late, torn>>

\* The rows, one by one, then the project's, with which any other row of it goes.
\* A statement that fails ends that, and is logged.
DeleteRows ==
  /\ removal.stage = "trees" /\ removal.left = {}
  /\ \/ /\ rows' = [id \in Ids |-> Nil]
        /\ project' = "removed"
        /\ UNCHANGED faults
     \/ /\ Fault("fail")
        /\ \E kept \in SUBSET Ids :
             rows' = [id \in Ids |-> IF id \in kept THEN rows[id] ELSE Nil]
        /\ UNCHANGED project
  /\ removal' = NoRemoval
  /\ UNCHANGED <<tombs, trees, cloud, calls, destroys, pass, cloudProject, clock, wish,
                 late, torn>>

\* A database whose project row is missing although its foreign keys forbid it:
\* the saga provides for it.
LoseProject ==
  /\ project = "known" /\ removal.stage # "trees"
  /\ Fault("metadata")
  /\ project' = "lost"
  /\ UNCHANGED <<rows, tombs, trees, cloud, calls, destroys, pass, cloudProject, removal,
                 clock, wish, late, torn>>

-----------------------------------------------------------------------------
\* The reconciler: tombstones first, then dirty rows, one call after another.

StartPass ==
  /\ pass.stage = "idle"
  /\ pass' = [stage |-> "deletes", tombs |-> tombs, rows |-> {}]
  /\ UNCHANGED <<rows, tombs, trees, cloud, calls, destroys, clock, faults, wish, late, projects, torn>>

PassDeletes(id) ==
  /\ pass.stage = "deletes" /\ id \in pass.tombs /\ OwnedBy("pass") = {}
  /\ pass' = [pass EXCEPT !.tombs = @ \ {id}]
  /\ Starts("delete", "pass", id, Nil)
  /\ UNCHANGED <<rows, tombs, trees, cloud, destroys, clock, faults, wish, late, projects, torn>>

\* With a bug: only rows the cloud does not know are pushed.
Unsynced_OfTheNew == {id \in Ids : rows[id] # Nil /\ cloud[id] = Nil}

\* listUnsyncedWorkspaces.
Unsynced == {id \in Ids : rows[id] # Nil /\ ~rows[id].synced}

PassLists ==
  /\ pass.stage = "deletes" /\ pass.tombs = {} /\ OwnedBy("pass") = {}
  /\ pass' = [pass EXCEPT !.stage = "creates",
                          !.rows = {[id |-> id, row |-> rows[id]] : id \in Unsynced}]
  /\ UNCHANGED <<rows, tombs, trees, cloud, calls, destroys, clock, faults, wish, late, projects, torn>>

PassPushes(e) ==
  /\ pass.stage = "creates" /\ e \in pass.rows /\ OwnedBy("pass") = {}
  /\ pass' = [pass EXCEPT !.rows = @ \ {e}]
  /\ Starts("push", "pass", e.id, e.row)
  /\ UNCHANGED <<rows, tombs, trees, cloud, destroys, clock, faults, wish, late, projects, torn>>

PassEnds ==
  /\ pass.stage = "creates" /\ pass.rows = {} /\ OwnedBy("pass") = {}
  /\ pass' = Idle
  /\ UNCHANGED <<rows, tombs, trees, cloud, calls, destroys, clock, faults, wish, late, projects, torn>>

-----------------------------------------------------------------------------
\* The cloud serves a request.

\* v2Workspace.create: the row of that id, new or as it was.
CloudCreates(c) ==
  /\ c \in calls /\ c.kind = "push" /\ c.at = "asked" /\ cloudProject
  /\ IF cloud[c.id] = Nil
     THEN Writes /\ cloud' = [cloud EXCEPT ![c.id] = Row(c.pushed.name, clock')]
     ELSE UNCHANGED <<cloud, clock>>
  /\ Moves(c, "confirmed", cloud'[c.id])
  /\ LateIf(c, cloud[c.id] = Nil /\ Overtaken(c))
  /\ UNCHANGED <<rows, tombs, trees, destroys, pass, faults, wish, projects, torn>>

\* v2Workspace.updateNameFromHost.
CloudRenames(c) ==
  /\ c \in calls /\ c.at = "renaming" /\ cloud[c.id] # Nil
  /\ Writes
  /\ cloud' = [cloud EXCEPT ![c.id] = Row(c.pushed.name, clock')]
  /\ Moves(c, "renamed", Nil)
  /\ LateIf(c, Overtaken(c) \/ cloud[c.id] # c.answer)
  /\ UNCHANGED <<rows, tombs, trees, destroys, pass, faults, wish, projects, torn>>

\* v2Workspace.delete, which is content with a row that is gone.
CloudDeletes(c) ==
  /\ c \in calls /\ c.kind = "delete" /\ c.at = "asked"
  /\ cloud' = [cloud EXCEPT ![c.id] = Nil]
  /\ Moves(c, "deleted", Nil)
  /\ UNCHANGED <<rows, tombs, trees, destroys, pass, clock, faults, wish, late, projects, torn>>

-----------------------------------------------------------------------------
\* The host gets an answer.

\* With a bug: whatever happened to the row meanwhile.
Marked_Blindly(c) == rows[c.id] # Nil

\* markWorkspaceCloudSynced's condition: the row is the one that was pushed.
Marked(c) == rows[c.id] # Nil /\ rows[c.id].at = c.pushed.at

MarkSynced(c) ==
  rows' = IF Marked(c) THEN [rows EXCEPT ![c.id].synced = TRUE] ELSE rows

CloudNewer(c) == c.answer.at > c.pushed.at

\* The names agree.
Confirmed(c) ==
  /\ c \in calls /\ c.at = "confirmed" /\ c.answer.name = c.pushed.name
  /\ MarkSynced(c)
  /\ Ends(c)
  /\ UNCHANGED <<tombs, trees, cloud, destroys, pass, clock, faults, wish, late, projects, torn>>

\* The cloud's name is newer than the row that was pushed: the row takes it.
AdoptName(c) ==
  /\ c \in calls /\ c.at = "confirmed" /\ c.answer.name # c.pushed.name
  /\ CloudNewer(c)
  /\ IF rows[c.id] = Nil THEN UNCHANGED <<rows, clock>>
     ELSE /\ Writes
          /\ rows' = [rows EXCEPT ![c.id] = Local(Row(c.answer.name, clock'), TRUE)]
  /\ Ends(c)
  /\ LateIf(c, Overtaken(c))
  /\ UNCHANGED <<tombs, trees, cloud, destroys, pass, faults, wish, projects, torn>>

\* It is older: the cloud is told.
SendName(c) ==
  /\ c \in calls /\ c.at = "confirmed" /\ c.answer.name # c.pushed.name
  /\ ~CloudNewer(c)
  /\ Moves(c, "renaming", c.answer)
  /\ UNCHANGED <<rows, tombs, trees, cloud, destroys, pass, clock, faults, wish, late, projects, torn>>

Renamed(c) ==
  /\ c \in calls /\ c.at = "renamed"
  /\ MarkSynced(c)
  /\ Ends(c)
  /\ UNCHANGED <<tombs, trees, cloud, destroys, pass, clock, faults, wish, late, projects, torn>>

\* The end of the saga, if the call is its own.
Saga(c) ==
  IF c.kind = "delete" /\ c.owner = "destroy"
  THEN [destroys EXCEPT ![c.id] = "none"] ELSE destroys

Deleted(c) ==
  /\ c \in calls /\ c.at = "deleted"
  /\ tombs' = tombs \ {c.id}
  /\ destroys' = Saga(c)
  /\ Ends(c)
  /\ UNCHANGED <<rows, trees, cloud, pass, clock, faults, wish, late, projects, torn>>

\* With a bug: a deletion is given up.
Kept_Never(c) == tombs \ {c.id}

Kept(c) == tombs

\* The cloud has no row to rename, or no project to create the row in.
Refused(c) ==
  \/ c.at = "renaming" /\ cloud[c.id] = Nil
  \/ c.kind = "push" /\ c.at = "asked" /\ ~cloudProject

\* An error, before or after the request was served: what is dirty stays dirty.
CallFails(c) ==
  /\ c \in calls
  /\ Fault("fail") \/ (Refused(c) /\ UNCHANGED faults)
  /\ tombs' = Kept(c)
  /\ destroys' = Saga(c)
  /\ Ends(c)
  /\ UNCHANGED <<rows, trees, cloud, pass, clock, wish, late, projects, torn>>

-----------------------------------------------------------------------------
Lost ==
  /\ calls' = {} /\ pass' = Idle /\ removal' = NoRemoval
  /\ destroys' = [id \in Ids |-> "none"]
  /\ UNCHANGED <<tombs, trees, cloud, project, cloudProject, clock, wish, late>>

\* The host-service crashes and is started again.
Crash == Fault("crash") /\ Lost /\ UNCHANGED <<rows, torn>>

\* It crashes inside deleteLocalWorkspace, between the row and its tombstone.
TornDelete(id) ==
  /\ destroys[id] = "deleting" /\ OwnedBy("destroy") \cap CallsOf(id) = {}
  /\ rows[id] # Nil
  /\ Fault("torn") /\ Lost
  /\ rows' = [rows EXCEPT ![id] = Nil]
  /\ torn' = torn \cup {id}

Init ==
  /\ rows = [id \in Ids |-> Nil] /\ cloud = [id \in Ids |-> Nil]
  /\ tombs = {} /\ calls = {}
  /\ trees = [id \in Ids |-> "none"]
  /\ destroys = [id \in Ids |-> "none"]
  /\ pass = Idle
  /\ project = "known" /\ cloudProject = TRUE /\ removal = NoRemoval
  /\ clock = 0 /\ faults = 0
  /\ wish = [id \in Ids |-> Nil] /\ late = {} /\ torn = {}

Next ==
  \/ \E id \in Ids :
       \/ Create(id) \/ Destroy(id) \/ RemoveTree(id) \/ DestroyFails(id)
       \/ CommitDelete(id) \/ TornDelete(id) \/ PassDeletes(id) \/ TryRemoveTree(id)
       \/ \E name \in Names : Update(id, name) \/ RenameInCloud(id, name)
  \/ RemoveProject \/ CloudRemovesProject \/ RemovalFails \/ ListWorktrees
  \/ DeleteRows \/ LoseProject
  \/ StartPass \/ PassLists \/ PassEnds \/ Crash
  \/ \E e \in pass.rows : PassPushes(e)
  \/ \E c \in calls :
       \/ CloudCreates(c) \/ CloudRenames(c) \/ CloudDeletes(c)
       \/ Confirmed(c) \/ AdoptName(c) \/ SendName(c) \/ Renamed(c)
       \/ Deleted(c) \/ CallFails(c)

Spec == Init /\ [][Next]_vars

\* What the host does on its own and what the cloud does with a request: the
\* reconciler's timer fires, sagas go on, requests are answered or fail.
PassStep ==
  \/ StartPass \/ PassLists \/ PassEnds
  \/ \E id \in Ids : PassDeletes(id)
  \/ \E e \in pass.rows : PassPushes(e)
CallStep(id) == \E c \in CallsOf(id) :
  \/ CloudCreates(c) \/ CloudRenames(c) \/ CloudDeletes(c)
  \/ Confirmed(c) \/ AdoptName(c) \/ SendName(c) \/ Renamed(c) \/ Deleted(c)
  \/ (cloud[id] = Nil /\ CallFails(c))

FairSpec ==
  /\ Spec /\ WF_vars(PassStep)
  /\ \A id \in Ids : WF_vars(RemoveTree(id) \/ CommitDelete(id)) /\ WF_vars(CallStep(id))

-----------------------------------------------------------------------------
Moment == 0..(MaxClock + 8)
RowType == [name : Names, at : Moment]
LocalType == [name : Names, at : Moment, synced : BOOLEAN]

TypeOK ==
  /\ rows \in [Ids -> LocalType \cup {Nil}] /\ cloud \in [Ids -> RowType \cup {Nil}]
  /\ tombs \subseteq Ids /\ late \subseteq Ids /\ torn \subseteq Ids
  /\ project \in {"known", "lost", "removed"} /\ cloudProject \in BOOLEAN
  /\ removal.stage \in {"idle", "asked", "served", "trees"} /\ removal.left \subseteq Ids
  /\ trees \in [Ids -> {"none", "present", "gone"}]
  /\ destroys \in [Ids -> {"none", "removing", "deleting"}]
  /\ clock \in Moment /\ faults \in 0..MaxFaults
  /\ wish \in [Ids -> Names \cup {Nil}]
  /\ \A c \in calls :
       /\ c.id \in Ids /\ c.owner \in {"user", "destroy", "pass"}
       /\ c.at \in {"asked", "confirmed", "renaming", "renamed", "deleted"}
       /\ (c.kind = "delete") = (c.pushed = Nil)

\* A deletion is final: when nothing of it is left to do the cloud does not have the
\* workspace, whatever failed or crashed on the way and whether the workspace or its
\* project was removed; unless a push of an older row was served after it, or the
\* host crashed between the row's deletion and its tombstone
\* (workspace-cleanup.ts step 3, project.remove, the reconciler's tombstones).
Forgotten(id) ==
  trees[id] # "none" /\ rows[id] = Nil /\ CallsOf(id) = {} /\ id \notin tombs
    => cloud[id] = Nil
DeletedStaysDeleted == \A id \in Ids \ (late \cup torn) : Forgotten(id)

\* The same without the second excuse: a local deletion reaches the cloud in the end
\* (deleteLocalWorkspace "tombstones the id so the reconciler can replay the delete").
DeletionIsReplayed == \A id \in Ids \ late : Forgotten(id)

\* Of two names the last written wins: when a row counts as synced and no call of
\* it is under way, the cloud shows the last user's name, wherever it was given,
\* unless a call that had been overtaken was served, or the project is deleted in
\* the cloud (pushWorkspaceCreateToCloud, markWorkspaceCloudSynced).
Settled(id) == rows[id] # Nil /\ rows[id].synced /\ CallsOf(id) = {}
ShowsWish(id) == cloud[id] # Nil /\ cloud[id].name = wish[id]
LastWriteWins == \A id \in Ids \ late : Settled(id) /\ cloudProject => ShowsWish(id)

\* The same without the excuse, for users of this host only: what a rename of the
\* row says is what the cloud shows once the row is synced
\* (local-workspace-store.ts, a write that lands in the middle of a push).
RenameIsKept == \A id \in Ids : Settled(id) /\ cloudProject => ShowsWish(id)

\* As long as the host and the cloud have the project, a worktree on disk has a row:
\* it can be seen, and deleted again.  A removal of the project, once the cloud has
\* served it, may leave the worktrees that git would not remove, and a deletion those
\* whose project row is missing
\* (workspace-cleanup.ts, what becomes of a removal that fails; project.remove).
NoOrphanWorktree ==
  project = "known" /\ cloudProject => \A id \in Ids : trees[id] = "present" => rows[id] # Nil

\* Once users rest and nothing fails any more, every tombstone is replayed and every
\* row synced, unless the project is deleted in the cloud: the host and its mirror
\* settle.
SyncSettles ==
  <>[](tombs = {} /\ \A id \in Ids : rows[id] = Nil \/ rows[id].synced \/ ~cloudProject)
=============================================================================
