------------------------------ MODULE Migrations ------------------------------
(***************************************************************************)
(* The Alembic revisions that turn single-user tasks into collaborative    *)
(* ones (alembic/versions), with the applications that serve between them. *)
(*                                                                         *)
(*   Base      6c2f9a4d7e31  tasks have owner_id and completed             *)
(*   Expand    9f4c2a7b1d30  nullable collaboration columns, mapping table *)
(*   Backfill  c1e8d5a4b762  a personal workspace per user, tasks filled   *)
(*   Contract  d4b6e8f1a203  NOT NULL, owner_id and completed dropped      *)
(*   Cleanup   e5a1c7d9b302  mapping table dropped                         *)
(*                                                                         *)
(* A command takes the database one revision up or down ("upgrade head" is *)
(* several).  MySQL commits every DDL statement on its own, so each is a   *)
(* step and a crash between two leaves a part of the script; Alembic then  *)
(* records the revision in a step of its own.  Backfill is DML only: with  *)
(* its version row it is one transaction, so one step.  API writes are     *)
(* stopped while a command runs (docs/database-migrations.md).             *)
(*                                                                         *)
(* Operators whose names end in "Slip" are plausible mistakes in the       *)
(* definition that follows them; the specification does not use them.      *)
(***************************************************************************)
EXTENDS Policies, Integers, FiniteSets, Sequences

CONSTANTS
  Users,          \* ids that users can get
  Workspaces,     \* ids that workspaces can get
  Tasks,          \* ids that tasks can get
  Contents,       \* values of title/description/priority taken together
  ValidContents,  \* those that the final CHECK constraints admit
  MaxEdits        \* bound: writes of the applications

ASSUME ConstantsAssumption ==
  /\ Users \subseteq Nat \ {NoUser}
  /\ Workspaces \subseteq Nat \ {0}
  /\ Tasks \subseteq Nat \ {0} /\ IsFiniteSet(Tasks)  \* INTEGER columns
  /\ ValidContents \subseteq Contents
  /\ "none" \notin Contents
  /\ MaxEdits \in Nat

VARIABLES
  revision,  \* alembic_version
  schema,    \* the columns, constraints and tables the revisions add and drop
  users,     \* ids in users
  creator,   \* workspaces: id -> created_by_id, NoUser if there is no such row
  role,      \* workspace_members: workspace -> user -> role, or NoRole
  task,      \* tasks: id -> row, as in TaskBoard
  legacy,    \* tasks: id -> owner_id and completed
  mapping,   \* task_collaboration_user_workspace_map: user -> row
  pristine,  \* tasks whose timestamps are still the mapping's migrated_at
  command,   \* the alembic command in progress
  outcome    \* how the last one ended

VARIABLES
  edits,     \* history: writes of the applications so far
  crashed,   \* history: a command has been interrupted
  meant      \* history: task -> whose it is and whether it is done

tables == <<users, creator, role, task, legacy, mapping, pristine>>
history == <<edits, crashed, meant>>
vars == <<revision, schema, tables, command, outcome, history>>

-----------------------------------------------------------------------------
(* Rows.                                                                   *)

Null == "NULL"
NoLegacy == [owner |-> NoUser, completed |-> Null]
NoMapping == [ws |-> 0, count |-> 0, maxId |-> 0]

\* An old row: the collaboration columns are absent or NULL.
OldRow(c) ==
  [phase |-> "live", ws |-> 0, creator |-> NoUser,
   assignee |-> NoUser, status |-> Null, content |-> c]

NoRoles == [u \in Users |-> NoRole]

Live(t) == task[t].phase = "live"
LiveTasks == {t \in Tasks : Live(t)}

Completed(done) == IF done THEN "true" ELSE "false"
StatusOf(completed) == IF completed = "true" THEN "DONE" ELSE "TODO"

\* COUNT(*) and MAX(id) of a user's tasks, 0 for the NULL of an empty set.
Owned(u) == {t \in LiveTasks : legacy[t].owner = u}
MaxId(S) == IF S = {} THEN 0 ELSE CHOOSE x \in S : \A y \in S : y <= x

Mapped == {u \in Users : mapping[u] # NoMapping}
Home(u) == mapping[u].ws

-----------------------------------------------------------------------------
(* The schema: what the revisions add to and drop from tasks, and the      *)
(* mapping table.  A statement adds or drops one object, or updates rows.  *)

Each(kind, names) == [i \in DOMAIN names |-> <<kind, names[i]>>]
Backwards(s) == [i \in DOMAIN s |-> s[Len(s) + 1 - i]]
Adding(objects) == [i \in DOMAIN objects |-> [verb |-> "add", object |-> objects[i]]]
Dropping(objects) == [i \in DOMAIN objects |-> [verb |-> "drop", object |-> objects[i]]]

Objects(s) == {s[i] : i \in DOMAIN s}

Column(c) == <<"column", c>>
NotNull(c) == <<"not null", c>>
MappingTable == <<"table", "task_collaboration_user_workspace_map">>

Columns ==
  Each("column", <<"workspace_id", "creator_id", "assignee_id", "status",
                   "created_at", "updated_at">>)
References == Each("foreign key", <<"workspace_id", "creator_id", "assignee_id">>)
StatusCheck == <<"check", "status">>
Indexes ==
  Each("index", <<"workspace_id_id", "workspace_status_id", "workspace_assignee_id",
                  "creator_id", "assignee_id">>)
Required ==
  Each("not null", <<"workspace_id", "creator_id", "status", "created_at", "updated_at">>)
ContentChecks == Each("check", <<"title_length", "priority">>)
LegacyColumns == Each("column", <<"owner_id", "completed">>)
LegacyRequired == Each("not null", <<"owner_id", "completed">>)
OwnerReference == <<"foreign key", "owner_id">>

BaseSchema == Objects(LegacyColumns) \cup Objects(LegacyRequired) \cup {OwnerReference}

\* The tasks table that _validate_task_structure of e5a1c7d9b302 expects.
FinalTasks ==
  Objects(Columns) \cup Objects(References) \cup {StatusCheck} \cup Objects(Indexes)
    \cup Objects(Required) \cup Objects(ContentChecks)

ExpandedSchema ==
  BaseSchema \cup Objects(Columns) \cup Objects(References) \cup {StatusCheck}
    \cup Objects(Indexes) \cup {MappingTable}

Base == 0
Expand == 1
Backfill == 2
Contract == 3
Cleanup == 4
Revisions == Base..Cleanup

SchemaAt(r) ==
  CASE r = Base -> BaseSchema
    [] r \in {Expand, Backfill} -> ExpandedSchema
    [] r = Contract -> FinalTasks \cup {MappingTable}
    [] OTHER -> FinalTasks

ExpandUp ==
  Adding(Columns \o References \o <<StatusCheck>> \o Indexes \o <<MappingTable>>)

ExpandDown ==
  Dropping(<<MappingTable>> \o Backwards(References) \o <<StatusCheck>>
             \o Backwards(Indexes) \o Backwards(Columns))

ContractUp ==
  Adding(Required \o ContentChecks) \o Dropping(<<OwnerReference>> \o LegacyColumns)

ContractDown ==
  Adding(LegacyColumns)
    \o <<[verb |-> "update", object |-> <<"rows", "tasks">>]>>
    \o Adding(LegacyRequired \o <<OwnerReference>>)
    \o Dropping(Backwards(ContentChecks) \o Backwards(Required))

CleanupUp == Dropping(<<MappingTable>>)

Script(r, direction) ==
  CASE r = Base /\ direction = "up" -> ExpandUp
    [] r = Backfill /\ direction = "up" -> ContractUp
    [] r = Contract /\ direction = "up" -> CleanupUp
    [] r = Expand /\ direction = "down" -> ExpandDown
    [] OTHER -> ContractDown

-----------------------------------------------------------------------------
(* A statement: MySQL refuses it, or it takes effect and is committed.     *)

IsNull(c, t) ==
  CASE c = "workspace_id" -> task[t].ws = 0
    [] c = "creator_id" -> task[t].creator = NoUser
    [] c = "owner_id" -> legacy[t].owner = NoUser
    [] c = "completed" -> legacy[t].completed = Null
    [] OTHER -> task[t].status = Null  \* status and the timestamps are set together

\* Every row satisfies the new constraint.
RowsAdmit(object) ==
  \A t \in LiveTasks :
    /\ object[1] = "not null" => ~IsNull(object[2], t)
    /\ object \in Objects(ContentChecks) => task[t].content \in ValidContents

\* A duplicate or missing name is an error; ALTER COLUMN may be repeated.
Executable(s) ==
  LET alters == s.object[1] = "not null" IN
    /\ (s.verb # "update" /\ alters) => Column(s.object[2]) \in schema
    /\ (s.verb = "add" /\ ~alters) => s.object \notin schema
    /\ (s.verb = "drop" /\ ~alters) => s.object \in schema
    /\ s.verb = "add" => RowsAdmit(s.object)

WithoutColumn(row, object) ==
  CASE object = Column("workspace_id") -> [row EXCEPT !.ws = 0]
    [] object = Column("creator_id") -> [row EXCEPT !.creator = NoUser]
    [] object = Column("assignee_id") -> [row EXCEPT !.assignee = NoUser]
    [] object = Column("status") -> [row EXCEPT !.status = Null]
    [] OTHER -> row

WithoutLegacyColumn(row, object) ==
  CASE object = Column("owner_id") -> [row EXCEPT !.owner = NoUser]
    [] object = Column("completed") -> [row EXCEPT !.completed = Null]
    [] OTHER -> row

Add(object) ==
  /\ schema' = schema \cup {object}
  /\ UNCHANGED tables

\* A column takes its NOT NULL along.
Drop(object) ==
  /\ schema' = schema \ {object, IF object[1] = "column" THEN NotNull(object[2]) ELSE object}
  /\ task' = [t \in Tasks |-> IF Live(t) THEN WithoutColumn(task[t], object) ELSE task[t]]
  /\ legacy' = [t \in Tasks |-> WithoutLegacyColumn(legacy[t], object)]
  /\ mapping' = IF object = MappingTable THEN [u \in Users |-> NoMapping] ELSE mapping
  /\ UNCHANGED <<users, creator, role, pristine>>

\* downgrade of d4b6e8f1a203: IN_PROGRESS becomes completed = false.
RestoreLegacySlip(row) == [owner |-> row.creator, completed |-> row.status]

RestoreLegacy(row) == [owner |-> row.creator, completed |-> Completed(row.status = "DONE")]

\* The UPDATE is committed by the ALTER TABLE that follows it, before that runs.
UpdateTasks ==
  /\ legacy' = [t \in Tasks |-> IF Live(t) THEN RestoreLegacy(task[t]) ELSE legacy[t]]
  /\ UNCHANGED <<schema, users, creator, role, task, mapping, pristine>>

Execute(s) ==
  \/ s.verb = "add" /\ Add(s.object)
  \/ s.verb = "drop" /\ Drop(s.object)
  \/ s.verb = "update" /\ UpdateTasks

-----------------------------------------------------------------------------
(* The checks that come before a script.                                   *)

\* The memberships of a workspace are the one of its OWNER u.
OwnerAlone(members, u) ==
  members[u] = "OWNER" /\ \A x \in Users \ {u} : members[x] = NoRole

\* owner_id and completed say the same as creator_id and status.
AgreesSlip(row, old) == row.creator = old.owner

Agrees(row, old) ==
  /\ row.creator = old.owner
  /\ old.completed = "true" => row.status = "DONE"
  /\ old.completed = "false" => row.status = "TODO"

Filled(row) == row.ws # 0 /\ row.creator # NoUser /\ row.status # Null

\* _validate_upgrade of c1e8d5a4b762, on the tables its upgrade has written.
BackfillVerified(newCreator, newRole, newTask, newMapping) ==
  /\ users = {u \in Users : newMapping[u] # NoMapping}
  /\ \A u \in users :
       /\ newCreator[newMapping[u].ws] = u
       /\ OwnerAlone(newRole[newMapping[u].ws], u)
       /\ newMapping[u].count = Cardinality(Owned(u))
       /\ newMapping[u].maxId = MaxId(Owned(u))
  /\ \A t \in LiveTasks :
       /\ Filled(newTask[t]) /\ Agrees(newTask[t], legacy[t])
       /\ newTask[t].assignee = NoUser
       /\ newTask[t].ws = newMapping[legacy[t].owner].ws
  /\ \A w \in Workspaces :
       creator[w] # NoUser => newCreator[w] = creator[w] /\ newRole[w] = role[w]

TasksUnchangedSlip(u) == \A t \in LiveTasks : task[t].ws = Home(u) => legacy[t].owner = u

\* The tasks in a generated workspace are as the backfill left them.
TasksUnchanged(u) ==
  \A t \in LiveTasks :
    task[t].ws = Home(u) =>
      /\ legacy[t].owner = u /\ Agrees(task[t], legacy[t])
      /\ task[t].assignee = NoUser
      /\ t \in pristine

\* _validate_downgrade of c1e8d5a4b762.
BackfillUnchanged ==
  \A u \in Mapped :
    /\ u \in users
    /\ creator[Home(u)] = u
    /\ OwnerAlone(role[Home(u)], u)
    /\ Cardinality(Owned(u)) = mapping[u].count
    /\ MaxId(Owned(u)) = mapping[u].maxId
    /\ Cardinality({t \in LiveTasks : task[t].ws = Home(u)}) = mapping[u].count
    /\ TasksUnchanged(u)

\* Title and priority pass the CHECKs the contract is going to create.
ContentFitsSlip(row) == TRUE

ContentFits(row) == row.content \in ValidContents

\* _validate_upgrade of d4b6e8f1a203.
ContractAllowed ==
  /\ {MappingTable, OwnerReference} \cup Objects(LegacyColumns) \subseteq schema
  /\ users = Mapped
  /\ \A u \in Mapped : role[Home(u)][u] = "OWNER"
  /\ \A t \in LiveTasks :
       /\ Filled(task[t]) /\ Agrees(task[t], legacy[t])
       /\ ContentFits(task[t])
       /\ task[t].ws = Home(legacy[t].owner)

\* _validate_downgrade of d4b6e8f1a203.
ContractUndoAllowed ==
  \A t \in LiveTasks : task[t].creator # NoUser /\ task[t].status \in Statuses

\* _validate_mapping_data of e5a1c7d9b302.
MappingSoundSlip ==
  /\ users = Mapped
  /\ \A u \in Mapped : creator[Home(u)] = u /\ role[Home(u)][u] = "OWNER"

MappingSound ==
  /\ \A u, v \in Mapped : Home(u) = Home(v) => u = v
  /\ \A u \in Mapped : u \in users /\ creator[Home(u)] = u /\ role[Home(u)][u] = "OWNER"

\* _validate_structure and _validate_task_data of e5a1c7d9b302.
CleanupAllowed ==
  /\ schema = FinalTasks \cup {MappingTable}
  /\ MappingSound
  /\ \A t \in LiveTasks :
       /\ Filled(task[t]) /\ task[t].status \in Statuses
       /\ creator[task[t].ws] # NoUser /\ task[t].creator \in users
       /\ task[t].assignee \in users \cup {NoUser}

UpgradeAllowed ==
  CASE revision = Backfill -> ContractAllowed
    [] revision = Contract -> CleanupAllowed
    [] OTHER -> TRUE

\* downgrade of e5a1c7d9b302 raises before it touches anything.
DowngradeAllowed ==
  CASE revision = Cleanup -> FALSE
    [] revision = Contract -> ContractUndoAllowed
    [] OTHER -> TRUE

-----------------------------------------------------------------------------
(* Commands.                                                               *)

NoCommand == [direction |-> "none", step |-> 0]
Idle == command = NoCommand

End(how) == command' = NoCommand /\ outcome' = how

Refuse(direction) ==
  /\ End([is |-> "refused", direction |-> direction])
  /\ UNCHANGED <<revision, schema, tables, history>>

Succeed(r) ==
  /\ End([is |-> "done", direction |-> "none"])
  /\ revision' = r
  /\ UNCHANGED <<schema, history>>

Start(direction, allowed) ==
  \/ /\ ~allowed
     /\ Refuse(direction)
  \/ /\ allowed
     /\ command' = [direction |-> direction, step |-> 1]
     /\ UNCHANGED <<revision, schema, tables, outcome, history>>

StartUpgrade ==
  /\ Idle
  /\ revision \in {Base, Backfill, Contract}
  /\ Start("up", UpgradeAllowed)

StartDowngrade ==
  /\ Idle
  /\ revision \in {Expand, Contract, Cleanup}
  /\ Start("down", DowngradeAllowed)

\* The row upgrade of c1e8d5a4b762 makes of a task; home is its owner's workspace.
Backfilled(row, old, home) ==
  [row EXCEPT !.ws = home, !.creator = old.owner, !.assignee = NoUser,
              !.status = StatusOf(old.completed)]

\* Personal workspaces get fresh ids in the order of the users.
Homes ==
  {home \in [users -> {w \in Workspaces : creator[w] = NoUser}] :
     \A u, v \in users : u < v => home[u] < home[v]}

UpgradeToBackfill ==
  /\ Idle
  /\ revision = Expand
  /\ \/ /\ MappingTable \notin schema \/ Mapped # {}
        /\ Refuse("up")
     \/ /\ MappingTable \in schema /\ Mapped = {}
        /\ \E home \in Homes :
             LET newCreator == [w \in Workspaces |->
                   IF \E u \in users : home[u] = w
                   THEN CHOOSE u \in users : home[u] = w ELSE creator[w]]
                 newRole == [w \in Workspaces |->
                   IF \E u \in users : home[u] = w
                   THEN [NoRoles EXCEPT ![newCreator[w]] = "OWNER"] ELSE role[w]]
                 newTask == [t \in Tasks |->
                   IF Live(t) THEN Backfilled(task[t], legacy[t], home[legacy[t].owner])
                   ELSE task[t]]
                 newMapping == [u \in Users |->
                   IF u \in users
                   THEN [ws |-> home[u], count |-> Cardinality(Owned(u)), maxId |-> MaxId(Owned(u))]
                   ELSE NoMapping]
             IN  \/ /\ BackfillVerified(newCreator, newRole, newTask, newMapping)
                    /\ Succeed(Backfill)
                    /\ creator' = newCreator
                    /\ role' = newRole
                    /\ task' = newTask
                    /\ mapping' = newMapping
                    /\ pristine' = LiveTasks
                    /\ UNCHANGED <<users, legacy>>
                 \/ /\ ~BackfillVerified(newCreator, newRole, newTask, newMapping)
                    /\ Refuse("up")

Generated == {Home(u) : u \in Mapped}

\* The tasks that downgrade of c1e8d5a4b762 empties.
Returned == {t \in LiveTasks : legacy[t].owner \in Mapped /\ task[t].ws = Home(legacy[t].owner)}

\* NOT NULL columns and RESTRICT foreign keys let the statements through.
UndoExecutable ==
  /\ Returned # {} => Objects(Required) \cap schema = {}
  /\ \A u \in Mapped : \A x \in Users \ {u} : role[Home(u)][x] = NoRole
  /\ \A t \in LiveTasks \ Returned : task[t].ws \notin Generated

CanUndoBackfill ==
  /\ {MappingTable} \cup Objects(LegacyColumns) \subseteq schema
  /\ BackfillUnchanged
  /\ UndoExecutable

\* The workspaces that are left when it has deleted the generated ones.
UngeneratedSlip == creator

Ungenerated == [w \in Workspaces |-> IF w \in Generated THEN NoUser ELSE creator[w]]

DowngradeFromBackfill ==
  /\ Idle
  /\ revision = Backfill
  /\ \/ /\ ~CanUndoBackfill
        /\ Refuse("down")
     \/ /\ CanUndoBackfill
        /\ Succeed(Expand)
        /\ creator' = Ungenerated
        /\ role' = [w \in Workspaces |-> IF w \in Generated THEN NoRoles ELSE role[w]]
        /\ task' = [t \in Tasks |->
             IF t \in Returned THEN OldRow(task[t].content) ELSE task[t]]
        /\ mapping' = [u \in Users |-> NoMapping]
        /\ pristine' = {}
        /\ UNCHANGED <<users, legacy>>

\* The next statement of the script; an error ends the command where it is.
RunStatement ==
  /\ ~Idle
  /\ LET script == Script(revision, command.direction) IN
       /\ command.step <= Len(script)
       /\ \/ /\ Executable(script[command.step])
             /\ Execute(script[command.step])
             /\ command' = [command EXCEPT !.step = @ + 1]
             /\ UNCHANGED <<revision, outcome, history>>
          \/ /\ ~Executable(script[command.step])
             /\ Refuse(command.direction)

\* Alembic records the new revision after the last statement.
RecordRevision ==
  /\ ~Idle
  /\ command.step > Len(Script(revision, command.direction))
  /\ Succeed(IF command.direction = "up" THEN revision + 1 ELSE revision - 1)
  /\ UNCHANGED tables

\* The process, the connection or the server fails between two statements.
Crash ==
  /\ ~Idle
  /\ End([is |-> "crashed", direction |-> "none"])
  /\ crashed' = TRUE
  /\ UNCHANGED <<revision, schema, tables, edits, meant>>

-----------------------------------------------------------------------------
(* The applications.  Both write through foreign keys and AUTO_INCREMENT.  *)

Board == INSTANCE TaskBoard
  WITH Contents <- ValidContents, creator <- creator, role <- role, task <- task

\* The foreign keys of workspaces, workspace_members and tasks.
ReferencesHold ==
  /\ \A w \in Workspaces : creator[w] \in users \cup {NoUser}
  /\ \A w \in Workspaces, u \in Users : role[w][u] # NoRole => u \in users
  /\ \A t \in LiveTasks : {task[t].creator, legacy[t].owner} \subseteq users \cup {NoUser}

\* Ids are drawn in ascending order; those of deleted tasks are not drawn again.
DrawnInOrder ==
  \A s, t \in Tasks :
    s < t /\ task[s].phase = "unused" => task[t].phase = "unused"

NothingMeant == [owner |-> NoUser, done |-> FALSE]

Edit ==
  /\ Idle
  /\ edits < MaxEdits
  /\ edits' = edits + 1
  /\ UNCHANGED <<revision, schema, mapping, command, outcome, crashed>>

Register(u) ==
  /\ Edit
  /\ u \notin users
  /\ users' = users \cup {u}
  /\ UNCHANGED <<creator, role, task, legacy, pristine, meant>>

\* The application of this commit starts on the final schema only.
NewAppServes == revision \in {Contract, Cleanup} /\ schema \ {MappingTable} = FinalTasks

\* Its requests are those of TaskBoard; an UPDATE renews updated_at.
NewAppWrites ==
  /\ NewAppServes
  /\ Edit
  /\ UNCHANGED <<users, legacy>>
  /\ Board!Next
  /\ ReferencesHold' /\ DrawnInOrder'
  /\ pristine' = {t \in pristine : task'[t] = task[t]}
  /\ meant' = [t \in Tasks |->
       IF task'[t].phase = "live"
       THEN [owner |-> task'[t].creator, done |-> task'[t].status = "DONE"]
       ELSE NothingMeant]

\* The application before it knows owner_id and completed only; nullable columns
\* let it go on up to the contract.
OldAppServes == revision \in {Base, Expand, Backfill} /\ schema = SchemaAt(revision)

OldTask(t, row, old, meaning) ==
  /\ OldAppServes
  /\ Edit
  /\ task' = [task EXCEPT ![t] = row]
  /\ legacy' = [legacy EXCEPT ![t] = old]
  /\ meant' = [meant EXCEPT ![t] = meaning]
  /\ UNCHANGED <<users, creator, role>>

CreateOldTask(t, u, c) ==
  /\ u \in users
  /\ task[t].phase = "unused"
  /\ OldTask(t, OldRow(c), [owner |-> u, completed |-> "false"], [owner |-> u, done |-> FALSE])
  /\ DrawnInOrder'
  /\ UNCHANGED pristine

SetCompleted(t, done) ==
  /\ Live(t)
  /\ legacy[t].completed # Completed(done)
  /\ OldTask(t, task[t], [legacy[t] EXCEPT !.completed = Completed(done)],
             [meant[t] EXCEPT !.done = done])
  /\ UNCHANGED pristine

DeleteOldTask(t) ==
  /\ Live(t)
  /\ OldTask(t, Board!EmptyRow("deleted"), NoLegacy, NothingMeant)
  /\ pristine' = pristine \ {t}

OldAppWritesWorkspaces ==
  /\ OldAppServes
  /\ Edit
  /\ \E w \in Workspaces, u \in users :
       \/ Board!CreateWorkspace(w, u)
       \/ \E newRole \in AssignableRoles : Board!AddMember(w, u, newRole)
  /\ UNCHANGED <<users, legacy, pristine, meant>>

-----------------------------------------------------------------------------
(* The specification.                                                      *)

\* Any old database that satisfies the foreign keys.
LegacyDatabase ==
  /\ users \in SUBSET Users
  /\ creator \in [Workspaces -> users \cup {NoUser}]
  /\ role \in [Workspaces -> [Users -> RolesOrNone]]
  /\ \A w \in Workspaces, u \in Users :
       /\ role[w][u] # NoRole => u \in users /\ creator[w] # NoUser
       /\ role[w][u] = "OWNER" <=> creator[w] = u
  /\ task \in [Tasks -> {OldRow(c) : c \in Contents} \cup {Board!EmptyRow("unused")}]
  /\ legacy \in [Tasks -> [owner : users, completed : {"true", "false"}] \cup {NoLegacy}]
  /\ \A t \in Tasks : Live(t) <=> legacy[t] # NoLegacy
  /\ DrawnInOrder

InitialCommand ==
  /\ revision = Base
  /\ schema = BaseSchema
  /\ mapping = [u \in Users |-> NoMapping]
  /\ pristine = {}
  /\ command = NoCommand
  /\ outcome = [is |-> "none", direction |-> "none"]
  /\ edits = 0
  /\ crashed = FALSE
  /\ meant = [t \in Tasks |->
       IF Live(t) THEN [owner |-> legacy[t].owner, done |-> legacy[t].completed = "true"]
       ELSE NothingMeant]

Init == LegacyDatabase /\ InitialCommand

Commands ==
  \/ StartUpgrade \/ StartDowngrade
  \/ UpgradeToBackfill \/ DowngradeFromBackfill
  \/ RunStatement \/ RecordRevision
  \/ Crash

Applications ==
  \/ \E u \in Users : Register(u)
  \/ NewAppWrites
  \/ \E t \in Tasks :
       \/ \E u \in Users, c \in Contents : CreateOldTask(t, u, c)
       \/ \E done \in BOOLEAN : SetCompleted(t, done)
       \/ DeleteOldTask(t)
  \/ OldAppWritesWorkspaces

Next == Commands \/ Applications

Spec == Init /\ [][Next]_vars

-----------------------------------------------------------------------------
(* Properties.                                                             *)

TaskRows ==
  [phase : {"live"}, ws : Workspaces \cup {0}, creator : Users \cup {NoUser},
   assignee : Users \cup {NoUser}, status : Statuses \cup {Null}, content : Contents]
    \cup {Board!EmptyRow("unused"), Board!EmptyRow("deleted")}

\* Every table holds rows its columns admit.
TypeOK ==
  /\ revision \in Revisions
  /\ schema \subseteq ExpandedSchema \cup FinalTasks
  /\ users \subseteq Users
  /\ creator \in [Workspaces -> Users \cup {NoUser}]
  /\ role \in [Workspaces -> [Users -> RolesOrNone]]
  /\ task \in [Tasks -> TaskRows]
  /\ legacy \in [Tasks -> [owner : Users \cup {NoUser}, completed : {"true", "false", Null}]]
  /\ mapping \in [Users -> [ws : Workspaces \cup {0}, count : Nat, maxId : Nat]]
  /\ pristine \subseteq LiveTasks
  /\ command \in [direction : {"none", "up", "down"}, step : Nat]
  /\ outcome \in [is : {"none", "done", "refused", "crashed"}, direction : {"none", "up", "down"}]
  /\ edits \in 0..MaxEdits
  /\ crashed \in BOOLEAN
  /\ meant \in [Tasks -> [owner : Users \cup {NoUser}, done : BOOLEAN]]

\* Whose a task is and whether it is done can be read from its row at every
\* moment, between any two DDL statements and after any crash, and is what its
\* users last made it: no column goes before another says the same.
NoFactLost ==
  \A t \in LiveTasks :
    /\ {legacy[t].owner, task[t].creator} \ {NoUser} = {meant[t].owner}
    /\ legacy[t].completed # Null \/ task[t].status # Null
    /\ meant[t].done = IF legacy[t].completed # Null THEN legacy[t].completed = "true"
                       ELSE task[t].status = "DONE"

\* Unless a command crashed, the tables have exactly the schema of the recorded
\* revision whenever none runs: a refused one stops before its first DDL statement.
RevisionTellsSchema == Idle /\ ~crashed => schema = SchemaAt(revision)

\* Unless a command crashed, the backfill and the cleanup are never refused, the
\* contract only after old writes or on content it cannot admit, and a downgrade
\* only at the irreversible cleanup or when the backfilled data was written to.
RefusalsAreEarned ==
  (outcome.is = "refused" /\ ~crashed) =>
    IF outcome.direction = "up"
    THEN /\ revision = Backfill
         /\ edits > 0 \/ \E t \in LiveTasks : task[t].content \notin ValidContents
    ELSE \/ revision = Cleanup
         \/ (revision = Backfill /\ edits > 0)

\* What the application of this commit finds when it serves is a state of
\* TaskBoard: one OWNER per workspace, its creator, and well-formed rows of
\* existing workspaces, whatever the old data and the way to the final schema.
MigratedTablesAreABoard ==
  /\ \A w \in Workspaces, u \in Users : role[w][u] = "OWNER" <=> creator[w] = u
  /\ NewAppServes =>
       \A t \in LiveTasks :
         /\ task[t].ws \in Workspaces /\ creator[task[t].ws] # NoUser
         /\ task[t].creator \in users /\ task[t].status \in Statuses
         /\ task[t].content \in ValidContents

\* A task or a membership as users left it after the backfill.
UsersWorkKept ==
  /\ \A t \in LiveTasks :
       /\ task'[t].phase = "live" /\ task'[t].content = task[t].content
       /\ task[t].assignee # NoUser => task'[t].assignee = task[t].assignee
       /\ task[t].status = "IN_PROGRESS" => task'[t].status = "IN_PROGRESS"
  /\ \A w \in Workspaces, u \in Users :
       (role[w][u] # NoRole /\ (u \in Mapped => Home(u) # w)) => role'[w][u] = role[w][u]

\* From the backfill on, no command touches assignments, work in progress or any
\* membership but the generated ones.
CommandsKeepUsersWork ==
  [][(edits' = edits /\ revision >= Backfill) => UsersWorkKept]_vars

\* docs/database-migrations.md: the backfill's downgrade refuses when it finds
\* later work, so that none is deleted; 9f4c2a7b1d30 drops its columns "after the
\* data revision is reversed".  So no downgrade script takes a task out of its
\* workspace.  The check looks at mapped users only.
DowngradesKeepUsersWork ==
  [][(edits' = edits /\ command.direction = "down") =>
       \A t \in LiveTasks : task[t].ws # 0 => task'[t].ws = task[t].ws]_vars
=============================================================================
