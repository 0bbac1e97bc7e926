------------------------- MODULE MigratedTablesProofs -------------------------
(***************************************************************************)
(* The tables between and after the migrations: their types, what the      *)
(* application of this commit finds in them, and what a refusal is about,  *)
(* for every old database and every sequence of upgrades, downgrades,      *)
(* crashes and writes.                                                     *)
(***************************************************************************)
EXTENDS MigrationsProofs, Induction

-----------------------------------------------------------------------------
(* Types.                                                                  *)

\* The types of a row, a member list and a mapping.
LiveRow ==
  [phase : {"live"}, ws : Workspaces \cup {0}, creator : Users \cup {NoUser},
   assignee : Users \cup {NoUser}, status : Statuses \cup {Null}, content : Contents]

LegacyRow == [owner : Users \cup {NoUser}, completed : {"true", "false", Null}]
MappingRow == [ws : Workspaces \cup {0}, count : Nat, maxId : Nat]
Meaning == [owner : Users \cup {NoUser}, done : BOOLEAN]
Roster == [Users -> RolesOrNone]

\* The tables, the history and the whole state are of their types.
TypedMembers == creator \in [Workspaces -> Users \cup {NoUser}] /\ role \in [Workspaces -> Roster]
TypedTasks == task \in [Tasks -> TaskRows] /\ legacy \in [Tasks -> LegacyRow]
TypedHistory ==
  /\ edits \in 0..MaxEdits /\ crashed \in BOOLEAN /\ meant \in [Tasks -> Meaning]
  /\ outcome \in [is : {"none", "done", "refused", "crashed"}, direction : {"none", "up", "down"}]

Typed ==
  /\ TypedMembers /\ TypedTasks /\ TypedHistory
  /\ schema \subseteq BaseSchema \cup New \cup Final
  /\ mapping \in [Users -> MappingRow]
  /\ pristine \subseteq LiveTasks

\* With the facts, that is the type invariant.
LEMMA TypesTogether ==
  ASSUME IInv, Typed
  PROVE  TypeOK
<1>1. ExpandedSchema \cup FinalTasks = BaseSchema \cup New \cup Final
  BY DEF ExpandedSchema, FinalTasks, New, Final
<1>2. revision \in Revisions /\ users \subseteq Users
  BY DEF IInv, Running, Rows
<1>3. command \in [direction : {"none", "up", "down"}, step : Nat]
  <2>1. CASE Idle
    BY <2>1 DEF Idle, NoCommand
  <2>2. CASE ~Idle
    BY <2>2 DEF IInv, Running
  <2> QED BY <2>1, <2>2
<1> QED
  BY <1>1, <1>2, <1>3
  DEF Typed, TypedMembers, TypedTasks, TypedHistory, TypeOK, LegacyRow, MappingRow, Meaning, Roster

\* A live row of a typed table is one of the record set.
LEMMA LiveRows ==
  ASSUME TypedTasks, NEW t \in Tasks
  PROVE  /\ task[t] \in TaskRows /\ legacy[t] \in LegacyRow
         /\ Live(t) => task[t] \in LiveRow
BY DEF TypedTasks, TaskRows, LiveRow, Live, Board!EmptyRow

\* The rows that are written are of their types.
LEMMA RowKinds ==
  /\ LiveRow \subseteq TaskRows
  /\ Board!EmptyRow("unused") \in TaskRows /\ Board!EmptyRow("deleted") \in TaskRows
  /\ \A c \in Contents : OldRow(c) \in LiveRow
  /\ NoLegacy \in LegacyRow /\ NoMapping \in MappingRow /\ NothingMeant \in Meaning
  /\ NoRoles \in Roster
<1>1. LiveRow \subseteq TaskRows
  BY DEF LiveRow, TaskRows
<1>2. Board!EmptyRow("unused") \in TaskRows /\ Board!EmptyRow("deleted") \in TaskRows
  BY DEF TaskRows
<1>3. \A c \in Contents : OldRow(c) \in LiveRow
  BY DEF OldRow, LiveRow
<1>4. NoLegacy \in LegacyRow /\ NoMapping \in MappingRow /\ NothingMeant \in Meaning
  BY DEF NoLegacy, LegacyRow, NoMapping, MappingRow, NothingMeant, Meaning
<1>5. NoRoles \in Roster
  BY DEF NoRoles, Roster, RolesOrNone, NoRole
<1> QED BY <1>1, <1>2, <1>3, <1>4, <1>5

\* COUNT(*) and MAX(id) are numbers.
LEMMA CountsTyped ==
  ASSUME NEW u
  PROVE  Cardinality(Owned(u)) \in Nat /\ MaxId(Owned(u)) \in Nat
<1> DEFINE S == Owned(u)
<1>1. S \subseteq Tasks /\ IsFiniteSet(S) /\ Tasks \subseteq Nat \ {0}
  BY ConstantsAssumption, FS_Subset DEF Owned, LiveTasks
<1> HIDE DEF S
<1>2. Cardinality(S) \in Nat
  BY <1>1, FS_CardinalityType
<1>3. CASE S # {}
  <2> DEFINE f == [x \in S |-> x]
  <2>1. f \in [S -> Nat]
    BY <1>1
  <2>2. PICK x \in S : \A y \in S : f[y] <= f[x]
    <3> HIDE DEF f
    <3> QED BY <1>1, <1>3, <2>1, Greatest
  <2>3. \E z \in S : \A y \in S : y <= z
    BY <2>2
  <2>4. MaxId(S) \in S
    BY <1>3, <2>3 DEF MaxId
  <2> QED BY <1>1, <1>2, <2>4 DEF S
<1>4. CASE S = {}
  BY <1>2, <1>4 DEF MaxId, S
<1> QED BY <1>3, <1>4

\* What an accepted backfill has written.
BackfillTables(home) ==
  /\ BackfillVerified(creator', role', task', mapping')
  /\ creator' = [w \in Workspaces |->
       IF \E u \in users : home[u] = w
       THEN CHOOSE u \in users : home[u] = w ELSE creator[w]]
  /\ role' = [w \in Workspaces |->
       IF \E u \in users : home[u] = w
       THEN [NoRoles EXCEPT ![creator'[w]] = "OWNER"] ELSE role[w]]
  /\ task' = [t \in Tasks |->
       IF Live(t) THEN Backfilled(task[t], legacy[t], home[legacy[t].owner]) ELSE task[t]]
  /\ mapping' = [u \in Users |->
       IF u \in users
       THEN [ws |-> home[u], count |-> Cardinality(Owned(u)), maxId |-> MaxId(Owned(u))]
       ELSE NoMapping]
  /\ pristine' = LiveTasks

\* The backfill writes them, for homes of its choice.
LEMMA BackfillWrites ==
  ASSUME UpgradeToBackfill, ~Refuse("up")
  PROVE  /\ Succeed(Backfill) /\ revision = Expand /\ UNCHANGED <<users, legacy, schema, history>>
         /\ \E home \in Homes : BackfillTables(home)
<1>1. PICK home \in Homes :
        LET newCreator == [w \in Workspaces |->
              IF \E u \in users : home[u] = w
              THEN CHOOSE u \in users : home[u] = w ELSE creator[w]]
            newRole == [w \in Workspaces |->
              IF \E u \in users : home[u] = w
              THEN [NoRoles EXCEPT ![newCreator[w]] = "OWNER"] ELSE role[w]]
            newTask == [t \in Tasks |->
              IF Live(t) THEN Backfilled(task[t], legacy[t], home[legacy[t].owner])
              ELSE task[t]]
            newMapping == [u \in Users |->
              IF u \in users
              THEN [ws |-> home[u], count |-> Cardinality(Owned(u)), maxId |-> MaxId(Owned(u))]
              ELSE NoMapping]
        IN  /\ BackfillVerified(newCreator, newRole, newTask, newMapping)
            /\ creator' = newCreator /\ role' = newRole
            /\ task' = newTask /\ mapping' = newMapping
            /\ pristine' = LiveTasks
  BY DEF UpgradeToBackfill
<1>2. BackfillTables(home)
  BY <1>1 DEF BackfillTables
<1> QED BY <1>2 DEF UpgradeToBackfill, Succeed

\* The backfill fills typed rows: an owner without an account would leave one unfilled.
LEMMA BackfillTyped ==
  ASSUME IInv, Typed, UpgradeToBackfill, ~Refuse("up")
  PROVE  /\ TypedMembers' /\ TypedTasks' /\ mapping' \in [Users -> MappingRow]
         /\ pristine' \subseteq LiveTasks'
         /\ UNCHANGED <<users, legacy, schema, history>>
<1>1. PICK home \in Homes : BackfillTables(home)
  BY BackfillWrites
<1>2. /\ BackfillVerified(creator', role', task', mapping')
      /\ creator' = [w \in Workspaces |->
           IF \E u \in users : home[u] = w
           THEN CHOOSE u \in users : home[u] = w ELSE creator[w]]
      /\ role' = [w \in Workspaces |->
           IF \E u \in users : home[u] = w
           THEN [NoRoles EXCEPT ![creator'[w]] = "OWNER"] ELSE role[w]]
      /\ task' = [t \in Tasks |->
           IF Live(t) THEN Backfilled(task[t], legacy[t], home[legacy[t].owner]) ELSE task[t]]
      /\ mapping' = [u \in Users |->
           IF u \in users
           THEN [ws |-> home[u], count |-> Cardinality(Owned(u)), maxId |-> MaxId(Owned(u))]
           ELSE NoMapping]
      /\ pristine' = LiveTasks
  BY <1>1 DEF BackfillTables
<1>3. UNCHANGED <<users, legacy, schema, history>>
  BY BackfillWrites
<1>4. users \subseteq Users /\ home \in [users -> Workspaces]
  BY DEF IInv, Rows, Homes
<1>5. creator' \in [Workspaces -> Users \cup {NoUser}]
  <2>1. ASSUME NEW w \in Workspaces
        PROVE  (IF \E u \in users : home[u] = w
                THEN CHOOSE u \in users : home[u] = w ELSE creator[w]) \in Users \cup {NoUser}
    BY <1>4 DEF Typed, TypedMembers
  <2> QED BY <1>2, <2>1
<1>6. role' \in [Workspaces -> Roster]
  <2>1. ASSUME NEW w \in Workspaces
        PROVE  (IF \E u \in users : home[u] = w
                THEN [NoRoles EXCEPT ![creator'[w]] = "OWNER"] ELSE role[w]) \in Roster
    <3>1. NoRoles \in Roster /\ role[w] \in Roster
      BY RowKinds DEF Typed, TypedMembers
    <3>2. [NoRoles EXCEPT ![creator'[w]] = "OWNER"] \in Roster
      BY <3>1 DEF Roster, RolesOrNone, Roles
    <3> QED BY <3>1, <3>2
  <2> QED BY <1>2, <2>1
<1>7. mapping' \in [Users -> MappingRow]
  <2>1. ASSUME NEW u \in users
        PROVE  [ws |-> home[u], count |-> Cardinality(Owned(u)), maxId |-> MaxId(Owned(u))] \in MappingRow
    BY <1>4, CountsTyped DEF MappingRow
  <2>2. NoMapping \in MappingRow
    BY RowKinds
  <2> QED BY <1>2, <2>1, <2>2
<1>8. ASSUME NEW t \in Tasks, Live(t)
      PROVE  task'[t] = Backfilled(task[t], legacy[t], home[legacy[t].owner]) /\ task'[t] \in LiveRow
  <2>1. task'[t] = Backfilled(task[t], legacy[t], home[legacy[t].owner])
    BY <1>2, <1>8
  <2>2. task[t] \in LiveRow /\ legacy[t] \in LegacyRow
    BY <1>8, LiveRows DEF Typed
  <2>3. task'[t].ws = mapping'[legacy[t].owner].ws /\ Filled(task'[t])
    BY <1>2, <1>8 DEF BackfillVerified, LiveTasks
  <2>4. legacy[t].owner = task'[t].creator /\ task'[t].creator # NoUser
    BY <2>1, <2>2, <2>3 DEF Backfilled, LiveRow, Filled
  <2>5. legacy[t].owner \in Users
    BY <2>2, <2>4 DEF LegacyRow
  <2>6. legacy[t].owner \in users
    BY <1>2, <2>3, <2>5 DEF NoMapping, Filled
  <2>7. home[legacy[t].owner] \in Workspaces
    BY <1>4, <2>6
  <2>8. StatusOf(legacy[t].completed) \in Statuses
    BY DEF StatusOf, Statuses
  <2> QED BY <2>1, <2>2, <2>5, <2>7, <2>8 DEF Backfilled, LiveRow
<1>9. TypedTasks'
  <2>1. ASSUME NEW t \in Tasks
        PROVE  task'[t] \in TaskRows
    <3>1. CASE Live(t)
      BY <1>8, <3>1, RowKinds
    <3>2. CASE ~Live(t)
      BY <1>2, <3>2, LiveRows DEF Typed
    <3> QED BY <3>1, <3>2
  <2>2. task' = [t \in Tasks |-> task'[t]]
    BY <1>2
  <2> QED BY <1>3, <2>1, <2>2 DEF Typed, TypedTasks
<1>10. pristine' \subseteq LiveTasks'
  <2>1. \A t \in LiveTasks : task'[t].phase = "live"
    BY <1>8 DEF LiveTasks, LiveRow
  <2> QED BY <1>2, <2>1 DEF LiveTasks, Live
<1> QED BY <1>3, <1>5, <1>6, <1>7, <1>9, <1>10 DEF TypedMembers

\* The backfill's downgrade empties rows and removes workspaces.
LEMMA UndoTyped ==
  ASSUME IInv, Typed, DowngradeFromBackfill, ~Refuse("down")
  PROVE  /\ TypedMembers' /\ TypedTasks' /\ mapping' \in [Users -> MappingRow]
         /\ pristine' \subseteq LiveTasks'
         /\ UNCHANGED <<users, legacy, schema, history>>
<1>1. /\ creator' = Ungenerated
      /\ role' = [w \in Workspaces |-> IF w \in Generated THEN NoRoles ELSE role[w]]
      /\ task' = [t \in Tasks |-> IF t \in Returned THEN OldRow(task[t].content) ELSE task[t]]
      /\ mapping' = [u \in Users |-> NoMapping]
      /\ pristine' = {}
      /\ UNCHANGED <<users, legacy, schema, history>>
  BY DEF DowngradeFromBackfill, Succeed
<1>2. TypedMembers'
  <2>1. creator' \in [Workspaces -> Users \cup {NoUser}]
    BY <1>1 DEF Ungenerated, Typed, TypedMembers
  <2>2. role' \in [Workspaces -> Roster]
    BY <1>1, RowKinds DEF Typed, TypedMembers
  <2> QED BY <2>1, <2>2 DEF TypedMembers
<1>3. TypedTasks'
  <2>1. ASSUME NEW t \in Tasks
        PROVE  task'[t] \in TaskRows
    <3>1. CASE t \in Returned
      <4>1. task[t].content \in Contents
        BY <3>1, LiveRows DEF Returned, LiveTasks, Typed, LiveRow
      <4> QED BY <1>1, <3>1, <4>1, RowKinds
    <3>2. CASE t \notin Returned
      BY <1>1, <3>2, LiveRows DEF Typed
    <3> QED BY <3>1, <3>2
  <2> QED BY <1>1, <2>1 DEF Typed, TypedTasks
<1>4. mapping' \in [Users -> MappingRow]
  BY <1>1, RowKinds
<1> QED BY <1>1, <1>2, <1>3, <1>4

\* A statement changes rows within their types.
LEMMA StatementTyped ==
  ASSUME IInv, Typed, RunStatement, ~Refuse(command.direction)
  PROVE  Typed'
<1> DEFINE script == Script(revision, command.direction)
           i == command.step
           s == script[i]
<1>1. /\ i <= Len(script) /\ Execute(s) /\ UNCHANGED <<revision, outcome, history>>
      /\ Runs(revision, command.direction) /\ i \in Nat \ {0}
  BY DEF RunStatement, IInv, Running, Runs
<1>2. i \in 1..Len(script)
  <2>1. script \in Seq(Statements)
    BY <1>1, ScriptSound
  <2>2. Len(script) \in Nat
    <3> HIDE DEF script, Statements
    <3> QED BY <2>1
  <2> QED BY <1>1, <2>2
<1>3. s.verb = "add" => s.object \in BaseSchema \cup New \cup Final
  <2>1. \/ script = ExpandUp \/ script = ContractUp \/ script = CleanupUp
        \/ script = ExpandDown \/ script = ContractDown
    BY DEF Script, Base, Expand, Backfill, Contract
  <2> HIDE DEF script, i
  <2> QED BY <1>2, <2>1, ScriptAdds DEF AddsOnly
<1>4. TypedHistory'
  BY <1>1 DEF Typed, TypedHistory, history
<1> HIDE DEF s
<1>5. CASE s.verb = "add" /\ Add(s.object)
  <2>1. schema' \subseteq BaseSchema \cup New \cup Final
    BY <1>3, <1>5 DEF Add, Typed
  <2>2. UNCHANGED <<creator, role, task, legacy, mapping, pristine>>
    BY <1>5 DEF Add, tables
  <2> QED BY <1>4, <2>1, <2>2 DEF Typed, TypedMembers, TypedTasks, LiveTasks, Live
<1>6. CASE s.verb = "drop" /\ Drop(s.object)
  <2> DEFINE object == s.object
  <2>1. schema' \subseteq schema /\ UNCHANGED <<users, creator, role, pristine>>
    BY <1>6 DEF Drop
  <2>2. task' = [t \in Tasks |-> IF Live(t) THEN WithoutColumn(task[t], object) ELSE task[t]]
        /\ legacy' = [t \in Tasks |-> WithoutLegacyColumn(legacy[t], object)]
        /\ mapping' = IF object = MappingTable THEN [u \in Users |-> NoMapping] ELSE mapping
    BY <1>6 DEF Drop
  <2> HIDE DEF object
  <2>3. ASSUME NEW row \in LiveRow
        PROVE  WithoutColumn(row, object) \in LiveRow
    BY DEF WithoutColumn, LiveRow
  <2>4. ASSUME NEW row \in LegacyRow
        PROVE  WithoutLegacyColumn(row, object) \in LegacyRow
    BY DEF WithoutLegacyColumn, LegacyRow
  <2>5. ASSUME NEW t \in Tasks
        PROVE  task'[t] \in TaskRows /\ legacy'[t] \in LegacyRow /\ (Live(t) => task'[t] \in LiveRow)
    BY <2>2, <2>3, <2>4, LiveRows, RowKinds DEF Typed
  <2>6. TypedTasks'
    BY <2>2, <2>5 DEF TypedTasks
  <2>7. mapping' \in [Users -> MappingRow]
    BY <2>2, RowKinds DEF Typed
  <2>8. pristine' \subseteq LiveTasks'
    <3>1. \A t \in LiveTasks : task'[t].phase = "live"
      BY <2>5 DEF LiveTasks, LiveRow
    <3> QED BY <2>1, <3>1 DEF Typed, LiveTasks, Live
  <2> QED BY <1>4, <2>1, <2>6, <2>7, <2>8 DEF Typed, TypedMembers
<1>7. CASE s.verb = "update" /\ UpdateTasks
  <2>1. legacy' = [t \in Tasks |-> IF Live(t) THEN RestoreLegacy(task[t]) ELSE legacy[t]]
        /\ UNCHANGED <<schema, users, creator, role, task, mapping, pristine>>
    BY <1>7 DEF UpdateTasks
  <2>2. ASSUME NEW t \in Tasks
        PROVE  legacy'[t] \in LegacyRow
    <3>1. task[t] \in LiveRow => RestoreLegacy(task[t]) \in LegacyRow
      BY DEF RestoreLegacy, Completed, LiveRow, LegacyRow
    <3> QED BY <2>1, <3>1, LiveRows DEF Typed
  <2>3. TypedTasks'
    BY <2>1, <2>2 DEF Typed, TypedTasks
  <2> QED BY <1>4, <2>1, <2>3 DEF Typed, TypedMembers, LiveTasks, Live
<1> QED BY <1>1, <1>5, <1>6, <1>7 DEF Execute

-----------------------------------------------------------------------------
(* The requests of the application of this commit.                         *)

\* The OWNER of a workspace is its creator.
Owners == \A w \in Workspaces, u \in Users : role[w][u] = "OWNER" <=> creator[w] = u

\* They keep rosters and owners, and no workspace goes.
LEMMA BoardMembers ==
  ASSUME TypedMembers, Board!Next
  PROVE  /\ TypedMembers' /\ (Owners => Owners')
         /\ \A w \in Workspaces : creator[w] # NoUser => creator'[w] = creator[w]
<1> DEFINE Goal == /\ TypedMembers' /\ (Owners => Owners')
                   /\ \A w \in Workspaces : creator[w] # NoUser => creator'[w] = creator[w]
<1>1. CASE UNCHANGED <<creator, role>>
  BY <1>1 DEF TypedMembers, Owners
<1>2. ASSUME NEW w \in Workspaces, NEW u \in Users, UNCHANGED creator, NEW r \in RolesOrNone,
             role' = [role EXCEPT ![w][u] = r], r # "OWNER", role[w][u] # "OWNER"
      PROVE  Goal
  <2>1. role' = [role EXCEPT ![w] = [role[w] EXCEPT ![u] = r]] /\ role[w] \in Roster
    BY <1>2 DEF TypedMembers
  <2>2. role' \in [Workspaces -> Roster]
    BY <1>2, <2>1 DEF TypedMembers, Roster
  <2>3. \A x \in Workspaces, v \in Users : role'[x][v] = IF x = w /\ v = u THEN r ELSE role[x][v]
    BY <1>2, <2>1 DEF TypedMembers, Roster
  <2> QED BY <1>2, <2>2, <2>3 DEF TypedMembers, Owners
<1>4. AssignableRoles \subseteq RolesOrNone /\ "OWNER" \notin AssignableRoles
      /\ NoRole \in RolesOrNone /\ NoRole # "OWNER"
  BY DEF AssignableRoles, RolesOrNone, Roles, NoRole
<1>3. ASSUME NEW w \in Workspaces, NEW a \in Users, Board!CreateWorkspace(w, a)
      PROVE  Goal
  <2>1. /\ creator[w] = NoUser
        /\ creator' = [creator EXCEPT ![w] = a]
        /\ role' = [role EXCEPT ![w] = [u \in Users |-> IF u = a THEN "OWNER" ELSE NoRole]]
    BY <1>3 DEF Board!CreateWorkspace, NoRole, Board!NoRole, NoUser, Board!NoUser
  <2>2. [u \in Users |-> IF u = a THEN "OWNER" ELSE NoRole] \in Roster
    BY DEF Roster, RolesOrNone, Roles
  <2>3. TypedMembers'
    BY <2>1, <2>2 DEF TypedMembers
  <2>4. \A x \in Workspaces : /\ creator'[x] = IF x = w THEN a ELSE creator[x]
                              /\ role'[x] = IF x = w THEN [u \in Users |-> IF u = a THEN "OWNER" ELSE NoRole]
                                            ELSE role[x]
    BY <2>1 DEF TypedMembers
  <2>5. ASSUME Owners, NEW x \in Workspaces, NEW v \in Users
        PROVE  role'[x][v] = "OWNER" <=> creator'[x] = v
    <3>1. CASE x = w
      <4>1. role'[x][v] = IF v = a THEN "OWNER" ELSE NoRole
        BY <2>4, <3>1
      <4> QED BY <1>4, <2>4, <3>1, <4>1
    <3>2. CASE x # w
      <4>1. role'[x] = role[x] /\ creator'[x] = creator[x]
        BY <2>4, <3>2
      <4>2. role[x][v] = "OWNER" <=> creator[x] = v
        BY <2>5 DEF Owners
      <4> QED BY <4>1, <4>2
    <3> QED BY <3>1, <3>2
  <2> QED BY <2>1, <2>3, <2>4, <2>5 DEF Owners
<1>5. ASSUME NEW w \in Workspaces, NEW u \in Users, NEW r \in AssignableRoles,
             Board!AddMember(w, u, r) \/ Board!UpdateMemberRole(w, u, r)
      PROVE  Goal
  <2>1. UNCHANGED creator /\ role' = [role EXCEPT ![w][u] = r] /\ role[w][u] # "OWNER"
    BY <1>4, <1>5 DEF Board!AddMember, Board!UpdateMemberRole, Board!IsMember, NoRole, Board!NoRole,
                      Board!AssignableRoles, AssignableRoles
  <2> QED BY <1>2, <1>4, <2>1
<1>6. ASSUME NEW w \in Workspaces, NEW u \in Users, Board!RemoveMember(w, u)
      PROVE  Goal
  <2>1. UNCHANGED creator /\ role' = [role EXCEPT ![w][u] = NoRole] /\ role[w][u] # "OWNER"
    BY <1>4, <1>6 DEF Board!RemoveMember, NoRole, Board!NoRole, Board!AssignableRoles, AssignableRoles
  <2> QED BY <1>2, <1>4, <2>1
<1>7. ASSUME NEW t, NEW w, NEW a, NEW c, NEW v, NEW u,
             \/ Board!CreateTask(t, w, a, c) \/ Board!UpdateTask(t, c) \/ Board!DeleteTask(t)
             \/ Board!UpdateTaskStatus(t, a, v) \/ Board!UpdateTaskAssignee(t, a, u)
      PROVE  Goal
  BY <1>1, <1>7 DEF Board!CreateTask, Board!UpdateTask, Board!DeleteTask, Board!UpdateTaskStatus,
                    Board!UpdateTaskAssignee
<1> HIDE DEF Goal
<1>8. Goal
  BY <1>3, <1>5, <1>6, <1>7 DEF Board!Next, Board!AssignableRoles, AssignableRoles
<1> QED BY <1>8 DEF Goal

\* What they make of a row.
Rewritten(t) ==
  \/ task'[t] = task[t]
  \/ task'[t] = Board!EmptyRow("deleted")
  \/ Live(t) /\ \E c \in ValidContents : task'[t] = [task[t] EXCEPT !.content = c]
  \/ Live(t) /\ \E s \in Statuses : task'[t] = [task[t] EXCEPT !.status = s]
  \/ Live(t) /\ \E u \in Users \cup {NoUser} :
                  /\ u # NoUser => role[task[t].ws][u] # NoRole
                  /\ task'[t] = [task[t] EXCEPT !.assignee = u]
  \/ \E w \in Workspaces, a \in Users, c \in ValidContents :
       /\ creator[w] # NoUser
       /\ task'[t] = [phase |-> "live", ws |-> w, creator |-> a,
                      assignee |-> NoUser, status |-> "TODO", content |-> c]

\* Every request of the application rewrites a row in one of these ways.
LEMMA BoardRewrites ==
  ASSUME Rows, Board!Next, NEW t \in Tasks
  PROVE  Rewritten(t)
<1>1. task = [x \in Tasks |-> task[x]]
  BY DEF Rows
<1>2. UNCHANGED task => Rewritten(t)
  BY DEF Rewritten
<1>3. ASSUME NEW s \in Tasks, NEW row, task' = [task EXCEPT ![s] = row]
      PROVE  task'[t] = row \/ task'[t] = task[t]
  BY <1>1, <1>3
<1>4. ASSUME NEW s \in Tasks, NEW row, task' = [task EXCEPT ![s] = row], s # t
      PROVE  Rewritten(t)
  BY <1>1, <1>4 DEF Rewritten
<1>5. ASSUME NEW row, task' = [task EXCEPT ![t] = row]
      PROVE  task'[t] = row
  BY <1>1, <1>5
<1>6. ASSUME NEW s \in Tasks, NEW w \in Workspaces, NEW a \in Users, NEW c \in ValidContents,
             Board!CreateTask(s, w, a, c)
      PROVE  Rewritten(t)
  <2> DEFINE row == [phase |-> "live", ws |-> w, creator |-> a, assignee |-> NoUser,
                     status |-> "TODO", content |-> c]
  <2>1. task' = [task EXCEPT ![s] = row] /\ creator[w] # NoUser
    BY <1>6 DEF Board!CreateTask, NoUser, Board!NoUser
  <2>2. s # t \/ task'[t] = row
    BY <1>5, <2>1
  <2> QED BY <1>4, <2>1, <2>2 DEF Rewritten
<1>7. ASSUME NEW s \in Tasks, NEW c \in ValidContents, Board!UpdateTask(s, c)
      PROVE  Rewritten(t)
  <2>1. task' = [task EXCEPT ![s] = [task[s] EXCEPT !.content = c]] /\ Live(s)
    BY <1>7 DEF Board!UpdateTask, Board!Live, Live
  <2>2. s # t \/ task'[t] = [task[t] EXCEPT !.content = c]
    BY <1>5, <2>1
  <2> QED BY <1>4, <2>1, <2>2 DEF Rewritten
<1>8. ASSUME NEW s \in Tasks, Board!DeleteTask(s)
      PROVE  Rewritten(t)
  <2>1. task' = [task EXCEPT ![s] = Board!EmptyRow("deleted")]
    BY <1>8 DEF Board!DeleteTask
  <2> QED BY <1>3, <2>1 DEF Rewritten
<1>9. ASSUME NEW s \in Tasks, NEW a, NEW v \in Statuses, Board!UpdateTaskStatus(s, a, v)
      PROVE  Rewritten(t)
  <2>1. task' = [task EXCEPT ![s] = [task[s] EXCEPT !.status = v]] /\ Live(s)
    BY <1>9 DEF Board!UpdateTaskStatus, Board!Live, Live
  <2>2. s # t \/ task'[t] = [task[t] EXCEPT !.status = v]
    BY <1>5, <2>1
  <2> QED BY <1>4, <2>1, <2>2 DEF Rewritten
<1>10. ASSUME NEW s \in Tasks, NEW a, NEW u \in Users \cup {NoUser}, Board!UpdateTaskAssignee(s, a, u)
       PROVE  Rewritten(t)
  <2>1. /\ task' = [task EXCEPT ![s] = [task[s] EXCEPT !.assignee = u]] /\ Live(s)
        /\ u # NoUser => role[task[s].ws][u] # NoRole
    BY <1>10 DEF Board!UpdateTaskAssignee, Board!Live, Live, Board!IsMember, NoRole, Board!NoRole,
                 NoUser, Board!NoUser
  <2>2. s # t \/ task'[t] = [task[t] EXCEPT !.assignee = u]
    BY <1>5, <2>1
  <2>3. s = t => Rewritten(t)
    BY <2>1, <2>2 DEF Rewritten
  <2> QED BY <1>4, <2>1, <2>3
<1>11. ASSUME NEW w, NEW u, Board!RemoveMember(w, u)
       PROVE  Rewritten(t)
  <2>1. task' = [x \in Tasks |->
                 IF /\ Board!Live(x) /\ task[x].ws = w
                    /\ task[x].assignee = u /\ task[x].status # "DONE"
                 THEN [task[x] EXCEPT !.assignee = NoUser] ELSE task[x]]
    BY <1>11 DEF Board!RemoveMember, NoUser, Board!NoUser
  <2>2. \/ task'[t] = task[t]
        \/ Live(t) /\ task'[t] = [task[t] EXCEPT !.assignee = NoUser]
    BY <2>1 DEF Board!Live, Live
  <2> QED BY <2>2 DEF Rewritten
<1>12. ASSUME NEW w, NEW u, NEW r,
              Board!CreateWorkspace(w, u) \/ Board!AddMember(w, u, r) \/ Board!UpdateMemberRole(w, u, r)
       PROVE  Rewritten(t)
  BY <1>2, <1>12 DEF Board!CreateWorkspace, Board!AddMember, Board!UpdateMemberRole
<1> QED
  BY <1>6, <1>7, <1>8, <1>9, <1>10, <1>11, <1>12
  DEF Board!Next, Board!Statuses, Statuses, NoUser, Board!NoUser

\* A rewritten row is of its type.
LEMMA RewrittenTyped ==
  ASSUME Typed, NEW t \in Tasks, Rewritten(t)
  PROVE  task'[t] \in TaskRows /\ (Live(t)' => task'[t] \in LiveRow)
<1>1. task[t] \in TaskRows /\ (Live(t) => task[t] \in LiveRow) /\ ValidContents \subseteq Contents
  BY LiveRows, ConstantsAssumption DEF Typed
<1>2. CASE task'[t] = task[t]
  BY <1>1, <1>2 DEF Live
<1>3. CASE task'[t] = Board!EmptyRow("deleted")
  BY <1>3, RowKinds DEF Live, Board!EmptyRow
<1>4. ASSUME task'[t] \in LiveRow
      PROVE  task'[t] \in TaskRows
  BY <1>4, RowKinds
<1>5. ASSUME Live(t), NEW c \in ValidContents, task'[t] = [task[t] EXCEPT !.content = c]
      PROVE  task'[t] \in LiveRow
  BY <1>1, <1>5 DEF LiveRow
<1>6. ASSUME Live(t), NEW s \in Statuses, task'[t] = [task[t] EXCEPT !.status = s]
      PROVE  task'[t] \in LiveRow
  BY <1>1, <1>6 DEF LiveRow
<1>7. ASSUME Live(t), NEW u \in Users \cup {NoUser}, task'[t] = [task[t] EXCEPT !.assignee = u]
      PROVE  task'[t] \in LiveRow
  BY <1>1, <1>7 DEF LiveRow
<1>8. ASSUME NEW w \in Workspaces, NEW a \in Users, NEW c \in ValidContents,
             task'[t] = [phase |-> "live", ws |-> w, creator |-> a,
                         assignee |-> NoUser, status |-> "TODO", content |-> c]
      PROVE  task'[t] \in LiveRow
  BY <1>1, <1>8 DEF LiveRow, Statuses
<1> QED BY <1>2, <1>3, <1>4, <1>5, <1>6, <1>7, <1>8 DEF Rewritten

\* The requests of the application of this commit keep every table typed.
LEMMA NewAppTyped ==
  ASSUME IInv, Typed, NewAppWrites
  PROVE  Typed'
<1>1. /\ Edit /\ Board!Next /\ UNCHANGED <<users, legacy, schema, mapping, outcome, crashed>>
      /\ edits < MaxEdits /\ edits' = edits + 1
      /\ pristine' = {t \in pristine : task'[t] = task[t]}
      /\ meant' = [t \in Tasks |->
           IF task'[t].phase = "live"
           THEN [owner |-> task'[t].creator, done |-> task'[t].status = "DONE"]
           ELSE NothingMeant]
  BY DEF NewAppWrites, Edit
<1>2. TypedMembers'
  BY <1>1, BoardMembers DEF Typed
<1>3. ASSUME NEW t \in Tasks
      PROVE  task'[t] \in TaskRows /\ (Live(t)' => task'[t] \in LiveRow)
  BY <1>1, BoardRewrites, RewrittenTyped DEF IInv
<1>4. TypedTasks'
  <2>1. task' = [t \in Tasks |-> task'[t]]
    BY <1>1, BoardTable DEF IInv
  <2>2. task' \in [Tasks -> TaskRows]
    BY <1>3, <2>1
  <2> QED BY <1>1, <2>2 DEF Typed, TypedTasks
<1>5. meant' \in [Tasks -> Meaning]
  <2>1. ASSUME NEW t \in Tasks
        PROVE  (IF task'[t].phase = "live"
                THEN [owner |-> task'[t].creator, done |-> task'[t].status = "DONE"]
                ELSE NothingMeant) \in Meaning
    <3>1. task'[t].phase = "live" => task'[t].creator \in Users \cup {NoUser}
      BY <1>3 DEF Live, LiveRow
    <3> QED BY <3>1, RowKinds DEF Meaning
  <2> QED BY <1>1, <2>1
<1>6. TypedHistory'
  BY <1>1, <1>5, ConstantsAssumption DEF Typed, TypedHistory
<1>7. pristine' \subseteq LiveTasks'
  BY <1>1 DEF Typed, LiveTasks, Live
<1> QED BY <1>1, <1>2, <1>4, <1>6, <1>7 DEF Typed

\* The old application's requests for workspaces are two of them.
LEMMA OldBoard ==
  ASSUME Rows, OldAppWritesWorkspaces
  PROVE  Board!Next /\ UNCHANGED task
<1>1. PICK w \in Workspaces, u \in users :
        \/ Board!CreateWorkspace(w, u)
        \/ \E newRole \in AssignableRoles : Board!AddMember(w, u, newRole)
  BY DEF OldAppWritesWorkspaces
<1>2. u \in Users
  BY DEF Rows
<1>3. Board!Next
  BY <1>1, <1>2 DEF Board!Next, Board!AssignableRoles, AssignableRoles
<1> QED BY <1>1, <1>3 DEF Board!CreateWorkspace, Board!AddMember

\* A row the old application writes keeps the types.
LEMMA OldTaskTyped ==
  ASSUME Typed, NEW t \in Tasks, NEW row \in TaskRows, NEW old \in LegacyRow,
         NEW meaning \in Meaning, OldTask(t, row, old, meaning),
         UNCHANGED pristine \/ pristine' = pristine \ {t},
         row.phase # "live" => pristine' = pristine \ {t}
  PROVE  Typed'
<1>1. /\ task' = [task EXCEPT ![t] = row] /\ legacy' = [legacy EXCEPT ![t] = old]
      /\ meant' = [meant EXCEPT ![t] = meaning]
      /\ UNCHANGED <<creator, role, schema, mapping, outcome, crashed>>
      /\ edits < MaxEdits /\ edits' = edits + 1
  BY DEF OldTask, Edit
<1>2. TypedTasks'
  BY <1>1 DEF Typed, TypedTasks
<1>3. TypedHistory'
  BY <1>1, ConstantsAssumption DEF Typed, TypedHistory
<1>4. pristine' \subseteq LiveTasks'
  <2>1. \A x \in Tasks : task'[x] = IF x = t THEN row ELSE task[x]
    BY <1>1 DEF Typed, TypedTasks
  <2> QED BY <2>1 DEF Typed, LiveTasks, Live
<1> QED BY <1>1, <1>2, <1>3, <1>4 DEF Typed, TypedMembers

\* Registrations and the old application keep the types.
LEMMA OtherWritesTyped ==
  ASSUME IInv, Typed, Applications, ~NewAppWrites
  PROVE  Typed'
<1>1. ASSUME NEW u \in Users, Register(u)
      PROVE  Typed'
  <2>1. /\ UNCHANGED <<creator, role, task, legacy, pristine, meant, schema, mapping, outcome, crashed>>
        /\ edits < MaxEdits /\ edits' = edits + 1
    BY <1>1 DEF Register, Edit
  <2>2. TypedHistory'
    BY <2>1, ConstantsAssumption DEF Typed, TypedHistory
  <2> QED BY <2>1, <2>2 DEF Typed, TypedMembers, TypedTasks, LiveTasks, Live
<1>2. CASE OldAppWritesWorkspaces
  <2>1. /\ UNCHANGED <<legacy, pristine, meant, schema, mapping, outcome, crashed>>
        /\ edits < MaxEdits /\ edits' = edits + 1
    BY <1>2 DEF OldAppWritesWorkspaces, Edit
  <2>2. TypedHistory'
    BY <2>1, ConstantsAssumption DEF Typed, TypedHistory
  <2>3. TypedMembers' /\ UNCHANGED task
    BY <1>2, OldBoard, BoardMembers DEF IInv, Typed
  <2> QED BY <2>1, <2>2, <2>3 DEF Typed, TypedTasks, LiveTasks, Live
<1>3. ASSUME NEW t \in Tasks, NEW u \in Users, NEW c \in Contents, CreateOldTask(t, u, c)
      PROVE  Typed'
  <2> DEFINE row == OldRow(c)
             old == [owner |-> u, completed |-> "false"]
             meaning == [owner |-> u, done |-> FALSE]
  <2>1. OldTask(t, row, old, meaning) /\ UNCHANGED pristine
    BY <1>3 DEF CreateOldTask
  <2>2. row \in TaskRows /\ row.phase = "live" /\ old \in LegacyRow /\ meaning \in Meaning
    BY RowKinds DEF OldRow, LegacyRow, Meaning
  <2> HIDE DEF row, old, meaning
  <2> QED BY <2>1, <2>2, OldTaskTyped
<1>4. ASSUME NEW t \in Tasks, NEW done \in BOOLEAN, SetCompleted(t, done)
      PROVE  Typed'
  <2> DEFINE old == [legacy[t] EXCEPT !.completed = Completed(done)]
             meaning == [meant[t] EXCEPT !.done = done]
  <2>1. OldTask(t, task[t], old, meaning) /\ UNCHANGED pristine /\ Live(t)
    BY <1>4 DEF SetCompleted
  <2>2. task[t] \in TaskRows /\ legacy[t] \in LegacyRow /\ meant[t] \in Meaning
    BY LiveRows DEF Typed, TypedHistory
  <2>3. old \in LegacyRow /\ meaning \in Meaning
    BY <2>2 DEF LegacyRow, Meaning, Completed
  <2>4. task[t].phase = "live"
    BY <2>1 DEF Live
  <2> HIDE DEF old, meaning
  <2> QED BY <2>1, <2>2, <2>3, <2>4, OldTaskTyped
<1>5. ASSUME NEW t \in Tasks, DeleteOldTask(t)
      PROVE  Typed'
  <2>1. OldTask(t, Board!EmptyRow("deleted"), NoLegacy, NothingMeant) /\ pristine' = pristine \ {t}
    BY <1>5 DEF DeleteOldTask
  <2> QED BY <2>1, RowKinds, OldTaskTyped
<1> QED BY <1>1, <1>2, <1>3, <1>4, <1>5 DEF Applications

\* Commands start, end and crash within the types.
LEMMA CommandsTyped ==
  ASSUME IInv, Typed, Commands
  PROVE  Typed'
<1>1. ASSUME UNCHANGED <<creator, role, task, legacy, schema, mapping, pristine>>, TypedHistory'
      PROVE  Typed'
  BY <1>1 DEF Typed, TypedMembers, TypedTasks, LiveTasks, Live
<1>2. ASSUME NEW direction \in {"none", "up", "down"}, Refuse(direction)
      PROVE  Typed'
  <2>1. /\ UNCHANGED <<schema, tables, history>>
        /\ outcome' = [is |-> "refused", direction |-> direction]
    BY <1>2 DEF Refuse, End
  <2>2. TypedHistory'
    BY <2>1 DEF Typed, TypedHistory, history
  <2> QED BY <1>1, <2>1, <2>2 DEF tables
<1>3. CASE StartUpgrade \/ StartDowngrade
  <2>1. \/ Refuse("up") \/ Refuse("down")
        \/ UNCHANGED <<schema, tables, outcome, history>>
    BY <1>3 DEF StartUpgrade, StartDowngrade, Start
  <2>2. CASE UNCHANGED <<schema, tables, outcome, history>>
    BY <1>1, <2>2 DEF Typed, TypedHistory, tables, history
  <2> QED BY <1>2, <2>1, <2>2
<1>4. ASSUME NEW r, Succeed(r)
      PROVE  TypedHistory'
  <2>1. outcome' = [is |-> "done", direction |-> "none"] /\ UNCHANGED history
    BY <1>4 DEF Succeed, End
  <2> QED BY <2>1 DEF Typed, TypedHistory, history
<1>5. CASE UpgradeToBackfill
  <2>1. CASE Refuse("up")
    BY <1>2, <2>1
  <2>2. CASE ~Refuse("up")
    <3>1. Succeed(Backfill)
      BY <1>5, <2>2 DEF UpgradeToBackfill
    <3> QED BY <1>4, <1>5, <2>2, <3>1, BackfillTyped DEF Typed
  <2> QED BY <2>1, <2>2
<1>6. CASE DowngradeFromBackfill
  <2>1. CASE Refuse("down")
    BY <1>2, <2>1
  <2>2. CASE ~Refuse("down")
    <3>1. Succeed(Expand)
      BY <1>6, <2>2 DEF DowngradeFromBackfill
    <3> QED BY <1>4, <1>6, <2>2, <3>1, UndoTyped DEF Typed
  <2> QED BY <2>1, <2>2
<1>7. CASE RunStatement
  <2>1. command.direction \in {"up", "down"}
    BY <1>7 DEF RunStatement, IInv, Running
  <2> QED BY <1>2, <1>7, <2>1, StatementTyped
<1>8. CASE RecordRevision
  <2>1. UNCHANGED <<schema, tables>>
    BY <1>8 DEF RecordRevision, Succeed
  <2>2. TypedHistory'
    BY <1>4, <1>8 DEF RecordRevision
  <2> QED BY <1>1, <2>1, <2>2 DEF tables
<1>9. CASE Crash
  <2>1. /\ UNCHANGED <<schema, tables, edits, meant>> /\ crashed' = TRUE
        /\ outcome' = [is |-> "crashed", direction |-> "none"]
    BY <1>9 DEF Crash, End
  <2>2. TypedHistory'
    BY <2>1 DEF Typed, TypedHistory
  <2> QED BY <1>1, <2>1, <2>2 DEF tables
<1> QED BY <1>3, <1>5, <1>6, <1>7, <1>8, <1>9 DEF Commands

\* The old database is of its types.
LEMMA InitTyped ==
  ASSUME Init
  PROVE  Typed
<1>1. /\ users \subseteq Users
      /\ creator \in [Workspaces -> users \cup {NoUser}]
      /\ role \in [Workspaces -> Roster]
      /\ task \in [Tasks -> {OldRow(c) : c \in Contents} \cup {Board!EmptyRow("unused")}]
      /\ legacy \in [Tasks -> [owner : users, completed : {"true", "false"}] \cup {NoLegacy}]
      /\ \A t \in Tasks : Live(t) <=> legacy[t] # NoLegacy
  BY DEF Init, LegacyDatabase, Roster
<1>2. /\ schema = BaseSchema /\ mapping = [u \in Users |-> NoMapping] /\ pristine = {}
      /\ outcome = [is |-> "none", direction |-> "none"] /\ edits = 0 /\ crashed = FALSE
      /\ meant = [t \in Tasks |->
           IF Live(t) THEN [owner |-> legacy[t].owner, done |-> legacy[t].completed = "true"]
           ELSE NothingMeant]
  BY DEF Init, InitialCommand
<1>3. TypedMembers
  BY <1>1 DEF TypedMembers
<1>4. TypedTasks
  <2>1. {OldRow(c) : c \in Contents} \cup {Board!EmptyRow("unused")} \subseteq TaskRows
    BY RowKinds
  <2>2. [owner : users, completed : {"true", "false"}] \cup {NoLegacy} \subseteq LegacyRow
    BY <1>1, RowKinds DEF LegacyRow
  <2> QED BY <1>1, <2>1, <2>2 DEF TypedTasks
<1>5. meant \in [Tasks -> Meaning]
  <2>1. ASSUME NEW t \in Tasks
        PROVE  (IF Live(t) THEN [owner |-> legacy[t].owner, done |-> legacy[t].completed = "true"]
                ELSE NothingMeant) \in Meaning
    <3>1. legacy[t].owner \in Users \cup {NoUser}
      BY <1>4, LiveRows DEF LegacyRow
    <3> QED BY <3>1, RowKinds DEF Meaning
  <2> QED BY <1>2, <2>1
<1>6. TypedHistory
  <2>1. edits = 0 /\ MaxEdits \in Nat /\ crashed \in BOOLEAN
    BY <1>2, ConstantsAssumption
  <2>2. outcome \in [is : {"none", "done", "refused", "crashed"}, direction : {"none", "up", "down"}]
    BY <1>2
  <2>3. edits \in 0..MaxEdits
    BY <2>1
  <2> QED BY <1>5, <2>1, <2>2, <2>3 DEF TypedHistory
<1>7. mapping \in [Users -> MappingRow]
  BY <1>2, RowKinds
<1> QED BY <1>2, <1>3, <1>4, <1>6, <1>7 DEF Typed

\* Every step keeps the types.
LEMMA TypedStep ==
  ASSUME IInv, Typed, [Next]_vars
  PROVE  Typed'
<1>1. CASE UNCHANGED vars
  BY <1>1 DEF vars, tables, history, Typed, TypedMembers, TypedTasks, TypedHistory, LiveTasks, Live
<1> QED BY <1>1, CommandsTyped, NewAppTyped, OtherWritesTyped DEF Next

\* What is typed stays typed, through every command, crash and write.
THEOREM TypedInvariance == Spec => []Typed
<1> QED BY InitTyped, TypedStep, Invariance, PTL DEF Spec

\* Every table holds rows its columns admit.
THEOREM TypesHold == Spec => []TypeOK
<1> QED BY TypesTogether, Invariance, TypedInvariance, PTL

-----------------------------------------------------------------------------
(* The tables that the application of this commit finds.                   *)

\* No statement of a script touches accounts and memberships.
LEMMA MembersStay ==
  ASSUME RunStatement \/ RecordRevision \/ Crash \/ StartUpgrade \/ StartDowngrade
  PROVE  UNCHANGED <<users, creator, role>>
<1>1. ASSUME NEW direction, Refuse(direction)
      PROVE  UNCHANGED <<users, creator, role>>
  BY <1>1 DEF Refuse, tables
<1>2. ASSUME NEW s, Execute(s)
      PROVE  UNCHANGED <<users, creator, role>>
  BY <1>2 DEF Execute, Add, Drop, UpdateTasks, tables
<1>3. CASE RunStatement
  BY <1>1, <1>2, <1>3 DEF RunStatement
<1>4. CASE RecordRevision \/ Crash
  BY <1>4 DEF RecordRevision, Crash, tables
<1>5. CASE StartUpgrade \/ StartDowngrade
  BY <1>1, <1>5 DEF StartUpgrade, StartDowngrade, Start, tables
<1> QED BY <1>3, <1>4, <1>5

\* A generated workspace has the one owner it is made for, and goes with its roster.
LEMMA OwnersStep ==
  ASSUME IInv, Typed, Owners, [Next]_vars
  PROVE  Owners'
<1>1. CASE UNCHANGED <<creator, role>>
  BY <1>1 DEF Owners
<1>2. ASSUME NEW direction, Refuse(direction)
      PROVE  Owners'
  BY <1>1, <1>2 DEF Refuse, tables
<1>3. ASSUME UpgradeToBackfill, ~Refuse("up")
      PROVE  Owners'
  <2>1. PICK home \in Homes : BackfillTables(home)
    BY <1>3, BackfillWrites
  <2>2. /\ creator' = [w \in Workspaces |->
             IF \E u \in users : home[u] = w
             THEN CHOOSE u \in users : home[u] = w ELSE creator[w]]
        /\ role' = [w \in Workspaces |->
             IF \E u \in users : home[u] = w
             THEN [NoRoles EXCEPT ![creator'[w]] = "OWNER"] ELSE role[w]]
    BY <2>1 DEF BackfillTables
  <2>3. ASSUME NEW w \in Workspaces, NEW u \in Users
        PROVE  role'[w][u] = "OWNER" <=> creator'[w] = u
    <3>1. CASE \E v \in users : home[v] = w
      <4>1. role'[w] = [NoRoles EXCEPT ![creator'[w]] = "OWNER"]
        BY <2>2, <3>1
      <4>2. role'[w][u] = IF u = creator'[w] THEN "OWNER" ELSE NoRole
        BY <4>1 DEF NoRoles
      <4>3. NoRole # "OWNER"
        BY DEF NoRole
      <4> QED BY <4>2, <4>3
    <3>2. CASE ~\E v \in users : home[v] = w
      <4>1. role'[w] = role[w] /\ creator'[w] = creator[w]
        BY <2>2, <3>2
      <4>2. role[w][u] = "OWNER" <=> creator[w] = u
        BY DEF Owners
      <4> QED BY <4>1, <4>2
    <3> QED BY <3>1, <3>2
  <2> QED BY <2>3 DEF Owners
<1>4. ASSUME DowngradeFromBackfill, ~Refuse("down")
      PROVE  Owners'
  <2>1. /\ creator' = Ungenerated
        /\ role' = [w \in Workspaces |-> IF w \in Generated THEN NoRoles ELSE role[w]]
    BY <1>4 DEF DowngradeFromBackfill
  <2>2. ASSUME NEW w \in Workspaces, NEW u \in Users
        PROVE  role'[w][u] = "OWNER" <=> creator'[w] = u
    <3>1. CASE w \in Generated
      <4>1. role'[w][u] = NoRole /\ creator'[w] = NoUser
        BY <2>1, <3>1 DEF NoRoles, Ungenerated
      <4> QED BY <4>1, ConstantsAssumption DEF NoRole
    <3>2. CASE w \notin Generated
      <4>1. role'[w] = role[w] /\ creator'[w] = creator[w]
        BY <2>1, <3>2 DEF Ungenerated
      <4>2. role[w][u] = "OWNER" <=> creator[w] = u
        BY DEF Owners
      <4> QED BY <4>1, <4>2
    <3> QED BY <3>1, <3>2
  <2> QED BY <2>2 DEF Owners
<1>5. CASE NewAppWrites
  BY <1>5, BoardMembers DEF Typed, NewAppWrites
<1>6. CASE OldAppWritesWorkspaces
  BY <1>6, OldBoard, BoardMembers DEF Typed, IInv
<1>7. CASE Applications /\ ~NewAppWrites /\ ~OldAppWritesWorkspaces
  <2>1. ASSUME NEW t, NEW row, NEW old, NEW meaning, OldTask(t, row, old, meaning)
        PROVE  UNCHANGED <<creator, role>>
    BY <2>1 DEF OldTask
  <2>2. ASSUME NEW t, \/ \E u \in Users, c \in Contents : CreateOldTask(t, u, c)
                      \/ \E done \in BOOLEAN : SetCompleted(t, done)
                      \/ DeleteOldTask(t)
        PROVE  UNCHANGED <<creator, role>>
    BY <2>1, <2>2 DEF CreateOldTask, SetCompleted, DeleteOldTask
  <2>3. ASSUME NEW u, Register(u)
        PROVE  UNCHANGED <<creator, role>>
    BY <2>3 DEF Register
  <2> QED BY <1>1, <1>7, <2>2, <2>3 DEF Applications
<1>8. CASE UNCHANGED vars
  BY <1>1, <1>8 DEF vars, tables
<1> QED BY <1>1, <1>2, <1>3, <1>4, <1>5, <1>6, <1>7, <1>8, MembersStay DEF Next, Commands

\* A row of an existing workspace and an account, with values the board knows.
GoodRow(t) ==
  /\ task[t].ws \in Workspaces /\ creator[task[t].ws] # NoUser
  /\ task[t].creator \in users /\ task[t].status \in Statuses
  /\ task[t].content \in ValidContents

\* From the start of the contract on the rows are those of a board.
Serving == revision \in {Contract, Cleanup} \/ (revision = Backfill /\ command.direction = "up")
GoodRows == Serving => \A t \in LiveTasks : GoodRow(t)

\* The checks of the contract make sure of them.
LEMMA ContractChecks ==
  ASSUME IInv, Typed, Owners, ContractAllowed, NEW t \in LiveTasks
  PROVE  GoodRow(t)
<1>1. /\ users = Mapped /\ \A u \in Mapped : role[Home(u)][u] = "OWNER"
      /\ Filled(task[t]) /\ Agrees(task[t], legacy[t]) /\ ContentFits(task[t])
      /\ task[t].ws = Home(legacy[t].owner)
  BY DEF ContractAllowed
<1>2. t \in Tasks /\ task[t] \in LiveRow /\ legacy[t] \in LegacyRow
  BY LiveRows DEF Typed, LiveTasks
<1>3. task[t].ws \in Workspaces /\ task[t].status \in Statuses /\ task[t].content \in ValidContents
  BY <1>1, <1>2 DEF Filled, LiveRow, ContentFits
<1>4. legacy[t].owner \in Users /\ legacy[t].owner = task[t].creator
  BY <1>1, <1>2 DEF Filled, Agrees, LiveRow
<1>5. legacy[t].owner \in Mapped
  BY <1>1, <1>4 DEF Mapped, Home, NoMapping, Filled
<1>6. creator[task[t].ws] = legacy[t].owner
  BY <1>1, <1>3, <1>4, <1>5 DEF Owners
<1> QED BY <1>1, <1>3, <1>4, <1>5, <1>6, ConstantsAssumption DEF GoodRow

\* The application keeps them good: the foreign keys name existing accounts.
LEMMA NewAppKeepsGood ==
  ASSUME IInv, Typed, GoodRows, NewAppWrites
  PROVE  GoodRows'
<1>1. /\ Board!Next /\ UNCHANGED users /\ ReferencesHold' /\ revision \in {Contract, Cleanup}
  BY DEF NewAppWrites, NewAppServes
<1>2. \A w \in Workspaces : creator[w] # NoUser => creator'[w] = creator[w]
  BY <1>1, BoardMembers DEF Typed
<1>3. ASSUME NEW t \in LiveTasks'
      PROVE  GoodRow(t)'
  <2>1. t \in Tasks /\ Live(t)' /\ Rewritten(t)
    BY <1>1, <1>3, BoardRewrites DEF LiveTasks, IInv
  <2>2. Live(t) => GoodRow(t) /\ task[t] \in LiveRow
    BY <1>1, <2>1, LiveRows DEF GoodRows, Serving, LiveTasks, Typed
  <2>3. ASSUME Live(t), task'[t].ws = task[t].ws, task'[t].creator = task[t].creator,
               task'[t].status \in Statuses, task'[t].content \in ValidContents
        PROVE  GoodRow(t)'
    BY <1>1, <1>2, <2>2, <2>3 DEF GoodRow
  <2>4. CASE task'[t] = task[t]
    BY <2>1, <2>2, <2>3, <2>4 DEF Live, GoodRow
  <2>5. CASE task'[t] = Board!EmptyRow("deleted")
    BY <2>1, <2>5 DEF Live, Board!EmptyRow
  <2>6. CASE Live(t) /\ \E c \in ValidContents : task'[t] = [task[t] EXCEPT !.content = c]
    BY <2>2, <2>3, <2>6 DEF GoodRow, LiveRow
  <2>7. CASE Live(t) /\ \E s \in Statuses : task'[t] = [task[t] EXCEPT !.status = s]
    BY <2>2, <2>3, <2>7 DEF GoodRow, LiveRow
  <2>8. CASE Live(t) /\ \E u \in Users \cup {NoUser} : task'[t] = [task[t] EXCEPT !.assignee = u]
    BY <2>2, <2>3, <2>8 DEF GoodRow, LiveRow
  <2>9. ASSUME NEW w \in Workspaces, NEW a \in Users, NEW c \in ValidContents, creator[w] # NoUser,
               task'[t] = [phase |-> "live", ws |-> w, creator |-> a,
                           assignee |-> NoUser, status |-> "TODO", content |-> c]
        PROVE  GoodRow(t)'
    <3>1. a \in users'
      <4>1. task'[t].creator \in users' \cup {NoUser}
        BY <1>1, <1>3 DEF ReferencesHold
      <4> QED BY <2>9, <4>1, ConstantsAssumption
    <3> QED BY <1>2, <2>9, <3>1 DEF GoodRow, Statuses
  <2> QED BY <2>1, <2>4, <2>5, <2>6, <2>7, <2>8, <2>9 DEF Rewritten
<1> QED BY <1>3 DEF GoodRows

\* Every step keeps the rows good.
LEMMA GoodStep ==
  ASSUME IInv, Typed, Owners, GoodRows, [Next]_vars
  PROVE  GoodRows'
<1>1. ASSUME UNCHANGED <<creator, task>>, users \subseteq users', Serving' => Serving
      PROVE  GoodRows'
  BY <1>1 DEF GoodRows, GoodRow, LiveTasks, Live
<1>2. ASSUME NEW direction, Refuse(direction)
      PROVE  GoodRows'
  <2>1. UNCHANGED <<revision, tables>> /\ command' = NoCommand
    BY <1>2 DEF Refuse, End
  <2> QED BY <1>1, <2>1 DEF tables, Serving, NoCommand
<1>3. CASE ~Serving'
  BY <1>3 DEF GoodRows
<1>4. CASE StartUpgrade
  <2>1. CASE Refuse("up")
    BY <1>2, <2>1
  <2>2. CASE ~Refuse("up")
    <3>1. UpgradeAllowed /\ UNCHANGED <<revision, tables>> /\ revision \in {Base, Backfill, Contract}
      BY <1>4, <2>2 DEF StartUpgrade, Start
    <3>2. revision = Backfill => ContractAllowed
      BY ONLY <3>1 DEF UpgradeAllowed, Backfill, Contract
    <3>3. CASE revision = Backfill
      <4>1. \A t \in LiveTasks : GoodRow(t)
        BY <3>2, <3>3, ContractChecks
      <4> QED BY <3>1, <4>1 DEF GoodRows, GoodRow, LiveTasks, Live, tables
    <3>4. CASE revision # Backfill
      BY <1>1, <3>1, <3>4 DEF Serving, tables
    <3> QED BY <3>3, <3>4
  <2> QED BY <2>1, <2>2
<1>5. CASE StartDowngrade
  <2>1. CASE Refuse("down")
    BY <1>2, <2>1
  <2>2. CASE ~Refuse("down")
    <3>1. UNCHANGED <<revision, tables>> /\ revision \in {Expand, Contract, Cleanup}
      BY <1>5, <2>2 DEF StartDowngrade, Start
    <3> QED BY <1>1, <3>1 DEF Serving, tables, Expand, Backfill, Contract, Cleanup
  <2> QED BY <2>1, <2>2
<1>6. CASE UpgradeToBackfill
  <2>1. CASE Refuse("up")
    BY <1>2, <2>1
  <2>2. CASE ~Refuse("up")
    <3>1. revision' = Backfill /\ command' = NoCommand
      BY <1>6, <2>2 DEF UpgradeToBackfill, Succeed, End
    <3> QED BY <1>3, <3>1 DEF Serving, NoCommand, Backfill, Contract, Cleanup
  <2> QED BY <2>1, <2>2
<1>7. CASE DowngradeFromBackfill
  <2>1. CASE Refuse("down")
    BY <1>2, <2>1
  <2>2. CASE ~Refuse("down")
    <3>1. revision' = Expand
      BY <1>7, <2>2 DEF DowngradeFromBackfill, Succeed
    <3> QED BY <1>3, <3>1 DEF Serving, Expand, Backfill, Contract, Cleanup
  <2> QED BY <2>1, <2>2
<1>8. CASE RunStatement
  <2>1. CASE Refuse(command.direction)
    BY <1>2, <2>1
  <2>2. CASE ~Refuse(command.direction)
    <3>1. revision' = revision /\ command' = [command EXCEPT !.step = @ + 1]
          /\ revision \in Revisions /\ command = [direction |-> command.direction, step |-> command.step]
      BY <1>8, <2>2 DEF RunStatement, IInv, Running
    <3>2. command'.direction = command.direction
      BY <3>1
    <3>3. CASE revision >= Backfill
      BY <1>1, <1>8, <3>1, <3>2, <3>3, LateStatement DEF Serving
    <3>4. CASE ~(revision >= Backfill)
      BY <1>3, <3>1, <3>4 DEF Serving, Backfill, Contract, Cleanup
    <3> QED BY <3>3, <3>4
  <2> QED BY <2>1, <2>2
<1>9. CASE RecordRevision
  <2>1. /\ UNCHANGED tables /\ command' = NoCommand
        /\ revision' = IF command.direction = "up" THEN revision + 1 ELSE revision - 1
        /\ Runs(revision, command.direction)
    BY <1>9 DEF RecordRevision, Succeed, End, IInv, Running, Runs
  <2>2. Serving' => Serving
    BY <2>1 DEF Serving, Runs, NoCommand, Base, Expand, Backfill, Contract, Cleanup
  <2> QED BY <1>1, <2>1, <2>2 DEF tables
<1>10. CASE Crash
  <2>1. UNCHANGED <<revision, tables>> /\ command' = NoCommand
    BY <1>10 DEF Crash, End
  <2> QED BY <1>1, <2>1 DEF tables, Serving, NoCommand
<1>11. CASE NewAppWrites
  BY <1>11, NewAppKeepsGood
<1>12. ASSUME NEW u, Register(u)
       PROVE  GoodRows'
  BY <1>1, <1>12 DEF Register, Edit, Serving
<1>13. ASSUME OldAppServes, Edit
       PROVE  GoodRows'
  <2>1. revision' \in {Base, Expand, Backfill} /\ command' = NoCommand
    BY <1>13 DEF OldAppServes, Edit, Idle
  <2> QED BY <1>3, <2>1 DEF Serving, NoCommand, Base, Expand, Backfill, Contract, Cleanup
<1>14. CASE Applications /\ ~NewAppWrites
  <2>1. ASSUME NEW t, \/ \E u \in Users, c \in Contents : CreateOldTask(t, u, c)
                      \/ \E done \in BOOLEAN : SetCompleted(t, done)
                      \/ DeleteOldTask(t)
        PROVE  OldAppServes /\ Edit
    BY <2>1 DEF CreateOldTask, SetCompleted, DeleteOldTask, OldTask
  <2>2. OldAppWritesWorkspaces => OldAppServes /\ Edit
    BY DEF OldAppWritesWorkspaces
  <2> QED BY <1>12, <1>13, <1>14, <2>1, <2>2 DEF Applications
<1>15. CASE UNCHANGED vars
  BY <1>1, <1>15 DEF vars, tables, Serving
<1> QED
  BY <1>4, <1>5, <1>6, <1>7, <1>8, <1>9, <1>10, <1>11, <1>14, <1>15 DEF Next, Commands

\* Owners and good rows in every reachable state.
THEOREM BoardInvariance == Spec => [](Owners /\ GoodRows)
<1>1. Init => Owners /\ GoodRows
  BY DEF Init, LegacyDatabase, InitialCommand, Owners, GoodRows, Serving, Base, Backfill, Contract, Cleanup
<1>2. IInv /\ Typed /\ Owners /\ GoodRows /\ [Next]_vars => (Owners /\ GoodRows)'
  BY OwnersStep, GoodStep
<1> QED BY <1>1, <1>2, Invariance, TypedInvariance, PTL DEF Spec

\* What the application of this commit finds when it serves is a state of TaskBoard,
\* whatever the old data, the failures and the way to the final schema.
THEOREM BoardsAreFound == Spec => []MigratedTablesAreABoard
<1>1. Owners /\ GoodRows => MigratedTablesAreABoard
  BY DEF Owners, GoodRows, GoodRow, Serving, NewAppServes, MigratedTablesAreABoard
<1> QED BY <1>1, BoardInvariance, PTL

-----------------------------------------------------------------------------
(* What the tables refer to.                                               *)

\* Members are accounts, and so are the creators, assignees and owners of tasks.
RolesLinked == \A w \in Workspaces, u \in Users : role[w][u] # NoRole => u \in users

TasksLinked ==
  \A t \in LiveTasks : {task[t].creator, task[t].assignee, legacy[t].owner} \subseteq users \cup {NoUser}

\* A mapped account exists and made the workspace it is mapped to.
HomesOwned == \A u \in Mapped : u \in users /\ Home(u) \in Workspaces /\ creator[Home(u)] = u

\* Before the backfill nobody is mapped.
NoneMapped == revision \in {Base, Expand} => Mapped = {}

Linked == RolesLinked /\ TasksLinked /\ HomesOwned /\ NoneMapped

\* Commands that move no row of a member or a task.
LEMMA SameLinks ==
  ASSUME Linked, UNCHANGED <<creator, role, task, legacy>>, users \subseteq users',
         UNCHANGED mapping, NoneMapped'
  PROVE  Linked'
BY DEF Linked, RolesLinked, TasksLinked, HomesOwned, LiveTasks, Live, Mapped, Home

\* The backfill maps every account to a workspace of its own.
LEMMA BackfillLinks ==
  ASSUME IInv, Typed, Linked, UpgradeToBackfill, ~Refuse("up")
  PROVE  Linked'
<1>1. PICK home \in Homes : BackfillTables(home)
  BY BackfillWrites
<1>2. /\ UNCHANGED <<users, legacy>> /\ revision' = Backfill
      /\ users \subseteq Users /\ home \in [users -> Workspaces]
  BY BackfillWrites DEF Succeed, IInv, Rows, Homes
<1>3. /\ mapping' = [u \in Users |->
           IF u \in users
           THEN [ws |-> home[u], count |-> Cardinality(Owned(u)), maxId |-> MaxId(Owned(u))]
           ELSE NoMapping]
      /\ BackfillVerified(creator', role', task', mapping')
  BY <1>1 DEF BackfillTables
<1>4. RolesLinked'
  <2>1. ASSUME NEW w \in Workspaces, NEW u \in Users, role'[w][u] # NoRole
        PROVE  u \in users
    <3>1. CASE \E v \in users : home[v] = w
      <4>1. creator'[w] \in users /\ role'[w] = [NoRoles EXCEPT ![creator'[w]] = "OWNER"]
        BY <1>1, <3>1 DEF BackfillTables
      <4> QED BY <2>1, <4>1 DEF NoRoles
    <3>2. CASE ~\E v \in users : home[v] = w
      <4>1. role'[w] = role[w]
        BY <1>1, <3>2 DEF BackfillTables
      <4> QED BY <2>1, <4>1 DEF Linked, RolesLinked
    <3> QED BY <3>1, <3>2
  <2> QED BY <1>2, <2>1 DEF RolesLinked
<1>5. TasksLinked'
  <2>1. ASSUME NEW t \in LiveTasks'
        PROVE  {task'[t].creator, task'[t].assignee, legacy[t].owner} \subseteq users \cup {NoUser}
    <3>1. CASE Live(t)
      <4>1. t \in LiveTasks /\ task'[t] = Backfilled(task[t], legacy[t], home[legacy[t].owner])
        BY <1>1, <2>1, <3>1 DEF BackfillTables, LiveTasks
      <4>2. task[t] \in LiveRow
        BY <3>1, <4>1, LiveRows DEF LiveTasks, Typed
      <4>3. task'[t].creator = legacy[t].owner /\ task'[t].assignee = NoUser
        BY <4>1, <4>2 DEF Backfilled, LiveRow
      <4>4. legacy[t].owner \in users \cup {NoUser}
        BY <4>1 DEF Linked, TasksLinked
      <4> QED BY <4>3, <4>4
    <3>2. CASE ~Live(t)
      <4>1. t \in Tasks /\ task'[t].phase = "live"
        BY <2>1 DEF LiveTasks, Live
      <4>2. task'[t] = task[t]
        BY <1>1, <3>2, <4>1 DEF BackfillTables
      <4> QED BY <3>2, <4>1, <4>2 DEF Live
    <3> QED BY <3>1, <3>2
  <2> QED BY <1>2, <2>1 DEF TasksLinked
<1>6. HomesOwned'
  <2>1. ASSUME NEW u \in Users, mapping'[u] # NoMapping
        PROVE  u \in users /\ mapping'[u].ws \in Workspaces /\ creator'[mapping'[u].ws] = u
    <3>1. u \in users /\ mapping'[u].ws = home[u]
      BY <1>3, <2>1
    <3>2. home[u] \in Workspaces
      BY <1>2, <3>1
    <3> QED BY <1>3, <3>1, <3>2 DEF BackfillVerified
  <2> QED BY <1>2, <2>1 DEF HomesOwned, Mapped, Home
<1>7. NoneMapped'
  BY <1>2 DEF NoneMapped, Base, Expand, Backfill
<1> QED BY <1>4, <1>5, <1>6, <1>7 DEF Linked

\* Its downgrade forgets them.
LEMMA UndoLinks ==
  ASSUME IInv, Typed, Linked, DowngradeFromBackfill, ~Refuse("down")
  PROVE  Linked'
<1>1. /\ role' = [w \in Workspaces |-> IF w \in Generated THEN NoRoles ELSE role[w]]
      /\ task' = [t \in Tasks |-> IF t \in Returned THEN OldRow(task[t].content) ELSE task[t]]
      /\ mapping' = [u \in Users |-> NoMapping]
      /\ UNCHANGED <<users, legacy>>
  BY DEF DowngradeFromBackfill
<1>2. Mapped' = {}
  BY <1>1 DEF Mapped
<1>3. RolesLinked'
  <2>1. \A w \in Workspaces, u \in Users : role'[w][u] \in {role[w][u], NoRole}
    BY <1>1 DEF NoRoles
  <2> QED BY <1>1, <2>1 DEF Linked, RolesLinked
<1>4. TasksLinked'
  <2>1. ASSUME NEW t \in LiveTasks'
        PROVE  {task'[t].creator, task'[t].assignee, legacy[t].owner} \subseteq users \cup {NoUser}
    <3>1. t \in Tasks /\ task'[t].phase = "live"
      BY <2>1 DEF LiveTasks, Live
    <3>2. CASE t \in Returned
      <4>1. t \in LiveTasks /\ task'[t] = OldRow(task[t].content)
        BY <1>1, <3>1, <3>2 DEF Returned
      <4> QED BY <4>1 DEF OldRow, Linked, TasksLinked
    <3>3. CASE t \notin Returned
      <4>1. task'[t] = task[t]
        BY <1>1, <3>1, <3>3
      <4>2. t \in LiveTasks
        BY <3>1, <4>1 DEF LiveTasks, Live
      <4> QED BY <4>1, <4>2 DEF Linked, TasksLinked
    <3> QED BY <3>2, <3>3
  <2> QED BY <1>1, <2>1 DEF TasksLinked
<1> QED BY <1>2, <1>3, <1>4 DEF Linked, HomesOwned, NoneMapped

\* A statement empties columns, restores owners from creators, or drops the mapping.
LEMMA StatementLinks ==
  ASSUME IInv, Typed, Linked, RunStatement, ~Refuse(command.direction)
  PROVE  Linked'
<1> DEFINE s == Script(revision, command.direction)[command.step]
<1>1. Execute(s) /\ UNCHANGED <<revision, users, creator, role>>
  BY MembersStay DEF RunStatement
<1> HIDE DEF s
<1>2. mapping' = mapping \/ mapping' = [u \in Users |-> NoMapping]
  BY <1>1 DEF Execute, Add, Drop, UpdateTasks, tables
<1>3. Mapped' = {} \/ (Mapped' = Mapped /\ mapping' = mapping)
  BY <1>2 DEF Mapped
<1>4. RolesLinked' /\ HomesOwned' /\ NoneMapped'
  BY <1>1, <1>3 DEF Linked, RolesLinked, HomesOwned, NoneMapped, Home
<1>5. ASSUME NEW t \in Tasks, NEW S, NoUser \in S,
             Live(t) => {task[t].creator, task[t].assignee, legacy[t].owner} \subseteq S
      PROVE  Live(t)' => Live(t) /\ {task'[t].creator, task'[t].assignee, legacy'[t].owner} \subseteq S
  <2>1. (Live(t) => task[t] \in LiveRow) /\ legacy[t] \in LegacyRow
    BY LiveRows DEF Typed
  <2>2. CASE Add(s.object)
    BY <1>5, <2>2 DEF Add, tables, Live
  <2>3. CASE Drop(s.object)
    <3>1. /\ task'[t] = IF Live(t) THEN WithoutColumn(task[t], s.object) ELSE task[t]
          /\ legacy'[t] = WithoutLegacyColumn(legacy[t], s.object)
      BY <2>3 DEF Drop
    <3>2. CASE ~Live(t)
      BY <3>1, <3>2 DEF Live
    <3>3. CASE Live(t)
      <4>1. task'[t].creator \in {task[t].creator, NoUser} /\ task'[t].assignee \in {task[t].assignee, NoUser}
        BY <2>1, <3>1, <3>3 DEF WithoutColumn, LiveRow
      <4>2. legacy'[t].owner \in {legacy[t].owner, NoUser}
        BY <2>1, <3>1 DEF WithoutLegacyColumn, LegacyRow
      <4> QED BY <1>5, <3>3, <4>1, <4>2
    <3> QED BY <3>2, <3>3
  <2>4. CASE UpdateTasks
    <3>1. task' = task /\ legacy'[t] = IF Live(t) THEN RestoreLegacy(task[t]) ELSE legacy[t]
      BY <2>4 DEF UpdateTasks
    <3>2. RestoreLegacy(task[t]).owner = task[t].creator
      BY DEF RestoreLegacy
    <3> QED BY <1>5, <3>1, <3>2 DEF Live
  <2> QED BY <1>1, <2>2, <2>3, <2>4 DEF Execute
<1>6. TasksLinked'
  <2> DEFINE S == users \cup {NoUser}
  <2>1. ASSUME NEW t \in Tasks
        PROVE  Live(t) => {task[t].creator, task[t].assignee, legacy[t].owner} \subseteq S
    BY DEF Linked, TasksLinked, LiveTasks
  <2>2. NoUser \in S /\ S' = S
    BY <1>1
  <2> HIDE DEF S
  <2>3. ASSUME NEW t \in Tasks, Live(t)'
        PROVE  {task'[t].creator, task'[t].assignee, legacy'[t].owner} \subseteq S
    BY <1>5, <2>1, <2>2, <2>3
  <2> QED BY <2>2, <2>3 DEF TasksLinked, LiveTasks, S
<1> QED BY <1>4, <1>6 DEF Linked

\* The foreign keys let the application of this commit name existing accounts only.
LEMMA NewAppLinks ==
  ASSUME IInv, Typed, Linked, GoodRows, NewAppWrites
  PROVE  Linked'
<1>1. /\ Board!Next /\ ReferencesHold' /\ UNCHANGED <<users, legacy, mapping, revision>>
      /\ revision \in {Contract, Cleanup} /\ users \subseteq Users
  BY DEF NewAppWrites, NewAppServes, Edit, IInv, Rows
<1>2. RolesLinked'
  BY <1>1 DEF ReferencesHold, RolesLinked
<1>3. HomesOwned'
  <2>1. \A w \in Workspaces : creator[w] # NoUser => creator'[w] = creator[w]
    BY <1>1, BoardMembers DEF Typed
  <2> QED BY <1>1, <2>1, ConstantsAssumption DEF Linked, HomesOwned, Mapped, Home
<1>4. NoneMapped'
  BY <1>1 DEF NoneMapped, Base, Expand, Contract, Cleanup
<1>5. ASSUME NEW t \in LiveTasks'
      PROVE  task'[t].assignee \in users \cup {NoUser}
  <2>1. t \in Tasks /\ Live(t)' /\ Rewritten(t)
    BY <1>1, <1>5, BoardRewrites DEF LiveTasks, IInv
  <2>2. Live(t) => /\ task[t] \in LiveRow /\ task[t].assignee \in users \cup {NoUser}
                   /\ task[t].ws \in Workspaces
    BY <1>1, <2>1, LiveRows DEF Typed, Linked, TasksLinked, LiveTasks, GoodRows, GoodRow, Serving
  <2>3. CASE task'[t] = task[t]
    BY <2>1, <2>2, <2>3 DEF Live
  <2>4. CASE task'[t] = Board!EmptyRow("deleted")
    BY <2>1, <2>4 DEF Live, Board!EmptyRow
  <2>5. CASE Live(t) /\ \E c \in ValidContents : task'[t] = [task[t] EXCEPT !.content = c]
    BY <2>2, <2>5 DEF LiveRow
  <2>6. CASE Live(t) /\ \E s \in Statuses : task'[t] = [task[t] EXCEPT !.status = s]
    BY <2>2, <2>6 DEF LiveRow
  <2>7. CASE Live(t) /\ \E u \in Users \cup {NoUser} :
                           /\ u # NoUser => role[task[t].ws][u] # NoRole
                           /\ task'[t] = [task[t] EXCEPT !.assignee = u]
    BY <2>2, <2>7 DEF LiveRow, Linked, RolesLinked
  <2>8. CASE \E w \in Workspaces, a \in Users, c \in ValidContents :
               /\ creator[w] # NoUser
               /\ task'[t] = [phase |-> "live", ws |-> w, creator |-> a,
                              assignee |-> NoUser, status |-> "TODO", content |-> c]
    BY <2>8
  <2> QED BY <2>1, <2>3, <2>4, <2>5, <2>6, <2>7, <2>8 DEF Rewritten
<1>6. TasksLinked'
  BY <1>1, <1>5 DEF ReferencesHold, TasksLinked
<1> QED BY <1>2, <1>3, <1>4, <1>6 DEF Linked

\* The old one writes for existing accounts.
LEMMA OldAppLinks ==
  ASSUME IInv, Typed, Linked, Applications, ~NewAppWrites
  PROVE  Linked'
<1>1. UNCHANGED <<mapping, revision>>
  BY Writes DEF Edit
<1>2. NoneMapped'
  BY <1>1 DEF Linked, NoneMapped, Mapped
<1>3. ASSUME NEW u, Register(u)
      PROVE  Linked'
  BY <1>1, <1>2, <1>3, SameLinks DEF Register
<1>4. ASSUME NEW t \in Tasks, NEW row, NEW old, NEW meaning, OldTask(t, row, old, meaning),
             row.phase = "live" => {row.creator, row.assignee, old.owner} \subseteq users \cup {NoUser}
      PROVE  Linked'
  <2>1. /\ UNCHANGED <<creator, role>>
        /\ task' = [task EXCEPT ![t] = row] /\ legacy' = [legacy EXCEPT ![t] = old]
    BY <1>4 DEF OldTask
  <2>2. task = [x \in Tasks |-> task[x]] /\ legacy = [x \in Tasks |-> legacy[x]]
    BY DEF IInv, Rows
  <2>3. \A x \in Tasks : /\ task'[x] = IF x = t THEN row ELSE task[x]
                         /\ legacy'[x] = IF x = t THEN old ELSE legacy[x]
    BY <2>1, <2>2
  <2>4. ASSUME NEW x \in Tasks, Live(x)'
        PROVE  {task'[x].creator, task'[x].assignee, legacy'[x].owner} \subseteq users \cup {NoUser}
    <3>1. CASE x = t
      BY <1>4, <2>3, <2>4, <3>1 DEF Live
    <3>2. CASE x # t
      <4>1. x \in LiveTasks /\ task'[x] = task[x] /\ legacy'[x] = legacy[x]
        BY <2>3, <2>4, <3>2 DEF Live, LiveTasks
      <4> QED BY <4>1 DEF Linked, TasksLinked
    <3> QED BY <3>1, <3>2
  <2>5. UNCHANGED users
    BY <1>4 DEF OldTask
  <2>6. TasksLinked'
    BY <2>4, <2>5 DEF TasksLinked, LiveTasks
  <2> QED BY <1>1, <1>2, <2>1, <2>5, <2>6 DEF Linked, RolesLinked, HomesOwned, Mapped, Home
<1>5. ASSUME NEW t \in Tasks, NEW u \in Users, NEW c \in Contents, CreateOldTask(t, u, c)
      PROVE  Linked'
  <2> DEFINE row == OldRow(c)
             old == [owner |-> u, completed |-> "false"]
  <2>1. OldTask(t, row, old, [owner |-> u, done |-> FALSE]) /\ u \in users
    BY <1>5 DEF CreateOldTask
  <2>2. row.creator = NoUser /\ row.assignee = NoUser /\ old.owner = u
    BY DEF OldRow
  <2> HIDE DEF row, old
  <2> QED BY <1>4, <2>1, <2>2
<1>6. ASSUME NEW t \in Tasks, NEW done \in BOOLEAN, SetCompleted(t, done)
      PROVE  Linked'
  <2> DEFINE old == [legacy[t] EXCEPT !.completed = Completed(done)]
  <2>1. OldTask(t, task[t], old, [meant[t] EXCEPT !.done = done]) /\ Live(t)
    BY <1>6 DEF SetCompleted
  <2>2. legacy[t] \in LegacyRow
    BY LiveRows DEF Typed
  <2>3. old.owner = legacy[t].owner
    BY <2>2 DEF LegacyRow
  <2>4. {task[t].creator, task[t].assignee, old.owner} \subseteq users \cup {NoUser}
    BY <2>1, <2>3 DEF Linked, TasksLinked, LiveTasks
  <2> HIDE DEF old
  <2> QED BY <1>4, <2>1, <2>4
<1>7. ASSUME NEW t \in Tasks, DeleteOldTask(t)
      PROVE  Linked'
  <2>1. OldTask(t, Board!EmptyRow("deleted"), NoLegacy, NothingMeant)
    BY <1>7 DEF DeleteOldTask
  <2>2. Board!EmptyRow("deleted").phase # "live"
    BY DEF Board!EmptyRow
  <2> QED BY <1>4, <2>1, <2>2
<1>8. CASE OldAppWritesWorkspaces
  <2>1. UNCHANGED <<task, users, legacy>> /\ Board!Next
    BY <1>8, OldBoard DEF OldAppWritesWorkspaces, IInv
  <2>2. \A w \in Workspaces : creator[w] # NoUser => creator'[w] = creator[w]
    BY <2>1, BoardMembers DEF Typed
  <2>3. users \subseteq Users
    BY DEF IInv, Rows
  <2>4. HomesOwned'
    BY <1>1, <2>1, <2>2, <2>3, ConstantsAssumption DEF Linked, HomesOwned, Mapped, Home
  <2>5. RolesLinked'
    <3>1. PICK w \in Workspaces, a \in users :
            \/ Board!CreateWorkspace(w, a)
            \/ \E newRole \in AssignableRoles : Board!AddMember(w, a, newRole)
      BY <1>8 DEF OldAppWritesWorkspaces
    <3>2. \/ role' = [role EXCEPT ![w] = [u \in Users |-> IF u = a THEN "OWNER" ELSE NoRole]]
          \/ \E newRole : role' = [role EXCEPT ![w][a] = newRole]
      BY <3>1 DEF Board!CreateWorkspace, Board!AddMember, NoRole, Board!NoRole
    <3>3. role \in [Workspaces -> Roster]
      BY DEF Typed, TypedMembers
    <3>4. ASSUME NEW x \in Workspaces, NEW u \in Users, u # a, role'[x][u] # NoRole
          PROVE  role[x][u] # NoRole
      <4>1. role[x] \in Roster /\ role[w] \in Roster
        BY <3>3
      <4>2. CASE x # w
        BY <3>2, <3>3, <3>4, <4>2
      <4>3. CASE x = w
        <5>1. \/ role'[w] = [v \in Users |-> IF v = a THEN "OWNER" ELSE NoRole]
              \/ \E newRole : role'[w] = [role[w] EXCEPT ![a] = newRole]
          BY <3>2, <3>3
        <5> QED BY <3>4, <4>1, <4>3, <5>1 DEF Roster
      <4> QED BY <4>2, <4>3
    <3> QED BY <2>1, <3>1, <3>4 DEF Linked, RolesLinked
  <2>6. TasksLinked'
    BY <2>1 DEF Linked, TasksLinked, LiveTasks, Live
  <2> QED BY <1>2, <2>4, <2>5, <2>6 DEF Linked
<1> QED BY <1>3, <1>5, <1>6, <1>7, <1>8 DEF Applications

\* The other commands keep the tables.
LEMMA LinkedStep ==
  ASSUME IInv, Typed, GoodRows, Linked, [Next]_vars
  PROVE  Linked'
<1>1. ASSUME UNCHANGED tables, NoneMapped'
      PROVE  Linked'
  BY <1>1, SameLinks DEF tables
<1>2. ASSUME UNCHANGED <<revision, tables>>
      PROVE  Linked'
  <2>1. NoneMapped'
    BY <1>2 DEF tables, Linked, NoneMapped, Mapped
  <2> QED BY <1>1, <1>2, <2>1
<1>3. ASSUME NEW direction, Refuse(direction)
      PROVE  Linked'
  BY <1>2, <1>3 DEF Refuse
<1>4. CASE StartUpgrade \/ StartDowngrade
  BY <1>2, <1>3, <1>4 DEF StartUpgrade, StartDowngrade, Start
<1>5. CASE UpgradeToBackfill
  BY <1>3, <1>5, BackfillLinks
<1>6. CASE DowngradeFromBackfill
  BY <1>3, <1>6, UndoLinks
<1>7. CASE RunStatement
  BY <1>3, <1>7, StatementLinks
<1>8. CASE RecordRevision
  <2>1. /\ UNCHANGED tables /\ Runs(revision, command.direction)
        /\ revision' = IF command.direction = "up" THEN revision + 1 ELSE revision - 1
    BY <1>8 DEF RecordRevision, Succeed, IInv, Running, Runs
  <2>2. revision' \in {Base, Expand} => revision \in {Base, Expand}
    BY <2>1 DEF Runs, Base, Expand, Backfill, Contract, Cleanup
  <2>3. NoneMapped'
    BY <2>1, <2>2 DEF tables, Linked, NoneMapped, Mapped
  <2> QED BY <1>1, <2>1, <2>3
<1>9. CASE Crash
  BY <1>2, <1>9 DEF Crash
<1>10. CASE Applications
  BY <1>10, NewAppLinks, OldAppLinks
<1>11. CASE UNCHANGED vars
  BY <1>2, <1>11 DEF vars
<1> QED BY <1>4, <1>5, <1>6, <1>7, <1>8, <1>9, <1>10, <1>11 DEF Next, Commands

\* An old database satisfies its foreign keys and maps nobody.
LEMMA InitLinked ==
  ASSUME Init
  PROVE  Linked
<1>1. /\ \A w \in Workspaces, u \in Users : role[w][u] # NoRole => u \in users
      /\ task \in [Tasks -> {OldRow(c) : c \in Contents} \cup {Board!EmptyRow("unused")}]
      /\ legacy \in [Tasks -> [owner : users, completed : {"true", "false"}] \cup {NoLegacy}]
      /\ mapping = [u \in Users |-> NoMapping]
  BY DEF Init, LegacyDatabase, InitialCommand
<1>2. Mapped = {}
  BY <1>1 DEF Mapped
<1>3. ASSUME NEW t \in LiveTasks
      PROVE  {task[t].creator, task[t].assignee, legacy[t].owner} \subseteq users \cup {NoUser}
  <2>1. t \in Tasks
    BY DEF LiveTasks
  <2>2. \A c : OldRow(c).creator = NoUser /\ OldRow(c).assignee = NoUser
    BY DEF OldRow
  <2>3. Board!EmptyRow("unused").creator = NoUser /\ Board!EmptyRow("unused").assignee = NoUser
    BY DEF Board!EmptyRow, NoUser, Board!NoUser
  <2>4. task[t] = Board!EmptyRow("unused") \/ \E c \in Contents : task[t] = OldRow(c)
    BY <1>1, <2>1
  <2>5. legacy[t].owner \in users \cup {NoUser}
    BY <1>1, <2>1 DEF NoLegacy
  <2> QED BY <2>2, <2>3, <2>4, <2>5
<1> QED BY <1>1, <1>2, <1>3 DEF Linked, RolesLinked, TasksLinked, HomesOwned, NoneMapped

-----------------------------------------------------------------------------
(* What the backfill has written, as long as nobody writes after it.       *)

\* The live tasks that are a user's.
Made(u) == {t \in LiveTasks : meant[t].owner = u}

\* The row is what the backfill made of it.
AsFilled(t) ==
  /\ meant[t].owner \in Mapped /\ task[t].ws = Home(meant[t].owner)
  /\ task[t].creator = meant[t].owner /\ task[t].assignee = NoUser
  /\ task[t].status = IF meant[t].done THEN "DONE" ELSE "TODO"
  /\ t \in pristine

\* Nobody has written and nothing has crashed.
Quiet == edits = 0 /\ ~crashed

\* Between the backfill and its downgrade or the cleanup.
Mapping == revision = Backfill \/ (revision = Contract /\ command.direction # "up")

\* Then the rows are as filled, the mapping is about exactly these rows, and each
\* mapped user is alone in the mapped workspace.
Untouched ==
  (Quiet /\ Mapping) =>
    /\ users = Mapped
    /\ \A u \in Mapped :
         /\ OwnerAlone(role[Home(u)], u)
         /\ mapping[u].count = Cardinality(Made(u)) /\ mapping[u].maxId = MaxId(Made(u))
    /\ \A t \in LiveTasks : AsFilled(t)

\* A command that leaves rows and mapping alone leaves them so.
LEMMA SameFill ==
  ASSUME Untouched, Quiet, Mapping, UNCHANGED <<users, role, task, mapping, pristine, meant>>
  PROVE  Untouched'
<1>1. UNCHANGED <<LiveTasks, Mapped>> /\ \A t : AsFilled(t) => AsFilled(t)'
  BY DEF LiveTasks, Live, Mapped, AsFilled, Home
<1>2. \A u : Made(u)' = Made(u) /\ Home(u)' = Home(u)
  BY <1>1 DEF Made, Home
<1>3. /\ users = Mapped /\ \A t \in LiveTasks : AsFilled(t)
      /\ \A u \in Mapped :
         /\ OwnerAlone(role[Home(u)], u)
         /\ mapping[u].count = Cardinality(Made(u)) /\ mapping[u].maxId = MaxId(Made(u))
  BY DEF Untouched
<1>4. \A u \in Mapped' :
         /\ OwnerAlone(role'[Home(u)'], u)
         /\ mapping'[u].count = Cardinality(Made(u)') /\ mapping'[u].maxId = MaxId(Made(u)')
  BY <1>1, <1>2, <1>3
<1>5. users' = Mapped' /\ \A t \in LiveTasks' : AsFilled(t)'
  BY <1>1, <1>3
<1> QED BY <1>4, <1>5 DEF Untouched, MaxId, OwnerAlone

\* The backfill fills every live row and maps every account.
LEMMA BackfillFills ==
  ASSUME IInv, Typed, Linked, UpgradeToBackfill, ~Refuse("up")
  PROVE  Untouched'
<1>1. PICK home \in Homes : BackfillTables(home)
  BY BackfillWrites
<1>2. UNCHANGED <<users, legacy, meant>> /\ revision = Expand
  BY BackfillWrites DEF history
<1>3. /\ BackfillVerified(creator', role', task', mapping') /\ pristine' = LiveTasks
      /\ \A u \in users : mapping'[u].count = Cardinality(Owned(u)) /\ mapping'[u].maxId = MaxId(Owned(u))
  BY <1>1 DEF BackfillTables, BackfillVerified
<1>4. users = Mapped'
  BY <1>3 DEF BackfillVerified, Mapped
<1>5. ASSUME NEW t \in LiveTasks
      PROVE  /\ legacy[t].owner = meant[t].owner /\ meant[t].owner \in users
             /\ legacy[t].completed = IF meant[t].done THEN "true" ELSE "false"
  <2>1. OldFact(t) /\ Truthful(t) /\ Owner \in schema /\ Done \in schema
    BY <1>2 DEF IInv, Facts, Columned
  <2>2. legacy[t].owner \in users \cup {NoUser}
    BY DEF Linked, TasksLinked
  <2> QED BY <2>1, <2>2 DEF OldFact, Truthful, Completed
<1>6. LiveTasks' = LiveTasks
  <2>1. ASSUME NEW t \in Tasks
        PROVE  Live(t)' <=> Live(t)
    <3>1. CASE Live(t)
      <4>1. task'[t] = Backfilled(task[t], legacy[t], home[legacy[t].owner]) /\ task[t] \in LiveRow
        BY <1>1, <3>1, LiveRows DEF BackfillTables, Typed
      <4>2. task'[t].phase = "live"
        BY <4>1 DEF Backfilled, LiveRow
      <4> QED BY <3>1, <4>2 DEF Live
    <3>2. CASE ~Live(t)
      BY <1>1, <3>2 DEF BackfillTables, Live
    <3> QED BY <3>1, <3>2
  <2> QED BY <2>1 DEF LiveTasks
<1>7. \A u : Made(u)' = Owned(u)
  BY <1>2, <1>5, <1>6 DEF Made, Owned
<1>8. ASSUME NEW t \in LiveTasks
      PROVE  AsFilled(t)'
  <2>1. /\ Agrees(task'[t], legacy[t]) /\ task'[t].assignee = NoUser
        /\ task'[t].ws = mapping'[legacy[t].owner].ws
    BY <1>3 DEF BackfillVerified
  <2>2. meant[t].done \in BOOLEAN
    BY DEF IInv, Facts, Truthful
  <2>3. task'[t].status = IF meant[t].done THEN "DONE" ELSE "TODO"
    BY <1>5, <2>1, <2>2 DEF Agrees
  <2>4. task'[t].creator = meant[t].owner /\ meant[t].owner \in Mapped'
    BY <1>4, <1>5, <2>1 DEF Agrees
  <2> QED BY <1>2, <1>3, <1>5, <2>1, <2>3, <2>4 DEF AsFilled, Home
<1>9. ASSUME NEW u \in Mapped'
      PROVE  /\ OwnerAlone(role'[mapping'[u].ws], u)
             /\ mapping'[u].count = Cardinality(Made(u)') /\ mapping'[u].maxId = MaxId(Made(u)')
  BY <1>3, <1>4, <1>7 DEF BackfillVerified
<1> QED BY <1>2, <1>4, <1>6, <1>8, <1>9 DEF Untouched, Home, OwnerAlone, MaxId

\* A constraint of the tasks table.
OnTasks(object) == object[1] \in {"not null", "check", "foreign key"}

\* Contract and its downgrade leave the mapping alone.
LEMMA MappingStays ==
  ASSUME IInv, RunStatement, revision = Backfill \/ (revision = Contract /\ command.direction = "down")
  PROVE  UNCHANGED <<mapping, pristine>>
<1> DEFINE script == Script(revision, command.direction)
           i == command.step
           s == script[i]
<1>1. ASSUME NEW st, Execute(st), st.verb = "drop" => st.object # MappingTable
      PROVE  UNCHANGED <<mapping, pristine>>
  BY <1>1 DEF Execute, Add, Drop, UpdateTasks, tables
<1>2. i \in Nat \ {0} /\ i <= Len(script)
  BY DEF RunStatement, IInv, Running
<1>3. \A o : OnTasks(o) => o # MappingTable
  <2>1. MappingTable[1] = "table"
    BY DEF MappingTable
  <2>2. "table" \notin {"not null", "check", "foreign key"}
    BY Zenon
  <2> QED BY <2>1, <2>2, Zenon DEF OnTasks
<1>4. Owner # MappingTable /\ Done # MappingTable /\ OwnerReference # MappingTable
  BY DEF MappingTable, Owner, Done, Column, OwnerReference
<1>5. CASE revision = Backfill
  <2>1. script = ContractUp
    BY <1>5 DEF Script, RunStatement, IInv, Running, Base, Expand, Backfill, Contract
  <2>2. i \in 1..Len(ContractUp)
    <3>1. Len(ContractUp) \in Nat
      BY ContractUpStatements, Zenon
    <3> QED BY <1>2, <2>1, <3>1
  <2>3. s.verb = "drop" => s.object # MappingTable
    <3>1. \/ ContractUp[i].verb = "add"
          \/ ContractUp[i].object \in {OwnerReference, Owner, Done}
      BY <2>2, ContractUpStatements
    <3> QED BY <1>4, <2>1, <3>1
  <2> HIDE DEF s
  <2> QED BY <1>1, <2>3 DEF RunStatement, Refuse, tables, s
<1>6. CASE revision = Contract /\ command.direction = "down"
  <2>1. script = ContractDown
    BY <1>6 DEF Script, Base, Expand, Backfill, Contract
  <2>2. Len(ContractDown) \in Nat
    BY ContractDownStatements
  <2>3. i \in 1..3 \/ i \in 4..Len(ContractDown)
    BY <1>2, <2>1, <2>2
  <2>4. CASE i \in 1..3
    <3>1. ContractDown[1].verb = "add" /\ ContractDown[2].verb = "add" /\ ContractDown[3].verb = "update"
      <4>1. 1 \in 1..Len(ContractDown) /\ 2 \in 1..Len(ContractDown) /\ 3 \in 1..Len(ContractDown)
        <5>1. Len(ContractDown) > 3
          BY ContractDownStatements, Zenon
        <5> QED BY <2>2, <5>1
      <4> QED BY <4>1, RestoreScript
    <3>2. s.verb # "drop"
      <4>1. i = 1 \/ i = 2 \/ i = 3
        BY <2>4
      <4> QED BY <2>1, <3>1, <4>1
    <3> HIDE DEF s
    <3> QED BY <1>1, <3>2 DEF RunStatement, Refuse, tables, s
  <2>5. CASE i \in 4..Len(ContractDown)
    <3>1. OnTasks(ContractDown[i].object)
      BY <2>5, ContractDownStatements, Zenon DEF OnTasks
    <3>2. s.object # MappingTable
      BY <1>3, <2>1, <3>1
    <3> HIDE DEF s
    <3> QED BY <1>1, <3>2 DEF RunStatement, Refuse, tables, s
  <2> QED BY <2>3, <2>4, <2>5
<1> QED BY <1>5, <1>6

\* Every step keeps what the backfill wrote, while nobody else writes.
LEMMA UntouchedStep ==
  ASSUME IInv, Typed, Staged, Linked, Untouched, [Next]_vars
  PROVE  Untouched'
<1> SUFFICES ASSUME Quiet', Mapping'
             PROVE  Untouched'
  BY DEF Untouched
<1>1. edits \in Nat
  BY DEF Typed, TypedHistory
<1>2. ASSUME UNCHANGED <<revision, tables, history>>, Mapping
      PROVE  Untouched'
  BY <1>2, SameFill DEF tables, history, Quiet
<1>3. ASSUME NEW direction, Refuse(direction), Idle
      PROVE  Untouched'
  <2>1. UNCHANGED <<revision, tables, history>> /\ command' = command
    BY <1>3 DEF Refuse, End, Idle
  <2>2. Mapping
    BY <2>1 DEF Mapping
  <2> QED BY <1>2, <2>1, <2>2
<1>4. CASE StartUpgrade \/ StartDowngrade
  <2>1. Idle /\ (\/ Refuse("up") \/ Refuse("down") \/ UNCHANGED <<revision, tables, history>>)
    BY <1>4 DEF StartUpgrade, StartDowngrade, Start
  <2>2. CASE UNCHANGED <<revision, tables, history>>
    <3>1. Mapping
      BY <2>1, <2>2 DEF Mapping, Idle, NoCommand
    <3> QED BY <1>2, <2>2, <3>1
  <2> QED BY <1>3, <2>1, <2>2
<1>5. CASE UpgradeToBackfill
  BY <1>3, <1>5, BackfillFills DEF UpgradeToBackfill
<1>6. CASE DowngradeFromBackfill
  <2>1. Refuse("down") \/ revision' = Expand
    BY <1>6 DEF DowngradeFromBackfill, Succeed
  <2>2. revision' # Expand
    BY DEF Mapping, Expand, Backfill, Contract
  <2> QED BY <1>3, <1>6, <2>1, <2>2 DEF DowngradeFromBackfill
<1>7. CASE RunStatement
  <2> DEFINE script == Script(revision, command.direction)
             i == command.step
  <2>1. ~Idle /\ Runs(revision, command.direction) /\ i \in Nat \ {0} /\ i <= Len(script)
        /\ command = [direction |-> command.direction, step |-> i]
    BY <1>7 DEF RunStatement, IInv, Running, Runs
  <2>2. script \in Seq(Statements)
    BY <2>1, ScriptSound
  <2>3. i \in 1..Len(script)
    <3> HIDE DEF script, Statements
    <3> QED BY <2>1, <2>2
  <2>4. ~crashed
    BY <1>7 DEF RunStatement, Refuse, history, Quiet
  <2>5. Executable(script[i])
    BY <2>1, <2>3, <2>4, NoneRefused
  <2>6. command' = [command EXCEPT !.step = @ + 1] /\ UNCHANGED <<revision, history>>
    BY <1>7, <2>5 DEF RunStatement
  <2>7. command'.direction = command.direction
    BY <2>1, <2>6
  <2>8. Mapping /\ revision >= Backfill
        /\ (revision = Backfill \/ (revision = Contract /\ command.direction = "down"))
    BY <2>1, <2>6, <2>7 DEF Mapping, Runs, Base, Expand, Backfill, Contract
  <2>9. UNCHANGED <<users, creator, role, task, mapping, pristine>>
    BY <1>7, <2>8, LateStatement, MappingStays
  <2>10. UNCHANGED meant /\ Quiet
    BY <2>6 DEF history, Quiet
  <2> QED BY <2>8, <2>9, <2>10, SameFill
<1>8. CASE RecordRevision
  <2>1. /\ UNCHANGED <<tables, history>> /\ Runs(revision, command.direction)
        /\ revision' = IF command.direction = "up" THEN revision + 1 ELSE revision - 1
    BY <1>8 DEF RecordRevision, Succeed, IInv, Running, Runs
  <2>2. Mapping
    BY <2>1 DEF Mapping, Runs, Base, Expand, Backfill, Contract
  <2> QED BY <2>1, <2>2, SameFill DEF tables, history, Quiet
<1>9. CASE Crash
  BY <1>9 DEF Crash, Quiet
<1>10. CASE Applications
  <2>1. edits' = edits + 1
    BY <1>10, Writes DEF Edit
  <2> QED BY <1>1, <2>1 DEF Quiet
<1>11. CASE UNCHANGED vars
  <2>1. Mapping
    BY <1>11 DEF vars, Mapping
  <2> QED BY <1>2, <1>11, <2>1 DEF vars
<1> QED BY <1>4, <1>5, <1>6, <1>7, <1>8, <1>9, <1>10, <1>11 DEF Next, Commands

-----------------------------------------------------------------------------
(* Which checks can fail.                                                  *)

\* The old columns and the mapping table are there between backfill and contract.
LEMMA BackfillSchema ==
  ASSUME Staged, ~crashed, Idle, revision \in {Expand, Backfill}
  PROVE  /\ {MappingTable, OwnerReference} \cup Objects(LegacyColumns) \subseteq schema
         /\ Owner \in schema /\ Done \in schema
         /\ Objects(Required) \cap schema = {}
<1>1. schema = BaseSchema \cup New
  BY Schemas DEF Staged
<1>2. LegacyColumns = <<Owner, Done>> /\ Owner # Done
  BY ObjectTypes DEF Owner, Done, Column
<1>3. Objects(LegacyColumns) = {Owner, Done}
  BY <1>2, Tuple2
<1>4. \A o \in Final : o \notin BaseSchema /\ o \notin New
  <2>1. ASSUME NEW o \in Final
        PROVE  o \notin BaseSchema /\ o \notin New
    BY Kinds, Zenon
  <2> QED BY <2>1
<1>5. BaseSchema = {Owner, Done, OwnerRequired, DoneRequired, OwnerReference}
  BY Kinds, Zenon
<1> QED BY <1>1, <1>3, <1>4, <1>5 DEF New, Final

\* As filled, a row says in its old columns what it says in its new ones.
LEMMA FilledAgrees ==
  ASSUME IInv, Typed, Linked, revision = Backfill, Owner \in schema, Done \in schema,
         NEW t \in LiveTasks, AsFilled(t)
  PROVE  /\ Agrees(task[t], legacy[t]) /\ Filled(task[t])
         /\ legacy[t].owner = meant[t].owner
<1>1. OldFact(t) /\ Truthful(t)
  BY DEF IInv, Facts
<1>2. legacy[t].owner = meant[t].owner /\ legacy[t].completed = IF meant[t].done THEN "true" ELSE "false"
  BY <1>1 DEF OldFact, Completed
<1>3. task[t].ws \in Workspaces
  BY DEF AsFilled, Linked, HomesOwned
<1> QED BY <1>1, <1>2, <1>3, ConstantsAssumption DEF AsFilled, Agrees, Filled, Truthful, Null

\* Nothing to object to a downgrade of the backfill when nobody wrote since.
LEMMA UndoPossible ==
  ASSUME IInv, Typed, Linked, Staged, Untouched, Quiet, Idle, revision = Backfill
  PROVE  CanUndoBackfill
<1>1. /\ {MappingTable, OwnerReference} \cup Objects(LegacyColumns) \subseteq schema
      /\ Owner \in schema /\ Done \in schema
      /\ Objects(Required) \cap schema = {}
  BY BackfillSchema DEF Quiet
<1>2. /\ users = Mapped /\ \A t \in LiveTasks : AsFilled(t)
      /\ \A u \in Mapped :
           /\ OwnerAlone(role[Home(u)], u)
           /\ mapping[u].count = Cardinality(Made(u)) /\ mapping[u].maxId = MaxId(Made(u))
  BY DEF Untouched, Mapping
<1>3. \A t \in LiveTasks : Agrees(task[t], legacy[t]) /\ legacy[t].owner = meant[t].owner
  BY <1>1, <1>2, FilledAgrees
<1>4. ASSUME NEW u \in Mapped, NEW v \in Mapped, Home(u) = Home(v)
      PROVE  u = v
  BY <1>4 DEF Linked, HomesOwned
<1>5. ASSUME NEW u \in Mapped
      PROVE  /\ Owned(u) = Made(u)
             /\ {t \in LiveTasks : task[t].ws = Home(u)} = Made(u)
             /\ TasksUnchanged(u)
  <2>1. Owned(u) = Made(u)
    BY <1>3 DEF Owned, Made
  <2>2. ASSUME NEW t \in LiveTasks
        PROVE  task[t].ws = Home(u) <=> meant[t].owner = u
    <3>1. meant[t].owner \in Mapped /\ task[t].ws = Home(meant[t].owner)
      BY <1>2 DEF AsFilled
    <3> QED BY <1>4, <3>1
  <2>3. {t \in LiveTasks : task[t].ws = Home(u)} = Made(u)
    BY <2>2 DEF Made
  <2>4. TasksUnchanged(u)
    BY <1>2, <1>3, <2>2 DEF TasksUnchanged, AsFilled
  <2> QED BY <2>1, <2>3, <2>4
<1>6. BackfillUnchanged
  <2>1. \A u \in Mapped : u \in users /\ creator[Home(u)] = u
    BY DEF Linked, HomesOwned
  <2> QED BY <1>2, <1>5, <2>1 DEF BackfillUnchanged
<1>7. \A u \in Mapped : \A x \in Users \ {u} : role[Home(u)][x] = NoRole
  BY <1>2 DEF OwnerAlone
<1>8. LiveTasks \ Returned = {}
  BY <1>2, <1>3 DEF Returned, AsFilled
<1>9. UndoExecutable
  BY <1>1, <1>7, <1>8 DEF UndoExecutable
<1> QED BY <1>1, <1>6, <1>9 DEF CanUndoBackfill

\* Nor to the contract, but for content that its constraints cannot admit.
LEMMA ContractPossible ==
  ASSUME IInv, Typed, Linked, Staged, Untouched, Quiet, Idle, revision = Backfill,
         \A t \in LiveTasks : task[t].content \in ValidContents
  PROVE  ContractAllowed
<1>1. /\ {MappingTable, OwnerReference} \cup Objects(LegacyColumns) \subseteq schema
      /\ Owner \in schema /\ Done \in schema
  BY BackfillSchema DEF Quiet
<1>2. /\ users = Mapped /\ \A t \in LiveTasks : AsFilled(t)
      /\ \A u \in Mapped : OwnerAlone(role[Home(u)], u)
  BY DEF Untouched, Mapping
<1>3. \A t \in LiveTasks : /\ Agrees(task[t], legacy[t]) /\ Filled(task[t])
                          /\ legacy[t].owner = meant[t].owner
  BY <1>1, <1>2, FilledAgrees
<1>4. \A t \in LiveTasks : task[t].ws = Home(legacy[t].owner)
  BY <1>2, <1>3 DEF AsFilled
<1>5. \A u \in Mapped : role[Home(u)][u] = "OWNER"
  BY <1>2 DEF OwnerAlone
<1> QED BY <1>1, <1>2, <1>3, <1>4, <1>5 DEF ContractAllowed, ContentFits

\* Whatever was written, the cleanup finds what it expects.
LEMMA CleanupPossible ==
  ASSUME IInv, Typed, Linked, Owners, GoodRows, Staged, ~crashed, Idle, revision = Contract
  PROVE  CleanupAllowed
<1>1. schema = FinalTasks \cup {MappingTable}
  BY DEF Staged, SchemaAt, Base, Expand, Backfill, Contract
<1>2. MappingSound
  <2>1. \A u \in Mapped : u \in Users /\ u \in users /\ Home(u) \in Workspaces /\ creator[Home(u)] = u
    BY DEF Linked, HomesOwned, Mapped
  <2>2. \A u \in Mapped : role[Home(u)][u] = "OWNER"
    BY <2>1 DEF Owners
  <2> QED BY <2>1, <2>2 DEF MappingSound
<1>3. ASSUME NEW t \in LiveTasks
      PROVE  /\ Filled(task[t]) /\ task[t].status \in Statuses
             /\ creator[task[t].ws] # NoUser /\ task[t].creator \in users
             /\ task[t].assignee \in users \cup {NoUser}
  <2>1. GoodRow(t) /\ users \subseteq Users
    BY DEF GoodRows, Serving, IInv, Rows
  <2>2. task[t].assignee \in users \cup {NoUser}
    BY DEF Linked, TasksLinked
  <2> QED BY <2>1, <2>2, ConstantsAssumption DEF GoodRow, Filled, Statuses, Null
<1> QED BY <1>1, <1>2, <1>3 DEF CleanupAllowed

\* And what it wrote stands its own checks.
LEMMA BackfillPossible ==
  ASSUME IInv, Typed, Linked, Staged, ~crashed, UpgradeToBackfill
  PROVE  Succeed(Backfill)
<1>1. Idle /\ revision = Expand
  BY DEF UpgradeToBackfill
<1>2. MappingTable \in schema /\ Mapped = {} /\ Owner \in schema /\ Done \in schema
  BY <1>1, BackfillSchema DEF Linked, NoneMapped
<1>3. users \subseteq Users /\ Users \subseteq Nat /\ NoUser \notin Users
  BY ConstantsAssumption DEF IInv, Rows
<1>4. ASSUME NEW home \in Homes, NEW newCreator, NEW newRole, NEW newTask, NEW newMapping,
             newCreator = [w \in Workspaces |->
               IF \E u \in users : home[u] = w
               THEN CHOOSE u \in users : home[u] = w ELSE creator[w]],
             newRole = [w \in Workspaces |->
               IF \E u \in users : home[u] = w
               THEN [NoRoles EXCEPT ![newCreator[w]] = "OWNER"] ELSE role[w]],
             newTask = [t \in Tasks |->
               IF Live(t) THEN Backfilled(task[t], legacy[t], home[legacy[t].owner])
               ELSE task[t]],
             newMapping = [u \in Users |->
               IF u \in users
               THEN [ws |-> home[u], count |-> Cardinality(Owned(u)), maxId |-> MaxId(Owned(u))]
               ELSE NoMapping]
      PROVE  BackfillVerified(newCreator, newRole, newTask, newMapping)
  <2>1. /\ \A u \in users : home[u] \in Workspaces /\ home[u] # 0 /\ creator[home[u]] = NoUser
        /\ \A u, v \in users : u < v => home[u] < home[v]
    BY ConstantsAssumption DEF Homes
  <2>2. ASSUME NEW u \in users, NEW v \in users, home[u] = home[v]
        PROVE  u = v
    <3>1. u \in Nat /\ v \in Nat /\ home[u] \in Nat /\ home[v] \in Nat
      BY <1>3, <2>1, ConstantsAssumption
    <3>2. ~(u < v) /\ ~(v < u)
      BY <2>1, <2>2, <3>1
    <3> QED BY <3>1, <3>2
  <2>3. ASSUME NEW u \in users
        PROVE  /\ newMapping[u].ws = home[u] /\ newMapping[u] # NoMapping
               /\ newMapping[u].count = Cardinality(Owned(u))
               /\ newMapping[u].maxId = MaxId(Owned(u))
               /\ newCreator[home[u]] = u /\ OwnerAlone(newRole[home[u]], u)
    <3>1. newMapping[u] = [ws |-> home[u], count |-> Cardinality(Owned(u)), maxId |-> MaxId(Owned(u))]
      BY <1>3, <1>4
    <3>2. newMapping[u].ws = home[u] /\ newMapping[u] # NoMapping
          /\ newMapping[u].count = Cardinality(Owned(u)) /\ newMapping[u].maxId = MaxId(Owned(u))
      BY <2>1, <3>1 DEF NoMapping
    <3>3. newCreator[home[u]] = u
      BY <1>4, <2>1, <2>2
    <3>4. newRole[home[u]] = [NoRoles EXCEPT ![u] = "OWNER"]
      BY <1>4, <2>1, <3>3
    <3>5. OwnerAlone(newRole[home[u]], u)
      BY <1>3, <3>4 DEF OwnerAlone, NoRoles
    <3> QED BY <3>2, <3>3, <3>5
  <2>4. users = {u \in Users : newMapping[u] # NoMapping}
    BY <1>3, <1>4, <2>3
  <2>5. ASSUME NEW t \in LiveTasks
        PROVE  /\ Filled(newTask[t]) /\ Agrees(newTask[t], legacy[t])
               /\ newTask[t].assignee = NoUser
               /\ newTask[t].ws = newMapping[legacy[t].owner].ws
    <3>1. t \in Tasks /\ Live(t) /\ task[t] \in LiveRow
      BY LiveRows DEF LiveTasks, Typed
    <3>2. newTask[t] = Backfilled(task[t], legacy[t], home[legacy[t].owner])
      BY <1>4, <3>1
    <3>3. /\ newTask[t].ws = home[legacy[t].owner] /\ newTask[t].creator = legacy[t].owner
          /\ newTask[t].assignee = NoUser /\ newTask[t].status = StatusOf(legacy[t].completed)
      BY <3>1, <3>2 DEF Backfilled, LiveRow
    <3>4. OldFact(t) /\ Truthful(t)
      BY <1>1 DEF IInv, Facts
    <3>5. legacy[t].owner \in users
      BY <1>2, <3>4 DEF OldFact, Truthful, Linked, TasksLinked
    <3>6. Agrees(newTask[t], legacy[t])
      BY <3>3 DEF Agrees, StatusOf
    <3>7. Filled(newTask[t])
      BY <1>3, <2>1, <3>3, <3>5 DEF Filled, StatusOf, Null
    <3> QED BY <2>3, <3>3, <3>5, <3>6, <3>7
  <2>6. ASSUME NEW w \in Workspaces, creator[w] # NoUser
        PROVE  newCreator[w] = creator[w] /\ newRole[w] = role[w]
    BY <1>4, <2>1, <2>6
  <2> QED BY <2>3, <2>4, <2>5, <2>6 DEF BackfillVerified
<1>5. PICK home \in Homes :
        LET newCreator == [w \in Workspaces |->
              IF \E u \in users : home[u] = w
              THEN CHOOSE u \in users : home[u] = w ELSE creator[w]]
            newRole == [w \in Workspaces |->
              IF \E u \in users : home[u] = w
              THEN [NoRoles EXCEPT ![newCreator[w]] = "OWNER"] ELSE role[w]]
            newTask == [t \in Tasks |->
              IF Live(t) THEN Backfilled(task[t], legacy[t], home[legacy[t].owner])
              ELSE task[t]]
            newMapping == [u \in Users |->
              IF u \in users
              THEN [ws |-> home[u], count |-> Cardinality(Owned(u)), maxId |-> MaxId(Owned(u))]
              ELSE NoMapping]
        IN  Succeed(Backfill) \/ ~BackfillVerified(newCreator, newRole, newTask, newMapping)
  BY <1>2 DEF UpgradeToBackfill
<1> QED BY <1>4, <1>5

\* A refusal is about writes, about content, or about a downgrade of the cleanup.
LEMMA RefusalStep ==
  ASSUME IInv, Typed, Staged, Linked, Owners, GoodRows, Untouched, RefusalsAreEarned, [Next]_vars
  PROVE  RefusalsAreEarned'
<1> SUFFICES ASSUME ~crashed', outcome'.is = "refused"
             PROVE  RefusalsAreEarned'
  BY DEF RefusalsAreEarned
<1>1. edits \in Nat
  BY DEF Typed, TypedHistory
<1>2. ASSUME UNCHANGED <<outcome, revision, edits, crashed>>, revision = Backfill => UNCHANGED task
      PROVE  RefusalsAreEarned'
  BY <1>2 DEF RefusalsAreEarned, LiveTasks, Live
<1>3. ASSUME NEW direction, Refuse(direction), Idle,
             IF direction = "up"
             THEN revision = Backfill /\ (edits > 0 \/ \E t \in LiveTasks : task[t].content \notin ValidContents)
             ELSE revision = Cleanup \/ (revision = Backfill /\ edits > 0)
      PROVE  RefusalsAreEarned'
  <2>1. outcome' = [is |-> "refused", direction |-> direction]
        /\ UNCHANGED <<revision, edits, task>>
    BY <1>3 DEF Refuse, End, tables, history
  <2> QED BY <1>3, <2>1 DEF RefusalsAreEarned, LiveTasks, Live
<1>4. ASSUME NEW r, Succeed(r)
      PROVE  FALSE
  BY <1>4 DEF Succeed, End
<1>5. ASSUME UNCHANGED <<revision, schema, tables, outcome, history>>
      PROVE  RefusalsAreEarned'
  BY <1>2, <1>5 DEF tables, history
<1>6. CASE StartUpgrade
  <2>1. Idle /\ revision \in {Base, Backfill, Contract} /\ Start("up", UpgradeAllowed)
    BY <1>6 DEF StartUpgrade
  <2>2. CASE Refuse("up") /\ ~UpgradeAllowed
    <3>1. ~crashed
      BY <2>2 DEF Refuse, history
    <3>2. /\ revision = Backfill => ~ContractAllowed
          /\ revision = Contract => ~CleanupAllowed
          /\ revision \in {Backfill, Contract}
      BY ONLY <2>1, <2>2 DEF UpgradeAllowed, Base, Backfill, Contract
    <3>3. revision = Backfill
      BY <2>1, <3>1, <3>2, CleanupPossible
    <3>4. edits > 0 \/ \E t \in LiveTasks : task[t].content \notin ValidContents
      BY <1>1, <2>1, <3>1, <3>2, <3>3, ContractPossible DEF Quiet
    <3> QED BY <1>3, <2>1, <2>2, <3>3, <3>4
  <2>3. CASE UNCHANGED <<revision, schema, tables, outcome, history>>
    BY <1>5, <2>3
  <2> QED BY <2>1, <2>2, <2>3 DEF Start
<1>7. CASE StartDowngrade
  <2>1. Idle /\ revision \in {Expand, Contract, Cleanup} /\ Start("down", DowngradeAllowed)
    BY <1>7 DEF StartDowngrade
  <2>2. CASE Refuse("down") /\ ~DowngradeAllowed
    <3>1. revision = Cleanup \/ (revision = Contract /\ ~ContractUndoAllowed)
      BY ONLY <2>1, <2>2 DEF DowngradeAllowed, Expand, Contract, Cleanup
    <3>2. revision = Contract => ContractUndoAllowed
      <4>1. users \subseteq Users
        BY DEF IInv, Rows
      <4> QED BY <4>1, ConstantsAssumption DEF GoodRows, GoodRow, Serving, ContractUndoAllowed
    <3>3. "down" # "up"
      OBVIOUS
    <3> QED BY <1>3, <2>1, <2>2, <3>1, <3>2, <3>3
  <2>3. CASE UNCHANGED <<revision, schema, tables, outcome, history>>
    BY <1>5, <2>3
  <2> QED BY <2>1, <2>2, <2>3 DEF Start
<1>8. CASE UpgradeToBackfill
  <2>1. ~crashed
    BY <1>8 DEF UpgradeToBackfill, Refuse, Succeed, history
  <2>2. Succeed(Backfill)
    BY <1>8, <2>1, BackfillPossible
  <2> QED BY <1>4, <2>2
<1>9. CASE DowngradeFromBackfill
  <2>1. CASE Refuse("down") /\ ~CanUndoBackfill
    <3>1. ~crashed /\ Idle /\ revision = Backfill
      BY <1>9, <2>1 DEF DowngradeFromBackfill, Refuse, history
    <3>2. edits > 0
      BY <1>1, <2>1, <3>1, UndoPossible DEF Quiet
    <3>3. "down" # "up"
      OBVIOUS
    <3> QED BY <1>3, <2>1, <3>1, <3>2, <3>3
  <2>2. CASE Succeed(Expand)
    BY <1>4, <2>2
  <2> QED BY <1>9, <2>1, <2>2 DEF DowngradeFromBackfill
<1>10. CASE RunStatement
  <2> DEFINE script == Script(revision, command.direction)
             i == command.step
  <2>1. ~Idle /\ Runs(revision, command.direction) /\ i \in Nat \ {0} /\ i <= Len(script)
    BY <1>10 DEF RunStatement, IInv, Running, Runs
  <2>2. script \in Seq(Statements)
    BY <2>1, ScriptSound
  <2>3. i \in 1..Len(script)
    <3> HIDE DEF script, Statements
    <3> QED BY <2>1, <2>2
  <2>4. ~crashed
    BY <1>10 DEF RunStatement, Refuse, history
  <2>5. Executable(script[i])
    BY <2>1, <2>3, <2>4, NoneRefused
  <2>6. UNCHANGED <<revision, outcome, history>>
    BY <1>10, <2>5 DEF RunStatement
  <2>7. revision = Backfill => UNCHANGED task
    BY <1>10, LateStatement DEF Backfill
  <2> QED BY <1>2, <2>6, <2>7 DEF history
<1>11. CASE RecordRevision
  BY <1>4, <1>11 DEF RecordRevision
<1>12. CASE Crash
  BY <1>12 DEF Crash
<1>13. CASE Applications
  <2>1. edits' = edits + 1 /\ UNCHANGED <<revision, outcome, crashed>>
    BY <1>13, Writes DEF Edit
  <2>2. edits' > 0
    BY <1>1, <2>1
  <2> QED BY <2>1, <2>2 DEF RefusalsAreEarned
<1>14. CASE UNCHANGED vars
  BY <1>5, <1>14 DEF vars
<1> QED
  BY <1>6, <1>7, <1>8, <1>9, <1>10, <1>11, <1>12, <1>13, <1>14 DEF Next, Commands

\* Unless a command crashed, the backfill and the cleanup are never refused, the
\* contract only after old writes or on content it cannot admit, and a downgrade
\* only at the irreversible cleanup or when the backfilled data was written to.
THEOREM RefusalsHaveReasons == Spec => []RefusalsAreEarned
<1>1. Init => Untouched /\ RefusalsAreEarned
  BY DEF Init, InitialCommand, Untouched, Mapping, RefusalsAreEarned, Base, Backfill, Contract
<1>2. Init => Linked
  BY InitLinked
<1>3. IInv /\ Typed /\ Staged /\ Owners /\ GoodRows /\ Linked /\ Untouched /\ RefusalsAreEarned
        /\ [Next]_vars => (Linked /\ Untouched /\ RefusalsAreEarned)'
  BY LinkedStep, UntouchedStep, RefusalStep
<1> QED
  BY <1>1, <1>2, <1>3, Invariance, TypedInvariance, StagedInvariance, BoardInvariance, PTL DEF Spec

=============================================================================
