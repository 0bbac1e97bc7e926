--------------------------- MODULE TaskTransactions ---------------------------
(***************************************************************************)
(* The write requests of the platform as MySQL transactions: the nine      *)
(* mutating endpoints of app/routers/{workspaces,workspace_members,tasks}  *)
(* with their dependencies (app/dependencies.py) and services              *)
(* (app/services/*.py), cut at the points where requests interleave.       *)
(*                                                                         *)
(* A request has one session and one transaction (app/database.py), under  *)
(* MySQL's REPEATABLE READ:                                                *)
(*  - every plain SELECT of a transaction reads the snapshot taken by its  *)
(*    first one, so everything a request learns from plain SELECTs is read *)
(*    in a single step, Begin;                                             *)
(*  - SELECT ... FOR UPDATE, UPDATE, DELETE and INSERT act on the latest   *)
(*    committed row and hold it exclusively until the transaction ends;    *)
(*    taking such a lock and reading the row is one step per row;          *)
(*  - writes become visible together, at the commit.                       *)
(* A check that fails rolls the transaction back and answers an error      *)
(* code; a failure (deadlock victim, lock wait timeout, lost connection,   *)
(* killed process) rolls it back at any point and answers 500; a commit    *)
(* may be applied although its acknowledgement is lost.                    *)
(*                                                                         *)
(* Operators whose names end in "Slip" are plausible mistakes in the       *)
(* definition that follows them; the specification does not use them.      *)
(***************************************************************************)
EXTENDS Policies

CONSTANTS
  Users,       \* ids of registered users (no endpoint deletes a user)
  Workspaces,  \* ids that workspaces can get
  Tasks,       \* ids that tasks can get
  Contents,    \* values of title/description/priority taken together
  Requests,    \* request slots: a slot serves one request after another
  Operations   \* the endpoints clients call

NoWorkspace == 0
NoTask == 0
NoContent == "none"

ASSUME ConstantsAssumption ==
  /\ Users \subseteq Nat \ {NoUser}
  /\ Workspaces \subseteq Nat \ {NoWorkspace}
  /\ Tasks \subseteq Nat \ {NoTask}
  /\ NoContent \notin Contents

VARIABLES
  creator,  \* workspaces: id -> created_by_id, NoUser if there is no such row
  role,     \* workspace_members: workspace -> user -> role, or NoRole
  task,     \* tasks: id -> row
  req       \* request slot -> the request it serves

vars == <<creator, role, task, req>>
tables == <<creator, role, task>>

-----------------------------------------------------------------------------
(* The tasks table.                                                        *)

NoRow(phase) ==
  [phase |-> phase, ws |-> NoWorkspace, creator |-> NoUser,
   assignee |-> NoUser, status |-> "TODO", content |-> NoContent]

LiveRows ==
  [phase : {"live"}, ws : Workspaces, creator : Users,
   assignee : Users \cup {NoUser}, status : Statuses, content : Contents]

TaskRows == LiveRows \cup {NoRow("unused"), NoRow("deleted")}

\* SELECT ... WHERE id = t AND workspace_id = w finds a row.
InWorkspace(t, w) == task[t].phase = "live" /\ task[t].ws = w

NewTaskSlip(w, a, c) ==
  [phase |-> "live", ws |-> w, creator |-> NoUser,
   assignee |-> NoUser, status |-> "TODO", content |-> c]

NewTask(w, a, c) ==
  [phase |-> "live", ws |-> w, creator |-> a,
   assignee |-> NoUser, status |-> "TODO", content |-> c]

-----------------------------------------------------------------------------
(* A request.  seen is its session's identity map: what it last read of    *)
(* each membership row.  mlocks and tlocks are the rows it has locked in   *)
(* its workspace, unassigned the rows the UPDATE of a removal has changed, *)
(* which nobody sees before the commit.  pc says what it does next: lock   *)
(* memberships ("members"), lock tasks ("task"), or commit.                *)

PC == {"idle", "members", "task", "commit"}

Endpoints ==
  {"create_workspace", "add_member", "update_member_role", "remove_member",
   "create_task", "update_task", "delete_task", "update_task_status",
   "update_task_assignee"}

\* The endpoints that SELECT ... FOR UPDATE memberships.
LockingReads == {"update_task_status", "update_task_assignee", "remove_member"}

Proceed == "PROCEED"
Failed == "INTERNAL_SERVER_ERROR"

Replies ==
  {"NONE", "OK", Failed, "WORKSPACE_NOT_FOUND", "TASK_NOT_FOUND",
   "TASK_PERMISSION_DENIED", "TASK_STATUS_TRANSITION_CONFLICT",
   "TASK_ASSIGNMENT_CONFLICT", "WORKSPACE_PERMISSION_DENIED",
   "WORKSPACE_MEMBER_NOT_FOUND", "WORKSPACE_MEMBER_ALREADY_EXISTS",
   "OWNER_MEMBERSHIP_CONFLICT"}

\* A slot whose last request, if any, was answered with this reply.
Idle(reply) ==
  [pc |-> "idle", op |-> "none", actor |-> NoUser, ws |-> NoWorkspace,
   task |-> NoTask, target |-> NoUser, value |-> "none",
   seen |-> [u \in Users |-> NoRole], mlocks |-> {}, tlocks |-> {},
   unassigned |-> {}, reply |-> reply]

\* A request of user a in workspace w whose dependencies have run, for task t,
\* target user u and value v where its endpoint has them.
Opened(op, pc, a, w, t, u, v) ==
  [pc |-> pc, op |-> op, actor |-> a, ws |-> w, task |-> t, target |-> u, value |-> v,
   seen |-> [x \in Users |-> IF x = a THEN role[w][a] ELSE NoRole],
   mlocks |-> {}, tlocks |-> {}, unassigned |-> {}, reply |-> "NONE"]

\* Checks in the order of the code: the first that fails decides the reply.
Check(condition, reply) == IF condition THEN Proceed ELSE reply
Then(first, second) == IF first = Proceed THEN second ELSE first

Answer(r, reply) == req' = [req EXCEPT ![r] = Idle(reply)]

-----------------------------------------------------------------------------
(* Locks.  A gap lock on an absent membership row is shared by readers and *)
(* excludes only the inserter.                                             *)

Wanted(q) ==
  CASE q.op = "update_task_status" -> {q.actor}
    [] q.op = "update_task_assignee" -> {q.actor, q.target} \ {NoUser}
    [] q.op \in {"add_member", "update_member_role", "remove_member"} -> {q.target}
    [] OTHER -> {}

\* The rows a statement locks, in the order of its ORDER BY or index scan.
FirstInOrderSlip(x, S) == x \in S

FirstInOrder(x, S) == x \in S /\ \A y \in S : x <= y

\* Memberships a request holds; an unlocked read would hold nothing.
HeldMembersAssigneeSlip(q) ==
  IF q.op = "update_task_assignee" THEN q.mlocks \ {q.target} ELSE q.mlocks

HeldMembersRemovalSlip(q) ==
  IF q.op = "remove_member" THEN {} ELSE q.mlocks

HeldMembers(q) == q.mlocks

HeldTasksSlip(q) == IF q.op = "update_task_assignee" THEN {} ELSE q.tlocks

HeldTasksDeleteSlip(q) == IF q.op = "delete_task" THEN {} ELSE q.tlocks

HeldTasks(q) == q.tlocks

MemberBlockers(r, u) ==
  {s \in Requests \ {r} :
     /\ req[s].ws = req[r].ws
     /\ u \in HeldMembers(req[s])
     /\ \/ role[req[r].ws][u] # NoRole
        \/ "add_member" \in {req[r].op, req[s].op}}

TaskBlockers(r, t) == {s \in Requests \ {r} : t \in HeldTasks(req[s])}
-----------------------------------------------------------------------------
(* Begin: the dependencies, the checks a service makes before it locks or  *)
(* writes anything, and the id an INSERT draws.                            *)

\* get_workspace_access and get_workspace_task_access.
WorkspaceAccess(a, w) == Check(role[w][a] # NoRole, "WORKSPACE_NOT_FOUND")

TaskAccess(a, w, t) ==
  Then(WorkspaceAccess(a, w), Check(InWorkspace(t, w), "TASK_NOT_FOUND"))

\* require_workspace_roles
RoleAccess(a, w, allowed) ==
  Then(WorkspaceAccess(a, w), Check(role[w][a] \in allowed, "WORKSPACE_PERMISSION_DENIED"))

Begin(r, q, outcome) ==
  /\ req[r].pc = "idle"
  /\ q.op \in Operations
  /\ req' = [req EXCEPT ![r] = IF outcome = Proceed THEN q ELSE Idle(outcome)]
  /\ UNCHANGED tables

BeginCreateWorkspace(r, a, w) ==
  /\ creator[w] = NoUser
  /\ \A s \in Requests : req[s].ws # w
  /\ Begin(r, Opened("create_workspace", "commit", a, w, NoTask, NoUser, "none"), Proceed)

BeginCreateTask(r, a, w, t, c) ==
  /\ task[t].phase = "unused"
  /\ \A s \in Requests : req[s].task # t
  /\ Begin(r, Opened("create_task", "commit", a, w, t, NoUser, c),
           WorkspaceAccess(a, w))

EditAccess(a, w, t) ==
  Then(TaskAccess(a, w, t),
       Check(CanEditTask(role[w][a], a, task[t].creator), "TASK_PERMISSION_DENIED"))

\* Setting the content the snapshot already shows emits no UPDATE.
BeginUpdateTask(r, a, w, t, c) ==
  Begin(r, Opened("update_task", "task", a, w, t, NoUser, c),
        Then(EditAccess(a, w, t), Check(task[t].content # c, "OK")))

BeginDeleteTask(r, a, w, t) ==
  Begin(r, Opened("delete_task", "task", a, w, t, NoUser, "none"), EditAccess(a, w, t))

BeginUpdateTaskStatus(r, a, w, t, s) ==
  Begin(r, Opened("update_task_status", "members", a, w, t, NoUser, s),
        TaskAccess(a, w, t))

\* A MEMBER may ask for itself or for nobody.
AssigneeRequest(actorRole, a, u) ==
  Check(actorRole # "MEMBER" \/ u \in {NoUser, a}, "TASK_PERMISSION_DENIED")

BeginUpdateTaskAssignee(r, a, w, t, u) ==
  Begin(r, Opened("update_task_assignee", "members", a, w, t, u, "none"),
        Then(TaskAccess(a, w, t), AssigneeRequest(role[w][a], a, u)))

BeginAddMember(r, a, w, u, newRole) ==
  Begin(r, Opened("add_member", "members", a, w, NoTask, u, newRole),
        Then(RoleAccess(a, w, Managers),
        Then(Check(CanAddMember(role[w][a], newRole), "WORKSPACE_PERMISSION_DENIED"),
             Check(role[w][u] = NoRole, "WORKSPACE_MEMBER_ALREADY_EXISTS"))))

RoleChangeAllowedSlip(a, w, u, newRole) ==
  Check(role[w][u] # NoRole, "WORKSPACE_MEMBER_NOT_FOUND")

RoleChangeAllowed(a, w, u, newRole) ==
  Then(Check(role[w][u] # NoRole, "WORKSPACE_MEMBER_NOT_FOUND"),
  Then(Check(role[w][u] # "OWNER", "OWNER_MEMBERSHIP_CONFLICT"),
       Check(CanUpdateMemberRole(role[w][a], role[w][u], newRole),
             "WORKSPACE_PERMISSION_DENIED")))

\* Everything here is read from the snapshot; the same role emits no UPDATE.
BeginUpdateMemberRole(r, a, w, u, newRole) ==
  Begin(r, Opened("update_member_role", "members", a, w, NoTask, u, newRole),
        Then(RoleAccess(a, w, {"OWNER"}),
        Then(RoleChangeAllowed(a, w, u, newRole), Check(role[w][u] # newRole, "OK"))))

BeginRemoveMember(r, a, w, u) ==
  Begin(r, Opened("remove_member", "members", a, w, NoTask, u, "none"),
        RoleAccess(a, w, Managers))

-----------------------------------------------------------------------------
(* Membership rows: FOR UPDATE for the workflow and for removals, INSERT,  *)
(* UPDATE.                                                                 *)

\* populate_existing: the locked row replaces what the session had read.
RefreshedSlip(q, u) ==
  IF NoRole \notin {q.seen[u], role[q.ws][u]} THEN q.seen
                                             ELSE [q.seen EXCEPT ![u] = role[q.ws][u]]

Refreshed(q, u) == [q.seen EXCEPT ![u] = role[q.ws][u]]

\* What the service checks once all the memberships it wants are locked.
MembershipCheck(q) ==
  CASE q.op = "update_task_status" ->
         Check(q.seen[q.actor] # NoRole, "WORKSPACE_NOT_FOUND")
    [] q.op = "update_task_assignee" ->
         Then(Check(q.seen[q.actor] # NoRole, "WORKSPACE_NOT_FOUND"),
              AssigneeRequest(q.seen[q.actor], q.actor, q.target))
    [] OTHER ->
         Then(Check(q.seen[q.target] # NoRole, "WORKSPACE_MEMBER_NOT_FOUND"),
         Then(Check(q.seen[q.target] # "OWNER",
                    IF q.seen[q.actor] = "OWNER" THEN "OWNER_MEMBERSHIP_CONFLICT"
                                                 ELSE "WORKSPACE_PERMISSION_DENIED"),
              Check(CanRemoveMember(q.seen[q.actor], q.seen[q.target]),
                    "WORKSPACE_PERMISSION_DENIED")))

CanLockMembership(r, u) ==
  /\ req[r].pc = "members"
  /\ FirstInOrder(u, Wanted(req[r]) \ req[r].mlocks)
  /\ MemberBlockers(r, u) = {}
  /\ UNCHANGED tables

LockMembership(r, u) ==
  /\ req[r].op \in LockingReads
  /\ CanLockMembership(r, u)
  /\ LET q == [req[r] EXCEPT !.mlocks = @ \cup {u}, !.seen = Refreshed(req[r], u)]
     IN  req' = [req EXCEPT ![r] =
                   IF Wanted(q) # q.mlocks THEN q
                   ELSE IF MembershipCheck(q) = Proceed THEN [q EXCEPT !.pc = "task"]
                   ELSE Idle(MembershipCheck(q))]

\* INSERT finds the key free, or fails with MySQL error 1062.
InsertAllowedSlip(r, u) == TRUE

InsertAllowed(r, u) == role[req[r].ws][u] = NoRole

\* UPDATE matches the row, or the ORM raises StaleDataError.
UpdateAllowed(r, u) == role[req[r].ws][u] # NoRole

WriteMembership(r, u, allowed, error) ==
  /\ CanLockMembership(r, u)
  /\ req' = [req EXCEPT ![r] =
               IF allowed THEN [req[r] EXCEPT !.mlocks = {u}, !.pc = "commit"]
                          ELSE Idle(error)]

InsertMembership(r, u) ==
  /\ req[r].op = "add_member"
  /\ WriteMembership(r, u, InsertAllowed(r, u), "WORKSPACE_MEMBER_ALREADY_EXISTS")

UpdateMembership(r, u) ==
  /\ req[r].op = "update_member_role"
  /\ WriteMembership(r, u, UpdateAllowed(r, u), Failed)
-----------------------------------------------------------------------------
(* Task rows.                                                              *)

StatusCheck(q, row) ==
  Then(Check(CanChangeTaskStatus(q.seen[q.actor], q.actor, row.assignee),
             "TASK_PERMISSION_DENIED"),
  Then(Check(IsValidStatusTransition(q.seen[q.actor], row.status, q.value),
             "TASK_STATUS_TRANSITION_CONFLICT"),
       Check(row.status # q.value, "OK")))

ManagerAssignCheck(q, row) ==
  Then(Check(row.assignee # q.target, "OK"),
       Check(q.target = NoUser \/ q.seen[q.target] # NoRole, "WORKSPACE_MEMBER_NOT_FOUND"))

ClaimCheck(q, row) ==
  Then(Check(row.assignee # q.actor, "OK"),
       Check(CanSelfClaimTask(q.seen[q.actor], q.actor, row.assignee, q.target),
             "TASK_ASSIGNMENT_CONFLICT"))

ReleaseCheck(q, row) ==
  Then(Check(row.assignee # NoUser, "TASK_ASSIGNMENT_CONFLICT"),
       Check(CanSelfReleaseTask(q.seen[q.actor], q.actor, row.assignee, q.target),
             "TASK_PERMISSION_DENIED"))

NotDone(row) == Check(row.status # "DONE", "TASK_ASSIGNMENT_CONFLICT")

AssigneeCheckSlip(q, row) ==
  IF CanChangeTaskAssignee(q.seen[q.actor]) THEN ManagerAssignCheck(q, row)
  ELSE IF q.target = q.actor THEN ClaimCheck(q, row)
  ELSE ReleaseCheck(q, row)

AssigneeCheck(q, row) ==
  Then(IF CanChangeTaskAssignee(q.seen[q.actor]) THEN ManagerAssignCheck(q, row)
       ELSE IF q.target = q.actor THEN ClaimCheck(q, row)
       ELSE ReleaseCheck(q, row),
       NotDone(row))

\* The reply when the row is gone: an UPDATE of no row raises StaleDataError, a
\* DELETE of none is only warned about.
MissingTaskSlip(op) == IF op \in {"update_task", "delete_task"} THEN "OK" ELSE "TASK_NOT_FOUND"

MissingTask(op) ==
  CASE op = "update_task" -> Failed
    [] op = "delete_task" -> "OK"
    [] OTHER -> "TASK_NOT_FOUND"

\* What a request finds at the task row it has locked.
TaskCheck(q) ==
  Then(Check(InWorkspace(q.task, q.ws), MissingTask(q.op)),
       CASE q.op = "update_task_status" -> StatusCheck(q, task[q.task])
         [] q.op = "update_task_assignee" -> AssigneeCheck(q, task[q.task])
         [] OTHER -> Proceed)

LockTask(r, t) ==
  /\ req[r].pc = "task"
  /\ req[r].op # "remove_member"
  /\ t = req[r].task
  /\ TaskBlockers(r, t) = {}
  /\ req' = [req EXCEPT ![r] =
               IF TaskCheck(req[r]) = Proceed
               THEN [req[r] EXCEPT !.tlocks = {t}, !.pc = "commit"]
               ELSE Idle(TaskCheck(req[r]))]
  /\ UNCHANGED tables

\* The tasks that the UPDATE of remove_member visits.
AssignedSlip(q) ==
  {t \in Tasks : task[t].phase = "live" /\ task[t].assignee = q.target}

Assigned(q) == {t \in Tasks : InWorkspace(t, q.ws) /\ task[t].assignee = q.target}

LockAssignedTask(r, t) ==
  /\ req[r].pc = "task"
  /\ req[r].op = "remove_member"
  /\ FirstInOrder(t, Assigned(req[r]) \ req[r].tlocks)
  /\ TaskBlockers(r, t) = {}
  /\ req' = [req EXCEPT ![r].tlocks = @ \cup {t}]
  /\ UNCHANGED tables

\* Of the rows it locked, those the UPDATE changes.
UnassignedSlip(q) == q.tlocks

Unassigned(q) == {t \in q.tlocks : task[t].assignee = q.target /\ task[t].status # "DONE"}

\* As if the UPDATE were committed by itself.
FinishUnassignSlip(r) ==
  /\ req[r].pc = "task"
  /\ req[r].op = "remove_member"
  /\ Assigned(req[r]) \subseteq req[r].tlocks
  /\ req' = [req EXCEPT ![r].pc = "commit"]
  /\ task' = [t \in Tasks |->
                IF t \in Unassigned(req[r]) THEN [task[t] EXCEPT !.assignee = NoUser]
                                            ELSE task[t]]
  /\ UNCHANGED <<creator, role>>

\* The UPDATE is done; the DELETE follows with the commit.
FinishUnassign(r) ==
  /\ req[r].pc = "task"
  /\ req[r].op = "remove_member"
  /\ Assigned(req[r]) \subseteq req[r].tlocks
  /\ req' = [req EXCEPT ![r].pc = "commit", ![r].unassigned = Unassigned(req[r])]
  /\ UNCHANGED tables

-----------------------------------------------------------------------------
(* Commits.                                                                *)

\* The commit is applied; the client learns so or sees a failure.
Committed(r, op) ==
  /\ req[r].pc = "commit"
  /\ req[r].op = op
  /\ \E reply \in {"OK", Failed} : Answer(r, reply)

CommitCreateWorkspace(r) ==
  LET q == req[r] IN
  /\ Committed(r, "create_workspace")
  /\ creator' = [creator EXCEPT ![q.ws] = q.actor]
  /\ role' = [role EXCEPT ![q.ws][q.actor] = "OWNER"]
  /\ UNCHANGED task

CommitCreateTask(r) ==
  LET q == req[r] IN
  /\ Committed(r, "create_task")
  /\ task' = [task EXCEPT ![q.task] = NewTask(q.ws, q.actor, q.value)]
  /\ UNCHANGED <<creator, role>>

CommitUpdateTask(r) ==
  LET q == req[r] IN
  /\ Committed(r, "update_task")
  /\ task' = [task EXCEPT ![q.task].content = q.value]
  /\ UNCHANGED <<creator, role>>

CommitDeleteTask(r) ==
  LET q == req[r] IN
  /\ Committed(r, "delete_task")
  /\ task' = [task EXCEPT ![q.task] = NoRow("deleted")]
  /\ UNCHANGED <<creator, role>>

CommitUpdateTaskStatus(r) ==
  LET q == req[r] IN
  /\ Committed(r, "update_task_status")
  /\ task' = [task EXCEPT ![q.task].status = q.value]
  /\ UNCHANGED <<creator, role>>

CommitUpdateTaskAssignee(r) ==
  LET q == req[r] IN
  /\ Committed(r, "update_task_assignee")
  /\ task' = [task EXCEPT ![q.task].assignee = q.target]
  /\ UNCHANGED <<creator, role>>

CommitAddMember(r) ==
  LET q == req[r] IN
  /\ Committed(r, "add_member")
  /\ role' = [role EXCEPT ![q.ws][q.target] = q.value]
  /\ UNCHANGED <<creator, task>>

CommitUpdateMemberRole(r) ==
  LET q == req[r] IN
  /\ Committed(r, "update_member_role")
  /\ role' = [role EXCEPT ![q.ws][q.target] = q.value]
  /\ UNCHANGED <<creator, task>>

CommitRemoveMember(r) ==
  LET q == req[r] IN
  /\ Committed(r, "remove_member")
  /\ task' = [t \in Tasks |->
                IF t \in q.unassigned THEN [task[t] EXCEPT !.assignee = NoUser] ELSE task[t]]
  /\ role' = [role EXCEPT ![q.ws][q.target] = NoRole]
  /\ UNCHANGED creator

\* Deadlock victim, lock wait timeout, lost connection, killed process: the
\* transaction rolls back at any point.
Fail(r) ==
  /\ req[r].pc # "idle"
  /\ Answer(r, Failed)
  /\ UNCHANGED tables
-----------------------------------------------------------------------------
(* The specification.                                                      *)

Init ==
  /\ creator = [w \in Workspaces |-> NoUser]
  /\ role = [w \in Workspaces |-> [u \in Users |-> NoRole]]
  /\ task = [t \in Tasks |-> NoRow("unused")]
  /\ req = [r \in Requests |-> Idle("NONE")]

BeginOnWorkspace(r, a, w) ==
  \/ BeginCreateWorkspace(r, a, w)
  \/ \E u \in Users, newRole \in AssignableRoles :
       \/ BeginAddMember(r, a, w, u, newRole)
       \/ BeginUpdateMemberRole(r, a, w, u, newRole)
  \/ \E u \in Users : BeginRemoveMember(r, a, w, u)

BeginOnTask(r, a, w, t) ==
  \/ \E c \in Contents : BeginCreateTask(r, a, w, t, c)
  \/ \E c \in Contents : BeginUpdateTask(r, a, w, t, c)
  \/ BeginDeleteTask(r, a, w, t)
  \/ \E s \in Statuses : BeginUpdateTaskStatus(r, a, w, t, s)
  \/ \E u \in Users \cup {NoUser} : BeginUpdateTaskAssignee(r, a, w, t, u)

LockStep(r) ==
  \/ \E u \in Users : LockMembership(r, u)
  \/ \E u \in Users : InsertMembership(r, u)
  \/ \E u \in Users : UpdateMembership(r, u)
  \/ \E t \in Tasks : LockTask(r, t)
  \/ \E t \in Tasks : LockAssignedTask(r, t)

Commit(r) ==
  \/ CommitCreateWorkspace(r)
  \/ CommitCreateTask(r)
  \/ CommitUpdateTask(r)
  \/ CommitDeleteTask(r)
  \/ CommitUpdateTaskStatus(r)
  \/ CommitUpdateTaskAssignee(r)
  \/ CommitAddMember(r)
  \/ CommitUpdateMemberRole(r)
  \/ CommitRemoveMember(r)

Next ==
  \E r \in Requests :
    \/ \E a \in Users, w \in Workspaces :
         \/ BeginOnWorkspace(r, a, w)
         \/ \E t \in Tasks : BeginOnTask(r, a, w, t)
    \/ LockStep(r)
    \/ FinishUnassign(r)
    \/ Commit(r)
    \/ Fail(r)

Spec == Init /\ [][Next]_vars

\* A worker thread runs its request to the end, and the lock queue of a row
\* serves every waiter in turn.  Clients need not call, nothing need fail.
Fairness ==
  \A r \in Requests :
    /\ SF_vars(LockStep(r))
    /\ WF_vars(FinishUnassign(r))
    /\ WF_vars(Commit(r))

FairSpec == Spec /\ Fairness
-----------------------------------------------------------------------------
(* Invariants.                                                             *)

RequestStates ==
  [pc : PC, op : Endpoints \cup {"none"}, actor : Users \cup {NoUser},
   ws : Workspaces \cup {NoWorkspace}, task : Tasks \cup {NoTask},
   target : Users \cup {NoUser},
   value : Statuses \cup AssignableRoles \cup Contents \cup {"none"},
   seen : [Users -> RolesOrNone], mlocks : SUBSET Users, tlocks : SUBSET Tasks,
   unassigned : SUBSET Tasks, reply : Replies]

\* The endpoints that address one task, and those that lock its row.
TaskLocking == {"update_task", "delete_task", "update_task_status", "update_task_assignee"}
TaskEndpoints == TaskLocking \cup {"create_task"}
MemberEndpoints == {"add_member", "update_member_role", "remove_member"}

\* The values a schema of app/schemas.py admits.
ValuesOf(op) ==
  CASE op \in {"create_task", "update_task"} -> Contents
    [] op = "update_task_status" -> Statuses
    [] op \in {"add_member", "update_member_role"} -> AssignableRoles
    [] OTHER -> {"none"}

\* A request in flight names what its endpoint needs and has locked what its
\* handler has reached; an idle slot holds nothing.
Handled(q) ==
  /\ q.pc = "idle" => q = Idle(q.reply)
  /\ q.pc # "idle" => q.op \in Endpoints /\ q.actor \in Users /\ q.ws \in Workspaces
  /\ q.op \in TaskEndpoints => q.task \in Tasks
  /\ q.op \in MemberEndpoints => q.target \in Users
  /\ q.value \in ValuesOf(q.op)
  /\ q.mlocks \subseteq Wanted(q)
  /\ q.pc \in {"task", "commit"} => q.mlocks = Wanted(q)
  /\ q.pc = "members" =>
       q.tlocks = {} /\ q.op \in LockingReads \cup {"add_member", "update_member_role"}
  /\ q.pc = "task" => q.op \in TaskLocking \cup {"remove_member"}
  /\ q.op \in TaskLocking => q.tlocks = IF q.pc = "commit" THEN {q.task} ELSE {}
  /\ q.tlocks # {} => q.op \in TaskLocking \cup {"remove_member"}
  /\ q.unassigned \subseteq q.tlocks
  /\ q.unassigned # {} => q.op = "remove_member" /\ q.pc = "commit"

\* Every row is well formed (NOT NULL columns and CHECKs of app/models.py) and
\* every request is in a state its handler can be in.
TypeOK ==
  /\ creator \in [Workspaces -> Users \cup {NoUser}]
  /\ role \in [Workspaces -> [Users -> RolesOrNone]]
  /\ task \in [Tasks -> TaskRows]
  /\ req \in [Requests -> RequestStates]
  /\ \A r \in Requests : Handled(req[r])

\* A workspace has exactly one OWNER, the user who created it, through every
\* interleaving of joins, role changes and removals: none of them locks or
\* rereads all the rows it decides on.
OwnerIsCreator ==
  \A w \in Workspaces, u \in Users : role[w][u] = "OWNER" <=> creator[w] = u

\* A membership read FOR UPDATE by the workflow or by a removal is still what the
\* table says for as long as the request runs.
LockedReadsHold ==
  \A r \in Requests :
    req[r].op \in LockingReads =>
      \A u \in req[r].mlocks : req[r].seen[u] = role[req[r].ws][u]

\* Two requests never hold the same task, or the same existing membership.
LocksExclude ==
  \A r, s \in Requests :
    r # s =>
      /\ req[r].tlocks \cap req[s].tlocks = {}
      /\ \A u \in req[r].mlocks \cap req[s].mlocks :
           req[r].ws = req[s].ws =>
             /\ role[req[r].ws][u] = NoRole
             /\ "add_member" \notin {req[r].op, req[s].op}

\* What a request is about to write is still there, or still free, at its commit.
WritesAreReady ==
  \A r \in Requests :
    /\ req[r].pc = "commit" =>
         /\ req[r].op \in TaskLocking => InWorkspace(req[r].task, req[r].ws)
         /\ req[r].op = "create_task" => task[req[r].task].phase = "unused"
         /\ req[r].op = "add_member" => role[req[r].ws][req[r].target] = NoRole
         /\ req[r].op = "update_member_role" =>
              role[req[r].ws][req[r].target] \in AssignableRoles
    /\ (req[r].pc \in {"task", "commit"} /\ req[r].op = "remove_member") =>
         role[req[r].ws][req[r].target] \in AssignableRoles

ActorRole(r) == role[req[r].ws][req[r].actor]
Target(r) == task[req[r].task]

\* When update_task_status commits, the actor's role and the task's assignee and
\* status as they are now allow the change, whatever the dependencies read before.
StatusChangeIsCurrent ==
  \A r \in Requests :
    (req[r].op = "update_task_status" /\ req[r].pc = "commit") =>
      /\ InWorkspace(req[r].task, req[r].ws)
      /\ CanChangeTaskStatus(ActorRole(r), req[r].actor, Target(r).assignee)
      /\ IsValidStatusTransition(ActorRole(r), Target(r).status, req[r].value)

\* When update_task_assignee commits, the task is not DONE, the new assignee is a
\* member now, and a MEMBER only claims a free task or releases its own: of two
\* members who claim one task the second never takes it from the first.
AssignmentIsCurrent ==
  \A r \in Requests :
    (req[r].op = "update_task_assignee" /\ req[r].pc = "commit") =>
      /\ InWorkspace(req[r].task, req[r].ws)
      /\ Target(r).status # "DONE"
      /\ req[r].target # NoUser => role[req[r].ws][req[r].target] # NoRole
      /\ ActorRole(r) \in Managers
         \/ /\ ActorRole(r) = "MEMBER"
            /\ {Target(r).assignee, req[r].target} = {NoUser, req[r].actor}

\* An ADMIN never removes an ADMIN, even one promoted while the removal waits:
\* who is not the creator removes only those who are MEMBER at the commit.
RemovalRespectsRank ==
  \A r \in Requests :
    (req[r].op = "remove_member" /\ req[r].pc = "commit") =>
      \/ role[req[r].ws][req[r].target] = "MEMBER"
      \/ /\ role[req[r].ws][req[r].target] = "ADMIN"
         /\ req[r].actor = creator[req[r].ws]

\* When the membership is about to go, the tasks its removal has unassigned are all
\* the unfinished ones the leaving member still has, and no others: none was assigned,
\* released, finished or reopened behind the UPDATE.
RemovalIsComplete ==
  \A r \in Requests :
    (req[r].op = "remove_member" /\ req[r].pc = "commit") =>
      req[r].unassigned =
        {t \in Tasks : /\ InWorkspace(t, req[r].ws)
                       /\ task[t].assignee = req[r].target
                       /\ task[t].status # "DONE"}

\* Waiting requests never wait on each other in a circle: memberships are locked
\* before tasks and both in ascending order.
StuckTogether(S) ==
  \A r \in S :
    \/ /\ req[r].pc = "members"
       /\ \A u \in Users : FirstInOrder(u, Wanted(req[r]) \ req[r].mlocks)
                              => MemberBlockers(r, u) \cap S # {}
    \/ /\ req[r].pc = "task"
       /\ req[r].op # "remove_member"
       /\ TaskBlockers(r, req[r].task) \cap S # {}
    \/ /\ req[r].pc = "task"
       /\ req[r].op = "remove_member"
       /\ ~(Assigned(req[r]) \subseteq req[r].tlocks)
       /\ \A t \in Tasks : FirstInOrder(t, Assigned(req[r]) \ req[r].tlocks)
                              => TaskBlockers(r, t) \cap S # {}

NoWaitCycle == \A S \in SUBSET Requests : S # {} => ~StuckTogether(S)

\* docs/architecture.md: an unfinished task never has a valid assignment to a
\* user who is not a member.  Reopening a DONE task breaks it.
UnfinishedAssigneeIsMember ==
  \A t \in Tasks :
    (task[t].phase = "live" /\ task[t].status # "DONE" /\ task[t].assignee # NoUser)
      => role[task[t].ws][task[t].assignee] # NoRole

-----------------------------------------------------------------------------
(* Action properties.                                                      *)

\* An unfinished task assigned to a user without a membership.
Orphaned(t) ==
  /\ task[t].phase = "live"
  /\ task[t].status # "DONE"
  /\ task[t].assignee # NoUser
  /\ role[task[t].ws][task[t].assignee] = NoRole

\* Reopening a DONE task of a former member is the only way to an orphan: no
\* interleaving of assignments with removals makes one.
OrphanOnlyByReopening ==
  [][\A t \in Tasks :
       (~Orphaned(t) /\ Orphaned(t)') =>
         /\ task[t].status = "DONE"
         /\ task'[t].assignee = task[t].assignee
         /\ UNCHANGED role]_vars

\* The assignee of a DONE task is history: assignments, releases and the removal
\* of the assignee leave it alone as long as the task stays DONE and exists.
DoneKeepsAssignee ==
  [][\A t \in Tasks :
       (task[t].status = "DONE" /\ task'[t].phase = "live") =>
         task'[t].assignee = task[t].assignee]_vars

\* Nobody loses a task to a removal that fails half-way: a task leaves its assignee
\* in one step with the assignee's membership, or by the commit of a request that
\* assigns or releases that task.
MembersKeepTasks ==
  [][\A t \in Tasks, u \in Users :
       (task[t].assignee = u /\ task'[t].phase = "live" /\ task'[t].assignee # u) =>
         \/ /\ role[task[t].ws][u] # NoRole /\ role'[task[t].ws][u] = NoRole
            /\ task'[t].assignee = NoUser
         \/ \E r \in Requests :
              /\ req[r].op = "update_task_assignee" /\ req[r].task = t
              /\ req[r].pc = "commit" /\ req'[r].pc = "idle"]_vars

\* A removal touches no task of another workspace, though its member may be
\* assigned there too.
RemovalStaysInWorkspace ==
  [][\A w \in Workspaces, u \in Users :
       (role[w][u] # NoRole /\ role'[w][u] = NoRole) =>
         \A t \in Tasks : task[t].ws # w => task'[t] = task[t]]_vars

\* Nobody becomes ADMIN except by a request of the workspace's creator.
AdminMadeByOwner ==
  [][\A w \in Workspaces, u \in Users :
       (role[w][u] # "ADMIN" /\ role'[w][u] = "ADMIN") =>
         \E r \in Requests :
           /\ req[r].pc = "commit" /\ req'[r].pc = "idle"
           /\ req[r].actor = creator[w]]_vars

\* Adding a member never overwrites the role of someone who became a member
\* meanwhile: a member's role changes only by update_member_role.
JoinNeverOverwrites ==
  [][\A w \in Workspaces, u \in Users :
       (role[w][u] # NoRole /\ role'[w][u] \notin {NoRole, role[w][u]}) =>
         \E r \in Requests :
           /\ req[r].op = "update_member_role" /\ req[r].target = u
           /\ req[r].pc = "commit" /\ req'[r].pc = "idle"]_vars

\* The interleaved requests implement the atomic contract: every step of theirs
\* is one step of TaskBoard or leaves the tables alone.
Board == INSTANCE TaskBoard WITH creator <- creator, role <- role, task <- task
BoardSteps == [][Board!Next]_tables

\* The same from empty tables.
BoardSpec == Board!Spec

\* What a request asks for is in the tables.
Achieved(q) ==
  CASE q.op = "add_member" -> role[q.ws][q.target] = q.value
    [] q.op = "update_member_role" -> role[q.ws][q.target] = q.value
    [] q.op = "remove_member" -> role[q.ws][q.target] = NoRole
    [] q.op = "update_task" -> InWorkspace(q.task, q.ws) /\ task[q.task].content = q.value
    [] q.op = "delete_task" -> ~InWorkspace(q.task, q.ws)
    [] q.op = "update_task_status" -> InWorkspace(q.task, q.ws) /\ task[q.task].status = q.value
    [] q.op = "update_task_assignee" ->
         InWorkspace(q.task, q.ws) /\ task[q.task].assignee = q.target
    [] q.op = "create_task" -> InWorkspace(q.task, q.ws)
    [] OTHER -> creator[q.ws] = q.actor

\* A request that waited for locks answers OK only if what it asked for is so at
\* that moment, also when it found nothing left to write or its row gone.
AcknowledgedMeansDone ==
  [][\A r \in Requests :
       (req[r].pc # "idle" /\ req'[r].reply = "OK") =>
         \E q \in {req[r]} : Achieved(q)']_vars

\* Every request that begins is answered, without help from failures.
EveryRequestIsAnswered ==
  \A r \in Requests : req[r].pc # "idle" ~> req[r].pc = "idle"
=============================================================================
