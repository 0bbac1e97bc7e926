------------------------ MODULE TaskTransactionsProofs ------------------------
(***************************************************************************)
(* Invariants of TaskTransactions proved for every set of users,           *)
(* workspaces, tasks, contents and request slots.                          *)
(***************************************************************************)
EXTENDS TaskTransactions, TLAPS

-----------------------------------------------------------------------------
(* Requests are well typed.                                                *)

\* A slot between requests is well typed.
LEMMA IdleTyped ==
  ASSUME NEW reply \in Replies
  PROVE  Idle(reply) \in RequestStates /\ Handled(Idle(reply))
<1>1. Idle(reply) \in RequestStates
  BY DEF Idle, RequestStates, PC, RolesOrNone, NoRole
<1>2. Handled(Idle(reply))
  BY DEF Handled, Idle, Wanted, ValuesOf, TaskEndpoints, TaskLocking, MemberEndpoints, Endpoints
<1> QED BY <1>1, <1>2

\* Replacing one request by a well typed one keeps all requests well typed.
LEMMA RequestReplaced ==
  ASSUME req \in [Requests -> RequestStates], \A s \in Requests : Handled(req[s]),
         NEW r \in Requests, NEW q \in RequestStates, Handled(q),
         req' = [req EXCEPT ![r] = q]
  PROVE  req' \in [Requests -> RequestStates] /\ \A s \in Requests : Handled(req'[s])
<1>1. \A s \in Requests : req'[s] = IF s = r THEN q ELSE req[s]
  OBVIOUS
<1> QED BY <1>1

\* A request that begins, or is refused at once, keeps the types.
LEMMA BeginTyped ==
  ASSUME TypeOK, NEW r \in Requests, NEW q \in RequestStates, Handled(q),
         NEW outcome \in Replies \cup {Proceed}, Begin(r, q, outcome)
  PROVE  TypeOK'
<1> DEFINE p == IF outcome = Proceed THEN q ELSE Idle(outcome)
<1>1. p \in RequestStates /\ Handled(p)
  BY IdleTyped
<1>2. req' = [req EXCEPT ![r] = p] /\ UNCHANGED <<creator, role, task>>
  BY DEF Begin, tables
<1>3. req' \in [Requests -> RequestStates] /\ \A s \in Requests : Handled(req'[s])
  BY <1>1, <1>2, RequestReplaced DEF TypeOK
<1> QED BY <1>2, <1>3 DEF TypeOK

\* What the checks of the dependencies and services answer are replies.
LEMMA OutcomesAreReplies ==
  /\ \A a, w : WorkspaceAccess(a, w) \in Replies \cup {Proceed}
  /\ \A a, w, t : TaskAccess(a, w, t) \in Replies \cup {Proceed}
  /\ \A a, w, S : RoleAccess(a, w, S) \in Replies \cup {Proceed}
  /\ \A a, w, t : EditAccess(a, w, t) \in Replies \cup {Proceed}
  /\ \A x, a, u : AssigneeRequest(x, a, u) \in Replies \cup {Proceed}
  /\ \A a, w, u, x : RoleChangeAllowed(a, w, u, x) \in Replies \cup {Proceed}
  /\ \A q : MembershipCheck(q) \in Replies \cup {Proceed}
  /\ \A q : TaskCheck(q) \in Replies \cup {Proceed}
  /\ \A x, y \in Replies \cup {Proceed} : Then(x, y) \in Replies \cup {Proceed}
  /\ \A b : \A x \in Replies : Check(b, x) \in Replies \cup {Proceed}
<1> USE DEF Then, Check, Replies, Proceed, Failed
<1>1. \A a, w : WorkspaceAccess(a, w) \in Replies \cup {Proceed}
  BY DEF WorkspaceAccess
<1>2. \A a, w, t : TaskAccess(a, w, t) \in Replies \cup {Proceed}
  BY DEF WorkspaceAccess, TaskAccess
<1>3. \A a, w, S : RoleAccess(a, w, S) \in Replies \cup {Proceed}
  BY DEF WorkspaceAccess, RoleAccess
<1>4. \A a, w, t : EditAccess(a, w, t) \in Replies \cup {Proceed}
  BY DEF WorkspaceAccess, TaskAccess, EditAccess
<1>5. \A x, a, u : AssigneeRequest(x, a, u) \in Replies \cup {Proceed}
  BY DEF AssigneeRequest
<1>6. \A a, w, u, x : RoleChangeAllowed(a, w, u, x) \in Replies \cup {Proceed}
  BY DEF RoleChangeAllowed
<1>7. \A q : MembershipCheck(q) \in Replies \cup {Proceed}
  BY DEF MembershipCheck, AssigneeRequest
<1>8. \A q : TaskCheck(q) \in Replies \cup {Proceed}
  <2>1. \A q, row : StatusCheck(q, row) \in Replies \cup {Proceed}
    BY DEF StatusCheck
  <2>2. \A q, row : AssigneeCheck(q, row) \in Replies \cup {Proceed}
    BY DEF AssigneeCheck, ManagerAssignCheck, ClaimCheck, ReleaseCheck, NotDone
  <2>3. \A op : MissingTask(op) \in Replies
    BY DEF MissingTask
  <2> QED BY <2>1, <2>2, <2>3 DEF TaskCheck
<1>9. \A x, y \in Replies \cup {Proceed} : Then(x, y) \in Replies \cup {Proceed}
  OBVIOUS
<1>10. \A b : \A x \in Replies : Check(b, x) \in Replies \cup {Proceed}
  OBVIOUS
<1> QED BY <1>1, <1>2, <1>3, <1>4, <1>5, <1>6, <1>7, <1>8, <1>9, <1>10

\* Every action that begins a request keeps the types.
LEMMA BeginActionsTyped ==
  ASSUME TypeOK, NEW r \in Requests, NEW a \in Users, NEW w \in Workspaces,
         \/ BeginOnWorkspace(r, a, w)
         \/ \E t \in Tasks : BeginOnTask(r, a, w, t)
  PROVE  TypeOK'
<1> DEFINE Good(q) == q \in RequestStates /\ Handled(q)
<1> DEFINE Typed(op, pc, t, u, v) == Good(Opened(op, pc, a, w, t, u, v))
<1>1. \A op \in Endpoints, pc \in PC, t \in Tasks \cup {NoTask}, u \in Users \cup {NoUser} :
        \A v \in Statuses \cup AssignableRoles \cup Contents \cup {"none"} :
          Opened(op, pc, a, w, t, u, v) \in RequestStates
  BY DEF Opened, RequestStates, TypeOK, RolesOrNone, NoRole, Replies
<1>2. \A op \in Endpoints, pc \in PC \ {"idle"} : \A t, u, v :
        /\ op \in TaskEndpoints => t \in Tasks
        /\ op \in MemberEndpoints => u \in Users
        /\ v \in ValuesOf(op)
        /\ pc = "task" => op \in {"update_task", "delete_task"}
        /\ pc = "commit" => op \in {"create_workspace", "create_task"}
        /\ pc = "members" => op \in LockingReads \cup {"add_member", "update_member_role"}
        => Handled(Opened(op, pc, a, w, t, u, v))
  BY DEF Opened, Handled, Wanted, Endpoints, TaskEndpoints, TaskLocking, MemberEndpoints
<1> USE DEF Endpoints, PC, TaskEndpoints, TaskLocking, MemberEndpoints, ValuesOf, LockingReads
<1>3. CASE BeginCreateWorkspace(r, a, w)
  <2> DEFINE q == Opened("create_workspace", "commit", a, w, NoTask, NoUser, "none")
  <2>1. Good(q)
    BY <1>1, <1>2
  <2> QED BY <1>3, <2>1, BeginTyped DEF BeginCreateWorkspace
<1>4. ASSUME NEW u \in Users, NEW x \in AssignableRoles, BeginAddMember(r, a, w, u, x)
      PROVE  TypeOK'
  <2> DEFINE q == Opened("add_member", "members", a, w, NoTask, u, x)
             o == Then(RoleAccess(a, w, Managers),
                  Then(Check(CanAddMember(role[w][a], x), "WORKSPACE_PERMISSION_DENIED"),
                       Check(role[w][u] = NoRole, "WORKSPACE_MEMBER_ALREADY_EXISTS")))
  <2>1. Good(q)
    BY <1>1, <1>2
  <2>2. o \in Replies \cup {Proceed}
    BY OutcomesAreReplies DEF Replies
  <2> QED BY <1>4, <2>1, <2>2, BeginTyped DEF BeginAddMember
<1>5. ASSUME NEW u \in Users, NEW x \in AssignableRoles, BeginUpdateMemberRole(r, a, w, u, x)
      PROVE  TypeOK'
  <2> DEFINE q == Opened("update_member_role", "members", a, w, NoTask, u, x)
             o == Then(RoleAccess(a, w, {"OWNER"}),
                  Then(RoleChangeAllowed(a, w, u, x), Check(role[w][u] # x, "OK")))
  <2>1. Good(q)
    BY <1>1, <1>2
  <2>2. o \in Replies \cup {Proceed}
    BY OutcomesAreReplies DEF Replies
  <2> QED BY <1>5, <2>1, <2>2, BeginTyped DEF BeginUpdateMemberRole
<1>6. ASSUME NEW u \in Users, BeginRemoveMember(r, a, w, u)
      PROVE  TypeOK'
  <2> DEFINE q == Opened("remove_member", "members", a, w, NoTask, u, "none")
  <2>1. Good(q)
    BY <1>1, <1>2
  <2> QED BY <1>6, <2>1, OutcomesAreReplies, BeginTyped DEF BeginRemoveMember
<1>7. ASSUME NEW t \in Tasks, NEW c \in Contents, BeginCreateTask(r, a, w, t, c)
      PROVE  TypeOK'
  <2> DEFINE q == Opened("create_task", "commit", a, w, t, NoUser, c)
  <2>1. Good(q)
    BY <1>1, <1>2
  <2> QED BY <1>7, <2>1, OutcomesAreReplies, BeginTyped DEF BeginCreateTask
<1>8. ASSUME NEW t \in Tasks, NEW c \in Contents, BeginUpdateTask(r, a, w, t, c)
      PROVE  TypeOK'
  <2> DEFINE q == Opened("update_task", "task", a, w, t, NoUser, c)
             o == Then(EditAccess(a, w, t), Check(task[t].content # c, "OK"))
  <2>1. Good(q)
    BY <1>1, <1>2
  <2>2. o \in Replies \cup {Proceed}
    BY OutcomesAreReplies DEF Replies
  <2> QED BY <1>8, <2>1, <2>2, BeginTyped DEF BeginUpdateTask
<1>9. ASSUME NEW t \in Tasks, BeginDeleteTask(r, a, w, t)
      PROVE  TypeOK'
  <2> DEFINE q == Opened("delete_task", "task", a, w, t, NoUser, "none")
  <2>1. Good(q)
    BY <1>1, <1>2
  <2> QED BY <1>9, <2>1, OutcomesAreReplies, BeginTyped DEF BeginDeleteTask
<1>10. ASSUME NEW t \in Tasks, NEW s \in Statuses, BeginUpdateTaskStatus(r, a, w, t, s)
       PROVE  TypeOK'
  <2> DEFINE q == Opened("update_task_status", "members", a, w, t, NoUser, s)
  <2>1. Good(q)
    BY <1>1, <1>2
  <2> QED BY <1>10, <2>1, OutcomesAreReplies, BeginTyped DEF BeginUpdateTaskStatus
<1>11. ASSUME NEW t \in Tasks, NEW u \in Users \cup {NoUser},
              BeginUpdateTaskAssignee(r, a, w, t, u)
       PROVE  TypeOK'
  <2> DEFINE q == Opened("update_task_assignee", "members", a, w, t, u, "none")
             o == Then(TaskAccess(a, w, t), AssigneeRequest(role[w][a], a, u))
  <2>1. Good(q)
    BY <1>1, <1>2
  <2>2. o \in Replies \cup {Proceed}
    BY OutcomesAreReplies
  <2> QED BY <1>11, <2>1, <2>2, BeginTyped DEF BeginUpdateTaskAssignee
<1> QED
  BY <1>3, <1>4, <1>5, <1>6, <1>7, <1>8, <1>9, <1>10, <1>11
  DEF BeginOnWorkspace, BeginOnTask

\* A request that moves on without touching the tables keeps the types.
LEMMA MoveTyped ==
  ASSUME TypeOK, NEW r \in Requests, NEW q \in RequestStates, Handled(q),
         req' = [req EXCEPT ![r] = q], UNCHANGED tables
  PROVE  TypeOK'
BY RequestReplaced DEF TypeOK, tables

\* Answering a request keeps the types.
LEMMA AnswerTyped ==
  ASSUME TypeOK, NEW r \in Requests, NEW reply \in Replies, Answer(r, reply), UNCHANGED tables
  PROVE  TypeOK'
BY IdleTyped, MoveTyped DEF Answer

\* Lock steps keep the types.
LEMMA LockStepsTyped ==
  ASSUME TypeOK, NEW r \in Requests, LockStep(r)
  PROVE  TypeOK'
<1> DEFINE p == req[r]
<1>0. p \in RequestStates /\ Handled(p)
  BY DEF TypeOK
<1>1. ASSUME NEW u \in Users, LockMembership(r, u)
      PROVE  TypeOK'
  <2> DEFINE q == [p EXCEPT !.mlocks = @ \cup {u}, !.seen = Refreshed(p, u)]
             n == IF Wanted(q) # q.mlocks THEN q
                  ELSE IF MembershipCheck(q) = Proceed THEN [q EXCEPT !.pc = "task"]
                  ELSE Idle(MembershipCheck(q))
  <2>1. p.pc = "members" /\ p.op \in LockingReads /\ u \in Wanted(p) \ p.mlocks
        /\ UNCHANGED tables
    BY <1>1 DEF LockMembership, CanLockMembership, FirstInOrder
  <2>2. Refreshed(p, u) \in [Users -> RolesOrNone]
    BY <1>0, <1>1, <2>1 DEF Refreshed, TypeOK, RequestStates, Handled, LockingReads, Endpoints
  <2>3. q \in RequestStates /\ Wanted(q) = Wanted(p)
    BY <1>0, <2>2 DEF RequestStates, Wanted
  <2>4. Handled(q)
    BY <1>0, <2>1, <2>3 DEF Handled, RequestStates, LockingReads, TaskLocking
  <2>5. [q EXCEPT !.pc = "task"] \in RequestStates
    BY <2>3 DEF RequestStates, PC
  <2>6. ASSUME Wanted(q) = q.mlocks
        PROVE  Handled([q EXCEPT !.pc = "task"])
    BY <2>1, <2>3, <2>4, <2>6 DEF Handled, RequestStates, LockingReads, TaskLocking, Wanted
  <2>7. n \in RequestStates /\ Handled(n)
    BY <2>3, <2>4, <2>5, <2>6, IdleTyped, OutcomesAreReplies
  <2> QED BY <1>1, <2>1, <2>7, MoveTyped DEF LockMembership
<1>2. ASSUME NEW u \in Users, NEW allowed \in BOOLEAN, NEW error \in Replies,
             p.op \in {"add_member", "update_member_role"},
             WriteMembership(r, u, allowed, error)
      PROVE  TypeOK'
  <2> DEFINE q == [p EXCEPT !.mlocks = {u}, !.pc = "commit"]
  <2>1. p.pc = "members" /\ Wanted(p) = {p.target} /\ u = p.target /\ UNCHANGED tables
    BY <1>2 DEF WriteMembership, CanLockMembership, FirstInOrder, Wanted
  <2>2. q \in RequestStates
    BY <1>0 DEF RequestStates, PC
  <2>3. Handled(q)
    BY <1>0, <1>2, <2>1, <2>2 DEF Handled, RequestStates, TaskLocking, TaskEndpoints,
      MemberEndpoints, Wanted
  <2> QED BY <1>2, <2>1, <2>2, <2>3, IdleTyped, MoveTyped DEF WriteMembership
<1>3. ASSUME NEW u \in Users, InsertMembership(r, u)
      PROVE  TypeOK'
  BY <1>2, <1>3 DEF InsertMembership, InsertAllowed, Replies
<1>4. ASSUME NEW u \in Users, UpdateMembership(r, u)
      PROVE  TypeOK'
  BY <1>2, <1>4 DEF UpdateMembership, UpdateAllowed, Replies
<1>5. ASSUME NEW t \in Tasks, LockTask(r, t)
      PROVE  TypeOK'
  <2> DEFINE q == [p EXCEPT !.tlocks = {t}, !.pc = "commit"]
  <2>1. q \in RequestStates
    BY <1>0 DEF RequestStates, PC
  <2>2. p.op \in TaskLocking
    BY <1>0, <1>5 DEF LockTask, Handled
  <2>3. Handled(q)
    BY <1>0, <1>5, <2>1, <2>2 DEF LockTask, Handled, RequestStates, Wanted, TaskLocking,
      TaskEndpoints, MemberEndpoints
  <2> QED BY <1>5, <2>1, <2>3, IdleTyped, OutcomesAreReplies, MoveTyped DEF LockTask
<1>6. ASSUME NEW t \in Tasks, LockAssignedTask(r, t)
      PROVE  TypeOK'
  <2> DEFINE q == [p EXCEPT !.tlocks = @ \cup {t}]
  <2>1. q \in RequestStates
    BY <1>0 DEF RequestStates
  <2>2. Handled(q)
    BY <1>0, <1>6, <2>1 DEF LockAssignedTask, Handled, RequestStates, Wanted, TaskLocking
  <2> QED BY <1>6, <2>1, <2>2, MoveTyped DEF LockAssignedTask
<1> QED BY <1>1, <1>3, <1>4, <1>5, <1>6 DEF LockStep

\* Commits keep the types: what they write is still there to be written.
LEMMA CommitsTyped ==
  ASSUME TypeOK, WritesAreReady, ConstantsAssumption, NEW r \in Requests, Commit(r)
  PROVE  TypeOK'
<1> DEFINE q == req[r]
<1>0. q \in RequestStates /\ Handled(q) /\ q.pc = "commit" /\ q.actor \in Users /\ q.ws \in Workspaces
  BY DEF TypeOK, Commit, Committed, CommitCreateWorkspace, CommitCreateTask, CommitUpdateTask,
    CommitDeleteTask, CommitUpdateTaskStatus, CommitUpdateTaskAssignee, CommitAddMember,
    CommitUpdateMemberRole, CommitRemoveMember, Handled
<1>1. req' \in [Requests -> RequestStates] /\ \A s \in Requests : Handled(req'[s])
  <2>1. PICK reply \in {"OK", Failed} : Answer(r, reply)
    BY DEF Commit, Committed, CommitCreateWorkspace, CommitCreateTask, CommitUpdateTask,
      CommitDeleteTask, CommitUpdateTaskStatus, CommitUpdateTaskAssignee, CommitAddMember,
      CommitUpdateMemberRole, CommitRemoveMember
  <2>2. reply \in Replies
    BY DEF Replies
  <2> QED BY <2>1, <2>2, IdleTyped, RequestReplaced DEF Answer, TypeOK
<1>2. q.value \in ValuesOf(q.op) /\ (q.op \in TaskEndpoints => q.task \in Tasks)
      /\ (q.op \in MemberEndpoints => q.target \in Users)
  BY <1>0 DEF Handled
<1>3. \A t \in Tasks : task[t].phase = "live" => task[t] \in LiveRows
  BY DEF TypeOK, TaskRows, NoRow
<1>4. q.op \in TaskLocking => task[q.task] \in LiveRows
  BY <1>0, <1>2, <1>3 DEF WritesAreReady, InWorkspace, TaskEndpoints
<1> USE DEF Committed, TypeOK
<1>5. CASE CommitCreateWorkspace(r)
  BY <1>0, <1>1, <1>5 DEF CommitCreateWorkspace, RolesOrNone, Roles
<1>6. CASE CommitCreateTask(r)
  <2>1. NewTask(q.ws, q.actor, q.value) \in LiveRows
    BY <1>0, <1>2, <1>6 DEF CommitCreateTask, NewTask, LiveRows, ValuesOf, Statuses
  <2> QED BY <1>1, <1>6, <2>1 DEF CommitCreateTask, TaskRows
<1>7. CASE CommitUpdateTask(r)
  <2>1. [task[q.task] EXCEPT !.content = q.value] \in LiveRows
    BY <1>2, <1>4, <1>7 DEF CommitUpdateTask, LiveRows, ValuesOf, TaskLocking
  <2> QED BY <1>1, <1>7, <2>1 DEF CommitUpdateTask, TaskRows
<1>8. CASE CommitDeleteTask(r)
  BY <1>1, <1>8 DEF CommitDeleteTask, TaskRows
<1>9. CASE CommitUpdateTaskStatus(r)
  <2>1. [task[q.task] EXCEPT !.status = q.value] \in LiveRows
    BY <1>2, <1>4, <1>9 DEF CommitUpdateTaskStatus, LiveRows, ValuesOf, TaskLocking
  <2> QED BY <1>1, <1>9, <2>1 DEF CommitUpdateTaskStatus, TaskRows
<1>10. CASE CommitUpdateTaskAssignee(r)
  <2>1. [task[q.task] EXCEPT !.assignee = q.target] \in LiveRows
    BY <1>0, <1>4, <1>10 DEF CommitUpdateTaskAssignee, LiveRows, RequestStates, TaskLocking
  <2> QED BY <1>1, <1>10, <2>1 DEF CommitUpdateTaskAssignee, TaskRows
<1>11. CASE CommitAddMember(r)
  BY <1>0, <1>1, <1>2, <1>11 DEF CommitAddMember, ValuesOf, AssignableRoles, RolesOrNone, Roles
<1>12. CASE CommitUpdateMemberRole(r)
  BY <1>0, <1>1, <1>2, <1>12
  DEF CommitUpdateMemberRole, ValuesOf, AssignableRoles, RolesOrNone, Roles
<1>13. CASE CommitRemoveMember(r)
  <2>1. ASSUME NEW t \in Tasks
        PROVE  [task[t] EXCEPT !.assignee = NoUser] \in TaskRows
    <3>1. CASE task[t] \in LiveRows
      BY <3>1 DEF LiveRows, TaskRows
    <3>2. CASE task[t] = NoRow("unused") \/ task[t] = NoRow("deleted")
      BY <3>2 DEF NoRow, TaskRows
    <3> QED BY <3>1, <3>2 DEF TaskRows
  <2>2. task' \in [Tasks -> TaskRows]
    BY <1>13, <2>1 DEF CommitRemoveMember
  <2>3. role' \in [Workspaces -> [Users -> RolesOrNone]]
    BY <1>13 DEF CommitRemoveMember, RolesOrNone
  <2> QED BY <1>1, <1>13, <2>2, <2>3 DEF CommitRemoveMember
<1> QED
  BY <1>5, <1>6, <1>7, <1>8, <1>9, <1>10, <1>11, <1>12, <1>13 DEF Commit

\* Every step keeps the types.
LEMMA TypeStep ==
  ASSUME TypeOK, WritesAreReady, ConstantsAssumption, [Next]_vars
  PROVE  TypeOK'
<1>1. CASE UNCHANGED vars
  BY <1>1 DEF vars, TypeOK
<1>2. ASSUME NEW r \in Requests, FinishUnassign(r)
      PROVE  TypeOK'
  <2> DEFINE p == req[r]  q == [p EXCEPT !.pc = "commit", !.unassigned = Unassigned(p)]
  <2>1. p \in RequestStates /\ Handled(p) /\ p.pc = "task" /\ p.op = "remove_member"
    BY <1>2 DEF FinishUnassign, TypeOK
  <2>2. Unassigned(p) \subseteq p.tlocks /\ p.tlocks \subseteq Tasks
    BY <2>1 DEF Unassigned, RequestStates
  <2>3. /\ q \in RequestStates
        /\ q.op = p.op /\ q.ws = p.ws /\ q.task = p.task /\ q.target = p.target
        /\ q.actor = p.actor /\ q.value = p.value /\ q.pc = "commit"
        /\ q.tlocks = p.tlocks /\ q.mlocks = p.mlocks /\ q.unassigned = Unassigned(p)
    BY <2>1, <2>2 DEF RequestStates, PC
  <2>4. req' = [req EXCEPT ![r] = q]
    BY <1>2 DEF FinishUnassign, TypeOK
  <2> HIDE DEF q
  <2>5. Handled(q)
    BY <2>1, <2>2, <2>3 DEF Handled, Wanted, TaskLocking
  <2> QED BY <1>2, <2>3, <2>4, <2>5, MoveTyped DEF FinishUnassign
<1>3. ASSUME NEW r \in Requests, Fail(r)
      PROVE  TypeOK'
  BY <1>3, AnswerTyped DEF Fail, Replies
<1> QED
  BY <1>1, <1>2, <1>3, BeginActionsTyped, LockStepsTyped, CommitsTyped DEF Next

-----------------------------------------------------------------------------
(* What the steps do, as far as the invariants below need it.              *)

\* A step of a request that begins.
Began(r, q, w) ==
  \/ \E reply \in Replies : q = Idle(reply)
  \/ /\ q.pc # "idle" /\ q.ws = w /\ q.mlocks = {} /\ q.tlocks = {} /\ q.reply = "NONE"
     /\ q.seen[q.actor] = role[w][q.actor]
     /\ q.pc = "commit" => q.op \in {"create_workspace", "create_task"}
     /\ q.pc = "task" => q.op # "remove_member"
     /\ q.op = "create_workspace" => creator[w] = NoUser /\ \A s \in Requests : req[s].ws # w
     /\ q.op # "create_workspace" => \E a \in Users : role[w][a] # NoRole
     /\ q.op = "create_task" =>
          task[q.task].phase = "unused" /\ \A s \in Requests : req[s].task # q.task
     /\ q.op \in TaskLocking => InWorkspace(q.task, w)
     /\ q.op \in MemberEndpoints => q.task = NoTask
     /\ q.op = "create_workspace" => q.task = NoTask
     /\ q.op = "update_member_role" => role[w][q.target] \notin {NoRole, "OWNER"}
     /\ (q.op \in {"add_member", "update_member_role"} /\ q.value = "ADMIN") =>
          role[w][q.actor] = "OWNER"

\* A request that begins has found in the tables what Began says, and holds
\* nothing yet.
LEMMA BeginEffect ==
  ASSUME TypeOK, NEW r \in Requests, NEW a \in Users, NEW w \in Workspaces,
         \/ BeginOnWorkspace(r, a, w)
         \/ \E t \in Tasks : BeginOnTask(r, a, w, t)
  PROVE  /\ UNCHANGED <<creator, role, task>>
         /\ req[r].pc = "idle"
         /\ \E q : req' = [req EXCEPT ![r] = q] /\ Began(r, q, w)
<1>0. ASSUME NEW q, NEW outcome \in Replies \cup {Proceed}, Begin(r, q, outcome),
             outcome = Proceed => Began(r, q, w)
      PROVE  /\ UNCHANGED <<creator, role, task>>
             /\ req[r].pc = "idle"
             /\ \E p : req' = [req EXCEPT ![r] = p] /\ Began(r, p, w)
  <2> DEFINE p == IF outcome = Proceed THEN q ELSE Idle(outcome)
  <2>1. req' = [req EXCEPT ![r] = p] /\ UNCHANGED <<creator, role, task>> /\ req[r].pc = "idle"
    BY <1>0 DEF Begin, tables
  <2>2. Began(r, p, w)
    BY <1>0 DEF Began
  <2> QED BY <2>1, <2>2
<1> USE DEF Began, Opened, Then, Check, WorkspaceAccess, TaskLocking, MemberEndpoints, Proceed
<1>1. CASE BeginCreateWorkspace(r, a, w)
  <2> DEFINE q == Opened("create_workspace", "commit", a, w, NoTask, NoUser, "none")
  <2>1. Began(r, q, w)
    BY <1>1 DEF BeginCreateWorkspace
  <2> QED BY <1>0, <1>1, <2>1 DEF BeginCreateWorkspace
<1>2. ASSUME NEW u \in Users, NEW x \in AssignableRoles, BeginAddMember(r, a, w, u, x)
      PROVE  \E q, o : o \in Replies \cup {Proceed} /\ Begin(r, q, o) /\ (o = Proceed => Began(r, q, w))
  <2> DEFINE q == Opened("add_member", "members", a, w, NoTask, u, x)
             o == Then(RoleAccess(a, w, Managers),
                  Then(Check(CanAddMember(role[w][a], x), "WORKSPACE_PERMISSION_DENIED"),
                       Check(role[w][u] = NoRole, "WORKSPACE_MEMBER_ALREADY_EXISTS")))
  <2>1. o \in Replies \cup {Proceed}
    BY OutcomesAreReplies DEF Replies
  <2>2. o = Proceed => Began(r, q, w)
    BY DEF RoleAccess, CanAddMember
  <2> QED BY <1>2, <2>1, <2>2 DEF BeginAddMember
<1>3. ASSUME NEW u \in Users, NEW x \in AssignableRoles, BeginUpdateMemberRole(r, a, w, u, x)
      PROVE  \E q, o : o \in Replies \cup {Proceed} /\ Begin(r, q, o) /\ (o = Proceed => Began(r, q, w))
  <2> DEFINE q == Opened("update_member_role", "members", a, w, NoTask, u, x)
             o == Then(RoleAccess(a, w, {"OWNER"}),
                  Then(RoleChangeAllowed(a, w, u, x), Check(role[w][u] # x, "OK")))
  <2>1. o \in Replies \cup {Proceed}
    BY OutcomesAreReplies DEF Replies
  <2>2. o = Proceed => Began(r, q, w)
    BY DEF RoleAccess, RoleChangeAllowed, CanUpdateMemberRole
  <2> QED BY <1>3, <2>1, <2>2 DEF BeginUpdateMemberRole
<1>4. ASSUME NEW u \in Users, BeginRemoveMember(r, a, w, u)
      PROVE  \E q, o : o \in Replies \cup {Proceed} /\ Begin(r, q, o) /\ (o = Proceed => Began(r, q, w))
  <2> DEFINE q == Opened("remove_member", "members", a, w, NoTask, u, "none")
             o == RoleAccess(a, w, Managers)
  <2>1. o = Proceed => Began(r, q, w)
    BY DEF RoleAccess
  <2> QED BY <1>4, <2>1, OutcomesAreReplies DEF BeginRemoveMember
<1>5. ASSUME NEW t \in Tasks, NEW c \in Contents, BeginCreateTask(r, a, w, t, c)
      PROVE  \E q, o : o \in Replies \cup {Proceed} /\ Begin(r, q, o) /\ (o = Proceed => Began(r, q, w))
  <2> DEFINE q == Opened("create_task", "commit", a, w, t, NoUser, c)
             o == WorkspaceAccess(a, w)
  <2>1. o = Proceed => Began(r, q, w)
    BY <1>5 DEF BeginCreateTask
  <2> QED BY <1>5, <2>1, OutcomesAreReplies DEF BeginCreateTask
<1>6. ASSUME NEW t \in Tasks, NEW c \in Contents, BeginUpdateTask(r, a, w, t, c)
      PROVE  \E q, o : o \in Replies \cup {Proceed} /\ Begin(r, q, o) /\ (o = Proceed => Began(r, q, w))
  <2> DEFINE q == Opened("update_task", "task", a, w, t, NoUser, c)
             o == Then(EditAccess(a, w, t), Check(task[t].content # c, "OK"))
  <2>1. o \in Replies \cup {Proceed}
    BY OutcomesAreReplies DEF Replies
  <2>2. o = Proceed => Began(r, q, w)
    BY DEF EditAccess, TaskAccess
  <2> QED BY <1>6, <2>1, <2>2 DEF BeginUpdateTask
<1>7. ASSUME NEW t \in Tasks, BeginDeleteTask(r, a, w, t)
      PROVE  \E q, o : o \in Replies \cup {Proceed} /\ Begin(r, q, o) /\ (o = Proceed => Began(r, q, w))
  <2> DEFINE q == Opened("delete_task", "task", a, w, t, NoUser, "none")
             o == EditAccess(a, w, t)
  <2>1. o = Proceed => Began(r, q, w)
    BY DEF EditAccess, TaskAccess
  <2> QED BY <1>7, <2>1, OutcomesAreReplies DEF BeginDeleteTask
<1>8. ASSUME NEW t \in Tasks, NEW s \in Statuses, BeginUpdateTaskStatus(r, a, w, t, s)
      PROVE  \E q, o : o \in Replies \cup {Proceed} /\ Begin(r, q, o) /\ (o = Proceed => Began(r, q, w))
  <2> DEFINE q == Opened("update_task_status", "members", a, w, t, NoUser, s)
             o == TaskAccess(a, w, t)
  <2>1. o = Proceed => Began(r, q, w)
    BY DEF TaskAccess
  <2> QED BY <1>8, <2>1, OutcomesAreReplies DEF BeginUpdateTaskStatus
<1>9. ASSUME NEW t \in Tasks, NEW u \in Users \cup {NoUser}, BeginUpdateTaskAssignee(r, a, w, t, u)
      PROVE  \E q, o : o \in Replies \cup {Proceed} /\ Begin(r, q, o) /\ (o = Proceed => Began(r, q, w))
  <2> DEFINE q == Opened("update_task_assignee", "members", a, w, t, u, "none")
             o == Then(TaskAccess(a, w, t), AssigneeRequest(role[w][a], a, u))
  <2>1. o \in Replies \cup {Proceed}
    BY OutcomesAreReplies
  <2>2. o = Proceed => Began(r, q, w)
    BY DEF TaskAccess
  <2> QED BY <1>9, <2>1, <2>2 DEF BeginUpdateTaskAssignee
<1> QED
  <2> HIDE DEF Began, Opened, Then, Check, WorkspaceAccess
  <2> QED
    BY <1>0, <1>1, <1>2, <1>3, <1>4, <1>5, <1>6, <1>7, <1>8, <1>9
    DEF BeginOnWorkspace, BeginOnTask

\* A lock step changes its own request only: it answers, or it gains rows that
\* nobody holds in conflict, having checked what it is about to write.
Locked(r, q) ==
  LET p == req[r] IN
  \/ \E reply \in Replies : q = Idle(reply) /\ (reply = "OK" => Achieved(p))
  \/ /\ q.op = p.op /\ q.ws = p.ws /\ q.task = p.task /\ q.target = p.target
     /\ q.actor = p.actor /\ q.value = p.value /\ q.pc # "idle" /\ p.pc # "idle"
     /\ q.reply = p.reply
     /\ q.op \notin {"create_workspace", "create_task"}
     /\ \A u \in q.mlocks \ p.mlocks : u \in Users /\ MemberBlockers(r, u) = {}
     /\ \A t \in q.tlocks \ p.tlocks : TaskBlockers(r, t) = {}
     /\ \A u \in Users : q.seen[u] =
          IF u \in q.mlocks \ p.mlocks /\ q.op \in LockingReads THEN role[q.ws][u] ELSE p.seen[u]
     /\ (q.pc = "commit" /\ q.op \in TaskLocking) =>
          InWorkspace(q.task, q.ws) /\ TaskCheck(q) = Proceed
     /\ (q.pc = "commit" /\ q.op = "add_member") => role[q.ws][q.target] = NoRole
     /\ (q.pc = "commit" /\ q.op = "update_member_role") => role[q.ws][q.target] # NoRole
     /\ (p.pc = "members" /\ q.pc \in {"task", "commit"} /\ q.op = "remove_member") =>
          q.target \in q.mlocks \ p.mlocks /\ CanRemoveMember(q.seen[q.actor], q.seen[q.target])
     /\ (q.pc = "commit" /\ q.op \in LockingReads) => p.pc # "members"
     /\ q.op = "remove_member" =>
          /\ q.tlocks \ p.tlocks \subseteq Assigned(q)
          /\ q.pc = "commit" => Assigned(q) \subseteq q.tlocks /\ q.unassigned = Unassigned(q)

\* A request that ends at its task without a write finds there what it asked for.
LEMMA AnswersAreEarned ==
  ASSUME TypeOK, NEW r \in Requests, req[r].pc = "task", req[r].op # "remove_member",
         TaskCheck(req[r]) = "OK"
  PROVE  Achieved(req[r])
<1> DEFINE p == req[r]
<1>1. p.op \in TaskLocking
  BY DEF TypeOK, Handled
<1>2. CASE p.op \in {"update_task", "delete_task"}
  <2>1. p.op = "delete_task" /\ ~InWorkspace(p.task, p.ws)
    BY <1>2 DEF TaskCheck, MissingTask, Then, Check, Proceed, Failed
  <2> QED BY <2>1 DEF Achieved
<1>3. CASE p.op = "update_task_status"
  <2>1. InWorkspace(p.task, p.ws) /\ StatusCheck(p, task[p.task]) = "OK"
    BY <1>3 DEF TaskCheck, MissingTask, Then, Check, Proceed
  <2>2. task[p.task].status = p.value
    BY <2>1 DEF StatusCheck, Then, Check, Proceed
  <2> QED BY <1>3, <2>1, <2>2 DEF Achieved
<1>4. CASE p.op = "update_task_assignee"
  <2>1. InWorkspace(p.task, p.ws) /\ AssigneeCheck(p, task[p.task]) = "OK"
    BY <1>4 DEF TaskCheck, MissingTask, Then, Check, Proceed
  <2>2. task[p.task].assignee = p.target
    BY <2>1 DEF AssigneeCheck, ManagerAssignCheck, ClaimCheck, ReleaseCheck, NotDone,
      Then, Check, Proceed
  <2> QED BY <1>4, <2>1, <2>2 DEF Achieved
<1> QED BY <1>1, <1>2, <1>3, <1>4 DEF TaskLocking

\* A lock step takes free locks and leaves the tables alone; a request it makes
\* ready to commit has found what Locked says.
LEMMA LockEffect ==
  ASSUME TypeOK, NEW r \in Requests, LockStep(r)
  PROVE  /\ UNCHANGED <<creator, role, task>>
         /\ req[r].pc # "idle"
         /\ \E q : req' = [req EXCEPT ![r] = q] /\ Locked(r, q)
<1> DEFINE p == req[r]
           Goal == /\ UNCHANGED <<creator, role, task>>
                   /\ req[r].pc # "idle"
                   /\ \E q : req' = [req EXCEPT ![r] = q] /\ Locked(r, q)
<1>0. p \in RequestStates /\ Handled(p)
  BY DEF TypeOK
<1>1. ASSUME NEW u \in Users, LockMembership(r, u)
      PROVE  Goal
  <2> DEFINE q == [p EXCEPT !.mlocks = @ \cup {u}, !.seen = Refreshed(p, u)]
             n == IF Wanted(q) # q.mlocks THEN q
                  ELSE IF MembershipCheck(q) = Proceed THEN [q EXCEPT !.pc = "task"]
                  ELSE Idle(MembershipCheck(q))
  <2>1. p.pc = "members" /\ p.op \in LockingReads /\ u \in Wanted(p) \ p.mlocks
        /\ UNCHANGED <<creator, role, task>> /\ MemberBlockers(r, u) = {}
        /\ req' = [req EXCEPT ![r] = n]
    BY <1>1 DEF LockMembership, CanLockMembership, FirstInOrder, tables
  <2>2. \A v \in Users : Refreshed(p, u)[v] = IF v = u THEN role[p.ws][v] ELSE p.seen[v]
    BY <1>0 DEF Refreshed, RequestStates
  <2>3. /\ q.op = p.op /\ q.ws = p.ws /\ q.task = p.task /\ q.target = p.target
        /\ q.actor = p.actor /\ q.value = p.value /\ q.reply = p.reply /\ q.pc = "members"
        /\ q.tlocks = p.tlocks /\ q.mlocks = p.mlocks \cup {u} /\ q.seen = Refreshed(p, u)
    BY <1>0, <2>1 DEF RequestStates
  <2>4. Locked(r, q)
    BY <2>1, <2>2, <2>3 DEF Locked, LockingReads
  <2>5. ASSUME q.op = "remove_member", Wanted(q) = q.mlocks, MembershipCheck(q) = Proceed
        PROVE  q.target \in q.mlocks \ p.mlocks /\ CanRemoveMember(q.seen[q.actor], q.seen[q.target])
    <3>1. q.target \in q.mlocks \ p.mlocks
      BY <2>1, <2>3, <2>5 DEF Wanted
    <3>2. CanRemoveMember(q.seen[q.actor], q.seen[q.target])
      BY <2>5 DEF MembershipCheck, Then, Check, Proceed
    <3> QED BY <3>1, <3>2
  <2>6. ASSUME Wanted(q) = q.mlocks, MembershipCheck(q) = Proceed
        PROVE  Locked(r, [q EXCEPT !.pc = "task"])
    <3> DEFINE m == [q EXCEPT !.pc = "task"]
    <3>1. /\ m.op = p.op /\ m.ws = p.ws /\ m.task = p.task /\ m.target = p.target
          /\ m.actor = p.actor /\ m.value = p.value /\ m.reply = p.reply /\ m.pc = "task"
          /\ m.tlocks = p.tlocks /\ m.mlocks = p.mlocks \cup {u} /\ m.seen = Refreshed(p, u)
      BY <1>0, <2>3 DEF RequestStates
    <3> QED BY <2>1, <2>2, <2>3, <2>5, <2>6, <3>1 DEF Locked, LockingReads
  <2>7. \A reply \in Replies \ {"OK"} : Locked(r, Idle(reply))
    BY DEF Locked
  <2>8. MembershipCheck(q) # "OK"
    BY DEF MembershipCheck, AssigneeRequest, Then, Check, Proceed
  <2>9. Locked(r, n)
    BY <2>4, <2>6, <2>7, <2>8, OutcomesAreReplies
  <2> QED BY <2>1, <2>9
<1>2. ASSUME NEW u \in Users, NEW allowed \in BOOLEAN, NEW error \in Replies \ {"OK"},
             \/ p.op = "add_member" /\ (allowed => role[p.ws][u] = NoRole)
             \/ p.op = "update_member_role" /\ (allowed => role[p.ws][u] # NoRole),
             WriteMembership(r, u, allowed, error)
      PROVE  Goal
  <2> DEFINE q == [p EXCEPT !.mlocks = {u}, !.pc = "commit"]
             n == IF allowed THEN q ELSE Idle(error)
  <2>1. p.pc = "members" /\ u = p.target /\ UNCHANGED <<creator, role, task>>
        /\ MemberBlockers(r, u) = {} /\ req' = [req EXCEPT ![r] = n]
    BY <1>2 DEF WriteMembership, CanLockMembership, FirstInOrder, Wanted, tables
  <2>2. /\ q.op = p.op /\ q.ws = p.ws /\ q.task = p.task /\ q.target = p.target
        /\ q.actor = p.actor /\ q.value = p.value /\ q.reply = p.reply /\ q.pc = "commit"
        /\ q.tlocks = p.tlocks /\ q.mlocks = {u} /\ q.seen = p.seen
    BY <1>0 DEF RequestStates
  <2>3. allowed => Locked(r, q)
    BY <1>2, <2>1, <2>2 DEF Locked, LockingReads, TaskLocking
  <2> QED BY <2>1, <2>3 DEF Locked
<1>3. ASSUME NEW u \in Users, InsertMembership(r, u)
      PROVE  Goal
  BY <1>2, <1>3 DEF InsertMembership, InsertAllowed, Replies
<1>4. ASSUME NEW u \in Users, UpdateMembership(r, u)
      PROVE  Goal
  BY <1>2, <1>4 DEF UpdateMembership, UpdateAllowed, Replies, Failed
<1>5. ASSUME NEW t \in Tasks, LockTask(r, t)
      PROVE  Goal
  <2> DEFINE q == [p EXCEPT !.tlocks = {t}, !.pc = "commit"]
             n == IF TaskCheck(p) = Proceed THEN q ELSE Idle(TaskCheck(p))
  <2>1. p.pc = "task" /\ p.op # "remove_member" /\ t = p.task /\ TaskBlockers(r, t) = {}
        /\ UNCHANGED <<creator, role, task>> /\ req' = [req EXCEPT ![r] = n]
    BY <1>5 DEF LockTask, tables
  <2>2. /\ q.op = p.op /\ q.ws = p.ws /\ q.task = p.task /\ q.target = p.target
        /\ q.actor = p.actor /\ q.value = p.value /\ q.reply = p.reply /\ q.pc = "commit"
        /\ q.tlocks = {t} /\ q.mlocks = p.mlocks /\ q.seen = p.seen
    BY <1>0 DEF RequestStates
  <2>3. TaskCheck(p) = Proceed => InWorkspace(p.task, p.ws)
    <3>1. MissingTask(p.op) # Proceed
      BY DEF MissingTask, Proceed, Failed
    <3> QED BY <3>1 DEF TaskCheck, Then, Check
  <2>4. p.op \in TaskLocking
    BY <1>0, <2>1 DEF Handled
  <2>5. TaskCheck(q) = TaskCheck(p)
    BY <2>2 DEF TaskCheck, StatusCheck, AssigneeCheck, ManagerAssignCheck, ClaimCheck, ReleaseCheck
  <2>6. TaskCheck(p) = Proceed => Locked(r, q)
    BY <2>1, <2>2, <2>3, <2>4, <2>5 DEF Locked, TaskLocking
  <2>7. TaskCheck(p) = "OK" => Achieved(p)
    BY <1>5, AnswersAreEarned DEF LockTask
  <2> QED BY <2>1, <2>6, <2>7, OutcomesAreReplies DEF Locked
<1>6. ASSUME NEW t \in Tasks, LockAssignedTask(r, t)
      PROVE  Goal
  <2> DEFINE q == [p EXCEPT !.tlocks = @ \cup {t}]
  <2>1. p.pc = "task" /\ p.op = "remove_member" /\ TaskBlockers(r, t) = {}
        /\ UNCHANGED <<creator, role, task>> /\ req' = [req EXCEPT ![r] = q]
        /\ t \in Assigned(p)
    BY <1>6 DEF LockAssignedTask, FirstInOrder, tables
  <2>2. /\ q.op = p.op /\ q.ws = p.ws /\ q.task = p.task /\ q.target = p.target
        /\ q.actor = p.actor /\ q.value = p.value /\ q.reply = p.reply /\ q.pc = "task"
        /\ q.tlocks = p.tlocks \cup {t} /\ q.mlocks = p.mlocks /\ q.seen = p.seen
    BY <1>0, <2>1 DEF RequestStates
  <2>3. Assigned(q) = Assigned(p)
    BY <2>2 DEF Assigned
  <2>4. Locked(r, q)
    BY <2>1, <2>2, <2>3 DEF Locked, TaskLocking
  <2> QED BY <2>1, <2>4
<1> QED BY <1>1, <1>3, <1>4, <1>5, <1>6 DEF LockStep

\* The role of u in w after the commit of request p.
RoleAfter(p, w, u) ==
  IF w = p.ws /\ p.op = "create_workspace" /\ u = p.actor THEN "OWNER"
  ELSE IF w = p.ws /\ p.op \in {"add_member", "update_member_role"} /\ u = p.target THEN p.value
  ELSE IF w = p.ws /\ p.op = "remove_member" /\ u = p.target THEN NoRole
  ELSE role[w][u]

\* A commit changes the tables by exactly what its endpoint writes.
LEMMA CommitEffect ==
  ASSUME TypeOK, WritesAreReady, NEW r \in Requests, Commit(r)
  PROVE  LET p == req[r] IN
         /\ p.pc = "commit"
         /\ \E reply \in Replies : req' = [req EXCEPT ![r] = Idle(reply)]
         /\ \A w \in Workspaces :
              creator'[w] = IF p.op = "create_workspace" /\ w = p.ws THEN p.actor ELSE creator[w]
         /\ \A w \in Workspaces, u \in Users : role'[w][u] = RoleAfter(p, w, u)
         /\ \A t \in Tasks :
              \/ task'[t].phase = task[t].phase /\ task'[t].ws = task[t].ws
              \/ p.op \in {"create_task", "delete_task"} /\ t = p.task
<1> DEFINE p == req[r]
<1>0. p \in RequestStates /\ Handled(p)
  BY DEF TypeOK
<1>1. p.pc = "commit" /\ \E reply \in Replies : req' = [req EXCEPT ![r] = Idle(reply)]
  <2>1. \E op : Committed(r, op)
    BY DEF Commit, CommitCreateWorkspace, CommitCreateTask, CommitUpdateTask,
      CommitDeleteTask, CommitUpdateTaskStatus, CommitUpdateTaskAssignee, CommitAddMember,
      CommitUpdateMemberRole, CommitRemoveMember
  <2> QED BY <2>1 DEF Committed, Answer, Replies
<1>2. p.ws \in Workspaces /\ p.actor \in Users /\ (p.op \in MemberEndpoints => p.target \in Users)
      /\ (p.op \in TaskEndpoints => p.task \in Tasks)
  BY <1>0, <1>1 DEF Handled
<1>3. \A t \in Tasks : task[t] \in TaskRows
  BY DEF TypeOK
<1> DEFINE Creators == \A w \in Workspaces :
              creator'[w] = IF p.op = "create_workspace" /\ w = p.ws THEN p.actor ELSE creator[w]
           TaskKept == \A t \in Tasks : task'[t].phase = task[t].phase /\ task'[t].ws = task[t].ws
<1> USE <1>2 DEF Committed, TypeOK, RoleAfter
<1>4. CASE CommitCreateWorkspace(r)
  BY <1>1, <1>4 DEF CommitCreateWorkspace
<1>5. CASE CommitCreateTask(r)
  BY <1>1, <1>5 DEF CommitCreateTask, TaskEndpoints
<1>6. CASE CommitUpdateTask(r)
  <2>1. TaskKept
    BY <1>3, <1>6 DEF CommitUpdateTask, TaskRows, LiveRows, NoRow
  <2> QED BY <1>1, <1>6, <2>1 DEF CommitUpdateTask
<1>7. CASE CommitDeleteTask(r)
  BY <1>1, <1>7 DEF CommitDeleteTask, TaskEndpoints, TaskLocking
<1>8. CASE CommitUpdateTaskStatus(r)
  <2>1. TaskKept
    BY <1>3, <1>8 DEF CommitUpdateTaskStatus, TaskRows, LiveRows, NoRow
  <2> QED BY <1>1, <1>8, <2>1 DEF CommitUpdateTaskStatus
<1>9. CASE CommitUpdateTaskAssignee(r)
  <2>1. TaskKept
    BY <1>3, <1>9 DEF CommitUpdateTaskAssignee, TaskRows, LiveRows, NoRow
  <2> QED BY <1>1, <1>9, <2>1 DEF CommitUpdateTaskAssignee
<1>10. CASE CommitAddMember(r)
  BY <1>1, <1>10 DEF CommitAddMember, MemberEndpoints
<1>11. CASE CommitUpdateMemberRole(r)
  BY <1>1, <1>11 DEF CommitUpdateMemberRole, MemberEndpoints
<1>12. CASE CommitRemoveMember(r)
  <2>1. TaskKept
    BY <1>3, <1>12 DEF CommitRemoveMember, TaskRows, LiveRows, NoRow
  <2> QED BY <1>1, <1>12, <2>1 DEF CommitRemoveMember, MemberEndpoints
<1> QED
  BY <1>4, <1>5, <1>6, <1>7, <1>8, <1>9, <1>10, <1>11, <1>12 DEF Commit

\* A step that is no commit replaces one request and leaves the tables alone.
Quiet(r, q) ==
  /\ UNCHANGED <<creator, role, task>>
  /\ req' = [req EXCEPT ![r] = q]
  /\ \/ req[r].pc = "idle" /\ \E w \in Workspaces : Began(r, q, w)
     \/ req[r].pc # "idle" /\ Locked(r, q)

\* A step commits, stutters, or is quiet: it changes one request and no table.
LEMMA StepCases ==
  ASSUME TypeOK, [Next]_vars
  PROVE  \/ UNCHANGED vars
         \/ \E r \in Requests : Commit(r)
         \/ \E r \in Requests : \E q : Quiet(r, q)
<1>1. ASSUME NEW r \in Requests, FinishUnassign(r)
      PROVE  \E q : Quiet(r, q)
  <2> DEFINE p == req[r]  q == [p EXCEPT !.pc = "commit", !.unassigned = Unassigned(p)]
  <2>1. p.pc = "task" /\ p.op = "remove_member" /\ UNCHANGED <<creator, role, task>>
        /\ req' = [req EXCEPT ![r] = q] /\ p \in RequestStates
        /\ Assigned(p) \subseteq p.tlocks
    BY <1>1 DEF FinishUnassign, tables, TypeOK
  <2>2. /\ q.op = p.op /\ q.ws = p.ws /\ q.task = p.task /\ q.target = p.target
        /\ q.actor = p.actor /\ q.value = p.value /\ q.reply = p.reply /\ q.pc = "commit"
        /\ q.tlocks = p.tlocks /\ q.mlocks = p.mlocks /\ q.seen = p.seen
        /\ q.unassigned = Unassigned(p)
    BY <2>1 DEF RequestStates
  <2>3. Assigned(q) = Assigned(p) /\ Unassigned(q) = Unassigned(p)
    BY <2>2 DEF Assigned, Unassigned
  <2>4. Locked(r, q)
    BY <2>1, <2>2, <2>3 DEF Locked, TaskLocking
  <2> QED BY <2>1, <2>4 DEF Quiet
<1>2. ASSUME NEW r \in Requests, Fail(r)
      PROVE  \E q : Quiet(r, q)
  BY <1>2 DEF Fail, Quiet, Locked, Answer, tables, Replies, Failed
<1>3. ASSUME NEW r \in Requests, LockStep(r)
      PROVE  \E q : Quiet(r, q)
  BY <1>3, LockEffect DEF Quiet
<1>4. ASSUME NEW r \in Requests, NEW a \in Users, NEW w \in Workspaces,
             BeginOnWorkspace(r, a, w) \/ \E t \in Tasks : BeginOnTask(r, a, w, t)
      PROVE  \E q : Quiet(r, q)
  BY <1>4, BeginEffect DEF Quiet
<1> QED BY <1>1, <1>2, <1>3, <1>4 DEF Next

-----------------------------------------------------------------------------
(* Locks exclude.                                                          *)

\* Members and requests are of workspaces that exist; the id an INSERT drew is its own.
IdsAreKnown ==
  /\ \A w \in Workspaces, u \in Users : role[w][u] # NoRole => creator[w] # NoUser
  /\ \A r \in Requests :
       req[r].pc # "idle" =>
         /\ req[r].op # "create_workspace" => creator[req[r].ws] # NoUser
         /\ req[r].op = "create_workspace" =>
              /\ creator[req[r].ws] = NoUser
              /\ \A s \in Requests \ {r} : req[s].ws # req[r].ws
         /\ req[r].op = "create_task" =>
              \A s \in Requests \ {r} : req[s].task # req[r].task
         /\ req[r].op = "update_member_role" => req[r].target # creator[req[r].ws]

\* A quiet step takes only free locks.
LEMMA LocksExcludeQuiet ==
  ASSUME TypeOK, TypeOK', LocksExclude, NEW r \in Requests, NEW q, Quiet(r, q)
  PROVE  LocksExclude'
<1> DEFINE p == req[r]
<1>1. \A s \in Requests : req'[s] = IF s = r THEN q ELSE req[s]
  BY DEF Quiet, TypeOK
<1>2. ASSUME NEW s \in Requests \ {r}
      PROVE  /\ q.tlocks \cap req[s].tlocks = {}
             /\ \A u \in q.mlocks \cap req[s].mlocks :
                  q.ws = req[s].ws =>
                    role[q.ws][u] = NoRole /\ "add_member" \notin {q.op, req[s].op}
  <2>1. CASE q.tlocks = {} /\ q.mlocks = {}
    BY <2>1
  <2>2. CASE Locked(r, q) /\ ~(q.tlocks = {} /\ q.mlocks = {})
    <3>1. /\ q.op = p.op /\ q.ws = p.ws
          /\ \A u \in q.mlocks \ p.mlocks : u \in Users /\ MemberBlockers(r, u) = {}
          /\ \A t \in q.tlocks \ p.tlocks : TaskBlockers(r, t) = {}
      BY <2>2 DEF Locked, Idle
    <3>2. \A t \in q.tlocks : t \notin req[s].tlocks
      BY <3>1 DEF TaskBlockers, HeldTasks, LocksExclude
    <3>3. ASSUME NEW u \in q.mlocks \cap req[s].mlocks, q.ws = req[s].ws
          PROVE  role[q.ws][u] = NoRole /\ "add_member" \notin {q.op, req[s].op}
      <4>1. CASE u \in p.mlocks
        <5>1. u \in req[r].mlocks \cap req[s].mlocks /\ req[r].ws = req[s].ws /\ r # s
          BY <3>1, <3>3, <4>1
        <5>2. role[req[r].ws][u] = NoRole /\ "add_member" \notin {req[r].op, req[s].op}
          BY <5>1 DEF LocksExclude
        <5> QED BY <3>1, <5>2
      <4>2. CASE u \notin p.mlocks
        BY <3>1, <3>3, <4>2 DEF MemberBlockers, HeldMembers
      <4> QED BY <4>1, <4>2
    <3> QED BY <3>2, <3>3
  <2> QED BY <2>1, <2>2 DEF Quiet, Began, Idle
<1> QED BY <1>1, <1>2 DEF LocksExclude, Quiet

\* A commit releases, and creates no membership that two others hold as absent.
LEMMA LocksExcludeCommit ==
  ASSUME TypeOK, TypeOK', WritesAreReady, IdsAreKnown, LocksExclude, ConstantsAssumption,
         NEW r \in Requests, Commit(r)
  PROVE  LocksExclude'
<1> DEFINE p == req[r]
<1>1. PICK reply \in Replies : req' = [req EXCEPT ![r] = Idle(reply)]
  BY CommitEffect
<1>2. \A s \in Requests : req'[s] = IF s = r THEN Idle(reply) ELSE req[s]
  BY <1>1 DEF TypeOK
<1>3. ASSUME NEW s \in Requests \ {r}, NEW v \in Requests \ {r}, s # v,
             NEW u \in req[s].mlocks \cap req[v].mlocks, req[s].ws = req[v].ws
      PROVE  role'[req[s].ws][u] = NoRole /\ "add_member" \notin {req[s].op, req[v].op}
  <2>1. role[req[s].ws][u] = NoRole /\ "add_member" \notin {req[s].op, req[v].op}
    BY <1>3 DEF LocksExclude
  <2>2. u \in Users /\ req[s].ws \in Workspaces /\ req[s].pc # "idle"
    <3>1. req[s] \in RequestStates /\ Handled(req[s]) /\ u \in req[s].mlocks
      BY <1>3 DEF TypeOK
    <3>2. u \in Users
      BY <3>1 DEF RequestStates
    <3>3. req[s].pc # "idle"
      BY <3>1 DEF Handled, Idle
    <3> QED BY <3>1, <3>2, <3>3 DEF Handled
  <2>3. p.pc = "commit" /\ p.mlocks = Wanted(p) /\ p \in RequestStates
    BY CommitEffect DEF TypeOK, Handled
  <2>4. ASSUME p.ws = req[s].ws
        PROVE  p.op # "create_workspace"
    BY <2>2, <2>3, <2>4 DEF IdsAreKnown
  <2>5. ASSUME p.op \in MemberEndpoints, u = p.target, p.ws = req[s].ws
        PROVE  p.op = "remove_member"
    <3>1. u \in p.mlocks
      BY <2>3, <2>5 DEF Wanted, MemberEndpoints
    <3>2. p.op # "add_member"
      BY <1>3, <2>5, <3>1 DEF LocksExclude
    <3>3. p.op # "update_member_role"
      <4>1. p.op = "update_member_role" => role[p.ws][p.target] \in AssignableRoles
        BY <2>3 DEF WritesAreReady
      <4> QED BY <2>1, <2>5, <4>1 DEF AssignableRoles, NoRole
    <3> QED BY <2>5, <3>2, <3>3 DEF MemberEndpoints
  <2>6. role'[req[s].ws][u] = RoleAfter(p, req[s].ws, u)
    <3>1. \A w \in Workspaces, x \in Users : role'[w][x] = RoleAfter(p, w, x)
      BY CommitEffect
    <3> QED BY <2>2, <3>1
  <2>7. role'[req[s].ws][u] = NoRole
    <3>1. CASE req[s].ws # p.ws
      BY <2>1, <2>6, <3>1 DEF RoleAfter
    <3>2. CASE req[s].ws = p.ws
      BY <2>1, <2>4, <2>5, <2>6, <3>2 DEF RoleAfter, MemberEndpoints
    <3> QED BY <3>1, <3>2
  <2> QED BY <2>1, <2>7
<1> QED BY <1>2, <1>3 DEF LocksExclude, Idle

-----------------------------------------------------------------------------
(* What a request is about to write.                                       *)

\* A quiet step makes a request ready only after checking the row it writes.
LEMMA WritesAreReadyQuiet ==
  ASSUME TypeOK, TypeOK', WritesAreReady, IdsAreKnown, OwnerIsCreator,
         NEW r \in Requests, NEW q, Quiet(r, q)
  PROVE  WritesAreReady'
<1> DEFINE p == req[r]
           Ready(x) ==
             /\ x.pc = "commit" =>
                  /\ x.op \in TaskLocking => InWorkspace(x.task, x.ws)
                  /\ x.op = "create_task" => task[x.task].phase = "unused"
                  /\ x.op = "add_member" => role[x.ws][x.target] = NoRole
                  /\ x.op = "update_member_role" => role[x.ws][x.target] \in AssignableRoles
             /\ (x.pc \in {"task", "commit"} /\ x.op = "remove_member") =>
                  role[x.ws][x.target] \in AssignableRoles
<1>1. \A s \in Requests : req'[s] = IF s = r THEN q ELSE req[s]
  BY DEF Quiet, TypeOK
<1>2. q \in RequestStates /\ Handled(q) /\ p \in RequestStates /\ Handled(p) /\ Ready(p)
  <2>1. q \in RequestStates /\ Handled(q)'
    BY <1>1 DEF TypeOK, Quiet, RequestStates
  <2>2. Handled(q)
    BY <2>1 DEF Handled, Idle, Wanted, ValuesOf
  <2> QED BY <2>1, <2>2 DEF TypeOK, WritesAreReady
<1>3. Ready(q)
  <2>1. ASSUME NEW reply \in Replies, q = Idle(reply)
        PROVE  Ready(q)
    BY <2>1 DEF Idle
  <2>2. ASSUME NEW w \in Workspaces, Began(r, q, w)
        PROVE  Ready(q)
    BY <2>1, <2>2, <1>2 DEF Began, TaskLocking
  <2>3. ASSUME Locked(r, q), \A reply \in Replies : q # Idle(reply)
        PROVE  Ready(q)
    <3>1. /\ q.op = p.op /\ q.ws = p.ws /\ q.target = p.target
          /\ p.pc # "idle" /\ q.pc # "idle"
          /\ q.op \notin {"create_workspace", "create_task"}
      BY <2>3 DEF Locked
    <3>2. (q.pc = "commit" /\ q.op = "update_member_role") =>
            role[q.ws][q.target] \in AssignableRoles
      <4>1. ASSUME q.op = "update_member_role", q.pc = "commit"
            PROVE  role[q.ws][q.target] \in AssignableRoles
        <5>1. q.target \in Users /\ q.ws \in Workspaces /\ q.target # creator[q.ws]
          BY <1>2, <3>1, <4>1 DEF Handled, MemberEndpoints, IdsAreKnown
        <5>2. role[q.ws][q.target] # "OWNER" /\ role[q.ws][q.target] # NoRole
          BY <2>3, <4>1, <5>1 DEF Locked, OwnerIsCreator
        <5> QED BY <5>1, <5>2 DEF TypeOK, RolesOrNone, Roles, AssignableRoles
      <4> QED BY <4>1
    <3>3. (q.pc \in {"task", "commit"} /\ q.op = "remove_member") =>
            role[q.ws][q.target] \in AssignableRoles
      <4>1. ASSUME q.op = "remove_member", q.pc \in {"task", "commit"}, p.pc = "members"
            PROVE  role[q.ws][q.target] \in AssignableRoles
        <5>1. /\ q.target \in q.mlocks \ p.mlocks
              /\ CanRemoveMember(q.seen[q.actor], q.seen[q.target])
              /\ q.target \in Users
          BY <1>2, <2>3, <4>1 DEF Locked, Handled, MemberEndpoints
        <5>2. q.seen[q.target] = role[q.ws][q.target]
          BY <2>3, <4>1, <5>1 DEF Locked, LockingReads
        <5> QED BY <5>1, <5>2 DEF CanRemoveMember, AssignableRoles
      <4>2. p.pc \in {"members", "task", "commit"}
        BY <1>2, <3>1 DEF RequestStates, PC
      <4> QED BY <1>2, <3>1, <4>1, <4>2
    <3>4. /\ (q.pc = "commit" /\ q.op \in TaskLocking) => InWorkspace(q.task, q.ws)
          /\ (q.pc = "commit" /\ q.op = "add_member") => role[q.ws][q.target] = NoRole
      BY <2>3 DEF Locked
    <3> QED BY <3>1, <3>2, <3>3, <3>4
  <2> QED BY <2>1, <2>2, <2>3 DEF Quiet
<1>4. \A s \in Requests : Ready(req'[s])
  BY <1>1, <1>3 DEF WritesAreReady
<1> QED BY <1>4 DEF WritesAreReady, Quiet, InWorkspace

\* A commit takes no row away from under another request that is ready to write it:
\* that request would hold the row, and so would the committing one.
LEMMA WritesAreReadyCommit ==
  ASSUME TypeOK, WritesAreReady, IdsAreKnown, LocksExclude, NEW r \in Requests, Commit(r)
  PROVE  WritesAreReady'
<1> DEFINE p == req[r]
<1>1. PICK reply \in Replies : req' = [req EXCEPT ![r] = Idle(reply)]
  BY CommitEffect
<1>2. \A s \in Requests : req'[s] = IF s = r THEN Idle(reply) ELSE req[s]
  BY <1>1 DEF TypeOK
<1>3. /\ p.pc = "commit"
      /\ \A w \in Workspaces, u \in Users : role'[w][u] = RoleAfter(p, w, u)
      /\ \A t \in Tasks :
           \/ task'[t].phase = task[t].phase /\ task'[t].ws = task[t].ws
           \/ p.op \in {"create_task", "delete_task"} /\ t = p.task
  BY CommitEffect
<1>4. \A s \in Requests : req[s] \in RequestStates /\ Handled(req[s])
  BY DEF TypeOK
<1>5. ASSUME NEW s \in Requests \ {r}, req[s].pc \in {"task", "commit"},
             req[s].op \in MemberEndpoints
      PROVE  \/ role'[req[s].ws][req[s].target] = role[req[s].ws][req[s].target]
             \/ req[s].op # "add_member" /\ role[req[s].ws][req[s].target] = NoRole
  <2> DEFINE q == req[s]
  <2>1. q.ws \in Workspaces /\ q.target \in Users /\ q.mlocks = {q.target}
    BY <1>4, <1>5 DEF Handled, MemberEndpoints, Wanted
  <2>2. ASSUME p.op \in MemberEndpoints, p.ws = q.ws, p.target = q.target
        PROVE  q.op # "add_member" /\ role[q.ws][q.target] = NoRole
    <3>1. p.mlocks = {p.target}
      BY <1>3, <1>4, <2>2 DEF Handled, MemberEndpoints, Wanted
    <3>2. q.target \in req[s].mlocks \cap req[r].mlocks /\ req[s].ws = req[r].ws /\ s # r
      BY <2>1, <2>2, <3>1
    <3> QED BY <3>2 DEF LocksExclude
  <2>3. p.op = "create_workspace" => p.ws # q.ws
    BY <1>3 DEF IdsAreKnown
  <2>4. role'[q.ws][q.target] = RoleAfter(p, q.ws, q.target)
    BY <1>3, <2>1
  <2> QED BY <2>2, <2>3, <2>4 DEF RoleAfter, MemberEndpoints
<1>6. ASSUME NEW s \in Requests \ {r}, req[s].pc = "commit",
             req[s].op \in TaskLocking \cup {"create_task"}
      PROVE  /\ task'[req[s].task].phase = task[req[s].task].phase
             /\ task'[req[s].task].ws = task[req[s].task].ws
  <2> DEFINE q == req[s]
  <2>1. q.task \in Tasks
    BY <1>4, <1>6 DEF Handled, TaskEndpoints
  <2>2. p.op = "create_task" => q.task # p.task
    BY <1>3 DEF IdsAreKnown
  <2>3. q.op = "create_task" => q.task # p.task
    BY <1>6 DEF IdsAreKnown
  <2>4. ASSUME p.op = "delete_task", q.op \in TaskLocking
        PROVE  q.task # p.task
    <3>1. p.tlocks = {p.task} /\ q.tlocks = {q.task}
      BY <1>3, <1>4, <1>6, <2>4 DEF Handled, TaskLocking
    <3>2. p.tlocks \cap q.tlocks = {}
      BY <1>6 DEF LocksExclude
    <3> QED BY <3>1, <3>2
  <2> QED BY <1>3, <1>6, <2>1, <2>2, <2>3, <2>4
<1>7. ASSUME NEW s \in Requests \ {r}
      PROVE  /\ req[s].pc = "commit" =>
                  /\ req[s].op \in TaskLocking => InWorkspace(req[s].task, req[s].ws)'
                  /\ req[s].op = "create_task" => task'[req[s].task].phase = "unused"
                  /\ req[s].op = "add_member" => role'[req[s].ws][req[s].target] = NoRole
                  /\ req[s].op = "update_member_role" =>
                       role'[req[s].ws][req[s].target] \in AssignableRoles
             /\ (req[s].pc \in {"task", "commit"} /\ req[s].op = "remove_member") =>
                  role'[req[s].ws][req[s].target] \in AssignableRoles
  <2> DEFINE q == req[s]
  <2>1. q.pc = "commit" /\ q.op \in TaskLocking => InWorkspace(q.task, q.ws)'
    <3>1. q.pc = "commit" /\ q.op \in TaskLocking => InWorkspace(q.task, q.ws)
      BY DEF WritesAreReady
    <3>2. (q.pc = "commit" /\ q.op \in TaskLocking) =>
            task'[q.task].phase = task[q.task].phase /\ task'[q.task].ws = task[q.task].ws
      BY <1>6
    <3>3. InWorkspace(q.task, q.ws)' <=> task'[q.task].phase = "live" /\ task'[q.task].ws = q.ws
      BY <1>2, Zenon DEF InWorkspace
    <3> QED BY <3>1, <3>2, <3>3 DEF InWorkspace
  <2>2. q.pc = "commit" /\ q.op = "create_task" => task'[q.task].phase = "unused"
    BY <1>6 DEF WritesAreReady
  <2>3. q.pc = "commit" /\ q.op = "add_member" => role'[q.ws][q.target] = NoRole
    BY <1>5 DEF WritesAreReady, MemberEndpoints
  <2>4. q.pc = "commit" /\ q.op = "update_member_role" =>
          role'[q.ws][q.target] \in AssignableRoles
    BY <1>5 DEF WritesAreReady, MemberEndpoints, AssignableRoles, NoRole
  <2>5. q.pc \in {"task", "commit"} /\ q.op = "remove_member" =>
          role'[q.ws][q.target] \in AssignableRoles
    BY <1>5 DEF WritesAreReady, MemberEndpoints, AssignableRoles, NoRole
  <2> QED BY <2>1, <2>2, <2>3, <2>4, <2>5
<1>8. Idle(reply).op = "none" /\ Idle(reply).pc = "idle"
  BY DEF Idle
<1> QED BY <1>2, <1>7, <1>8 DEF WritesAreReady, InWorkspace

-----------------------------------------------------------------------------
(* Ids.                                                                    *)

\* A request that begins is of a workspace that exists, or draws an id that no other
\* request and no row has.
LEMMA IdsAreKnownQuiet ==
  ASSUME TypeOK, TypeOK', WritesAreReady, IdsAreKnown, OwnerIsCreator, ConstantsAssumption,
         NEW r \in Requests, NEW q, Quiet(r, q)
  PROVE  IdsAreKnown'
<1> DEFINE p == req[r]
<1>1. \A s \in Requests : req'[s] = IF s = r THEN q ELSE req[s]
  BY DEF Quiet, TypeOK
<1>2. UNCHANGED creator /\ UNCHANGED role
  BY DEF Quiet
<1>3. /\ q.pc # "idle" => q.op \in Endpoints /\ q.ws \in Workspaces /\ q.actor \in Users
      /\ q.op \in MemberEndpoints => q.target \in Users
  BY <1>1 DEF TypeOK, Handled
<1>4. \A s \in Requests : Handled(req[s])
  BY DEF TypeOK
<1>5. NoTask \notin Tasks /\ NoWorkspace \notin Workspaces /\ NoUser \notin Users
  BY DEF ConstantsAssumption
<1>6. ASSUME NEW reply \in Replies, q = Idle(reply)
      PROVE  IdsAreKnown'
  <2>1. q.pc = "idle" /\ q.ws = NoWorkspace /\ q.task = NoTask
    BY <1>6 DEF Idle
  <2>2. \A s \in Requests : (req[s].pc # "idle" => req[s].ws # NoWorkspace)
           /\ (req[s].op = "create_task" => req[s].task # NoTask)
    BY <1>4, <1>5 DEF Handled, TaskEndpoints
  <2> QED BY <1>1, <1>2, <2>1, <2>2 DEF IdsAreKnown
<1>7. ASSUME NEW w \in Workspaces, Began(r, q, w), \A reply \in Replies : q # Idle(reply)
      PROVE  IdsAreKnown'
  <2>1. q.ws = w /\ q.pc # "idle"
    BY <1>7 DEF Began
  <2>2. q.op # "create_workspace" => creator[w] # NoUser
    BY <1>7 DEF Began, IdsAreKnown
  <2>3. q.op = "create_workspace" => creator[w] = NoUser /\ \A s \in Requests : req[s].ws # w
    BY <1>7 DEF Began
  <2>4. q.op = "create_task" => \A s \in Requests : req[s].task # q.task
    BY <1>7 DEF Began
  <2>5. ASSUME q.op = "update_member_role"
        PROVE  q.target # creator[w]
    <3>1. role[w][q.target] # "OWNER" /\ q.target \in Users
      BY <1>3, <1>7, <2>5 DEF Began, MemberEndpoints
    <3> QED BY <3>1 DEF OwnerIsCreator
  <2>6. ASSUME NEW s \in Requests \ {r}, req[s].pc # "idle", req[s].op = "create_workspace"
        PROVE  req[s].ws # q.ws
    BY <2>1, <2>2, <2>3, <2>6 DEF IdsAreKnown
  <2>7. ASSUME NEW s \in Requests \ {r}, req[s].pc # "idle", req[s].op = "create_task"
        PROVE  q.task # req[s].task
    <3>1. req[s].task \in Tasks /\ task[req[s].task].phase = "unused"
      <4>1. req[s].pc \in {"idle", "members", "task", "commit"}
        BY DEF TypeOK, RequestStates, PC
      <4>2. req[s].pc = "commit" /\ req[s].task \in Tasks
        BY <1>4, <2>7, <4>1 DEF Handled, TaskEndpoints, TaskLocking, LockingReads
      <4> QED BY <2>7, <4>2 DEF WritesAreReady
    <3>2. CASE q.op \in TaskLocking
      BY <1>7, <3>1, <3>2 DEF Began, InWorkspace
    <3>3. CASE q.op \in MemberEndpoints \cup {"create_workspace"}
      BY <1>5, <1>7, <3>1, <3>3 DEF Began
    <3>4. CASE q.op = "create_task"
      BY <2>4, <3>4
    <3> QED BY <1>3, <2>1, <3>2, <3>3, <3>4 DEF Endpoints, TaskLocking, MemberEndpoints
  <2> QED BY <1>1, <1>2, <2>1, <2>2, <2>3, <2>4, <2>5, <2>6, <2>7 DEF IdsAreKnown
<1>8. ASSUME Locked(r, q), \A reply \in Replies : q # Idle(reply)
      PROVE  IdsAreKnown'
  <2>1. /\ q.op = p.op /\ q.ws = p.ws /\ q.task = p.task /\ q.target = p.target
        /\ p.pc # "idle"
    BY <1>8 DEF Locked
  <2> QED BY <1>1, <1>2, <2>1 DEF IdsAreKnown
<1> QED BY <1>6, <1>7, <1>8 DEF Quiet

\* A commit creates members and workspaces only where a request in flight knows them.
LEMMA IdsAreKnownCommit ==
  ASSUME TypeOK, WritesAreReady, IdsAreKnown, ConstantsAssumption, NEW r \in Requests, Commit(r)
  PROVE  IdsAreKnown'
<1> DEFINE p == req[r]
<1>1. PICK reply \in Replies : req' = [req EXCEPT ![r] = Idle(reply)]
  BY CommitEffect
<1>2. \A s \in Requests : req'[s] = IF s = r THEN Idle(reply) ELSE req[s]
  BY <1>1 DEF TypeOK
<1>3. /\ p.pc = "commit"
      /\ \A w \in Workspaces :
           creator'[w] = IF p.op = "create_workspace" /\ w = p.ws THEN p.actor ELSE creator[w]
      /\ \A w \in Workspaces, u \in Users : role'[w][u] = RoleAfter(p, w, u)
  BY CommitEffect
<1>4. \A s \in Requests : Handled(req[s])
  BY DEF TypeOK
<1>5. NoTask \notin Tasks /\ NoWorkspace \notin Workspaces /\ NoUser \notin Users
  BY DEF ConstantsAssumption
<1>6. p.actor \in Users /\ p.ws \in Workspaces
  BY <1>3, <1>4 DEF Handled
<1>7. ASSUME NEW w \in Workspaces, creator[w] # NoUser
      PROVE  creator'[w] = creator[w]
  BY <1>3, <1>7 DEF IdsAreKnown
<1>8. ASSUME NEW w \in Workspaces, NEW u \in Users, role'[w][u] # NoRole
      PROVE  creator'[w] # NoUser
  <2>1. role'[w][u] = RoleAfter(p, w, u)
    BY <1>3
  <2>2. CASE w = p.ws /\ p.op = "create_workspace"
    BY <1>3, <1>5, <1>6, <2>2
  <2>3. CASE w = p.ws /\ p.op # "create_workspace"
    BY <1>3, <2>3 DEF IdsAreKnown
  <2>4. CASE w # p.ws
    BY <1>3, <1>8, <2>1, <2>4 DEF IdsAreKnown, RoleAfter
  <2> QED BY <2>2, <2>3, <2>4
<1>9. ASSUME NEW s \in Requests \ {r}, req[s].pc # "idle", req[s].op = "create_workspace"
      PROVE  creator'[req[s].ws] = NoUser
  BY <1>3, <1>4, <1>9 DEF IdsAreKnown, Handled
<1>10. ASSUME NEW s \in Requests \ {r}, req[s].pc # "idle"
       PROVE  /\ req[s].ws # NoWorkspace /\ req[s].ws \in Workspaces
              /\ req[s].op = "create_task" => req[s].task # NoTask
  BY <1>4, <1>5, <1>10 DEF Handled, TaskEndpoints
<1>11. Idle(reply).pc = "idle" /\ Idle(reply).ws = NoWorkspace /\ Idle(reply).task = NoTask
  BY DEF Idle
<1>12. ASSUME NEW s \in Requests, req'[s].pc # "idle"
       PROVE  /\ req'[s].op # "create_workspace" => creator'[req'[s].ws] # NoUser
              /\ req'[s].op = "create_workspace" =>
                   /\ creator'[req'[s].ws] = NoUser
                   /\ \A v \in Requests \ {s} : req'[v].ws # req'[s].ws
              /\ req'[s].op = "create_task" =>
                   \A v \in Requests \ {s} : req'[v].task # req'[s].task
              /\ req'[s].op = "update_member_role" => req'[s].target # creator'[req'[s].ws]
  <2>1. s # r /\ req'[s] = req[s] /\ req[s].pc # "idle"
    BY <1>2, <1>11, <1>12
  <2>2. req[s].op # "create_workspace" =>
          creator[req[s].ws] # NoUser /\ creator'[req[s].ws] = creator[req[s].ws]
    BY <1>7, <1>10, <2>1 DEF IdsAreKnown
  <2>3. req[s].op = "create_workspace" => \A v \in Requests \ {s} : req'[v].ws # req[s].ws
    BY <1>2, <1>10, <1>11, <2>1 DEF IdsAreKnown
  <2>4. req[s].op = "create_task" => \A v \in Requests \ {s} : req'[v].task # req[s].task
    BY <1>2, <1>10, <1>11, <2>1 DEF IdsAreKnown
  <2>5. req[s].op = "update_member_role" => req[s].target # creator[req[s].ws]
    BY <2>1 DEF IdsAreKnown
  <2> QED BY <1>9, <2>1, <2>2, <2>3, <2>4, <2>5
<1> QED BY <1>8, <1>12 DEF IdsAreKnown

-----------------------------------------------------------------------------
(* The owner.                                                              *)

\* No commit gives or takes the OWNER role except with the workspace itself.
LEMMA OwnerIsCreatorCommit ==
  ASSUME TypeOK, WritesAreReady, IdsAreKnown, OwnerIsCreator, ConstantsAssumption,
         NEW r \in Requests, Commit(r)
  PROVE  OwnerIsCreator'
<1> DEFINE p == req[r]
<1>1. /\ p.pc = "commit"
      /\ \A w \in Workspaces :
           creator'[w] = IF p.op = "create_workspace" /\ w = p.ws THEN p.actor ELSE creator[w]
      /\ \A w \in Workspaces, u \in Users : role'[w][u] = RoleAfter(p, w, u)
  BY CommitEffect
<1>2. /\ p.ws \in Workspaces /\ p.actor \in Users /\ p.op \in Endpoints
      /\ p.op \in MemberEndpoints => p.target \in Users
      /\ p.op \in {"add_member", "update_member_role"} => p.value \in AssignableRoles
  BY <1>1 DEF TypeOK, Handled, ValuesOf
<1> SUFFICES ASSUME NEW w \in Workspaces, NEW u \in Users
             PROVE  RoleAfter(p, w, u) = "OWNER" <=> creator'[w] = u
  BY <1>1 DEF OwnerIsCreator
<1>3. role[w][u] = "OWNER" <=> creator[w] = u
  BY DEF OwnerIsCreator
<1>4. CASE w # p.ws \/ p.op \notin MemberEndpoints \cup {"create_workspace"}
  BY <1>1, <1>3, <1>4 DEF RoleAfter, MemberEndpoints
<1>5. CASE w = p.ws /\ p.op = "create_workspace"
  <2>1. role[w][u] = NoRole
    BY <1>1, <1>5 DEF IdsAreKnown
  <2> QED BY <1>1, <1>2, <1>5, <2>1 DEF RoleAfter, NoRole
<1>6. CASE w = p.ws /\ p.op \in MemberEndpoints
  <2>1. creator'[w] = creator[w]
    BY <1>1, <1>6 DEF MemberEndpoints
  <2>2. CASE u # p.target
    BY <1>3, <1>6, <2>1, <2>2 DEF RoleAfter, MemberEndpoints
  <2>3. CASE u = p.target
    <3>1. role[w][u] # "OWNER"
      BY <1>1, <1>6, <2>3 DEF WritesAreReady, MemberEndpoints, AssignableRoles, NoRole
    <3>2. RoleAfter(p, w, u) # "OWNER"
      BY <1>2, <1>6, <2>3 DEF RoleAfter, MemberEndpoints, AssignableRoles, NoRole
    <3> QED BY <1>3, <2>1, <3>1, <3>2
  <2> QED BY <2>2, <2>3
<1> QED BY <1>4, <1>5, <1>6

-----------------------------------------------------------------------------
(* The inductive invariant.                                                *)

IInv ==
  /\ TypeOK
  /\ LocksExclude
  /\ WritesAreReady
  /\ IdsAreKnown
  /\ OwnerIsCreator

\* The empty tables satisfy the inductive invariant.
LEMMA InitIInv ==
  ASSUME ConstantsAssumption, Init
  PROVE  IInv
<1>1. \A r \in Requests : req[r] = Idle("NONE")
  BY DEF Init
<1>2. Idle("NONE") \in RequestStates /\ Handled(Idle("NONE"))
  BY IdleTyped DEF Replies
<1>3. TypeOK
  <2>1. creator \in [Workspaces -> Users \cup {NoUser}]
    BY DEF Init
  <2>2. role \in [Workspaces -> [Users -> RolesOrNone]]
    BY DEF Init, RolesOrNone
  <2>3. task \in [Tasks -> TaskRows]
    BY DEF Init, TaskRows
  <2>4. req \in [Requests -> RequestStates] /\ \A r \in Requests : Handled(req[r])
    BY <1>2 DEF Init
  <2> QED BY <2>1, <2>2, <2>3, <2>4 DEF TypeOK
<1>4. \A r \in Requests : req[r].pc = "idle" /\ req[r].mlocks = {} /\ req[r].tlocks = {}
  BY <1>1 DEF Idle
<1>5. OwnerIsCreator /\ IdsAreKnown
  BY <1>4 DEF OwnerIsCreator, IdsAreKnown, Init, NoRole, ConstantsAssumption
<1>6. LocksExclude /\ WritesAreReady
  BY <1>4 DEF LocksExclude, WritesAreReady
<1> QED BY <1>3, <1>5, <1>6 DEF IInv

\* Every step, with its stutters, keeps the inductive invariant.
LEMMA StepIInv ==
  ASSUME ConstantsAssumption, IInv, [Next]_vars
  PROVE  IInv'
<1>1. TypeOK'
  BY TypeStep DEF IInv
<1>2. CASE UNCHANGED vars
  <2> USE <1>2 DEF vars
  <2>1. LocksExclude'
    BY DEF IInv, LocksExclude
  <2>2. WritesAreReady'
    BY DEF IInv, WritesAreReady, InWorkspace
  <2>3. IdsAreKnown' /\ OwnerIsCreator'
    BY DEF IInv, IdsAreKnown, OwnerIsCreator
  <2> QED BY <1>1, <2>1, <2>2, <2>3 DEF IInv
<1>3. ASSUME NEW r \in Requests, Commit(r)
      PROVE  IInv'
  BY <1>1, <1>3, LocksExcludeCommit, WritesAreReadyCommit, IdsAreKnownCommit,
     OwnerIsCreatorCommit DEF IInv
<1>4. ASSUME NEW r \in Requests, NEW q, Quiet(r, q)
      PROVE  IInv'
  <2>1. OwnerIsCreator'
    BY <1>4 DEF IInv, OwnerIsCreator, Quiet
  <2> QED
    BY <1>1, <1>4, <2>1, LocksExcludeQuiet, WritesAreReadyQuiet, IdsAreKnownQuiet DEF IInv
<1> QED BY <1>2, <1>3, <1>4, StepCases DEF IInv

-----------------------------------------------------------------------------
(* The theorems.                                                           *)

\* Every reachable state satisfies the inductive invariant.
THEOREM Invariance == Spec => []IInv
<1>1. Init => IInv
  BY InitIInv, ConstantsAssumption
<1>2. IInv /\ [Next]_vars => IInv'
  BY StepIInv, ConstantsAssumption
<1> QED BY <1>1, <1>2, PTL DEF Spec

\* Rows are well formed and handlers are where their code can be, for any
\* number of users, workspaces, tasks and concurrent requests.
THEOREM TypeCorrect == Spec => []TypeOK
<1>1. IInv => TypeOK
  BY DEF IInv
<1> QED BY <1>1, Invariance, PTL

\* No interleaving of joins, role changes and removals leaves a workspace
\* without its owner or with a second one; the schema (app/models.py) has no
\* constraint that would.
THEOREM OneOwner == Spec => []OwnerIsCreator
<1>1. IInv => OwnerIsCreator
  BY DEF IInv
<1> QED BY <1>1, Invariance, PTL

\* Row locks are exclusive between any requests (with_for_update).
THEOREM MutualExclusion == Spec => []LocksExclude
<1>1. IInv => LocksExclude
  BY DEF IInv
<1> QED BY <1>1, Invariance, PTL

\* What a handler has checked about the row it writes holds until its commit.
THEOREM CheckedRowsStay == Spec => []WritesAreReady
<1>1. IInv => WritesAreReady
  BY DEF IInv
<1> QED BY <1>1, Invariance, PTL

-----------------------------------------------------------------------------
(* Memberships read FOR UPDATE.                                            *)

\* A commit of one request changes no membership another has read FOR UPDATE.
LEMMA CommitKeepsLockedRole ==
  ASSUME IInv, NEW r \in Requests, Commit(r),
         NEW s \in Requests \ {r}, req[s].op \in LockingReads, NEW u \in req[s].mlocks
  PROVE  role'[req[s].ws][u] = role[req[s].ws][u]
<1> DEFINE p == req[r]  w == req[s].ws
<1>1. /\ p.pc = "commit"
      /\ \A v \in Workspaces, x \in Users : role'[v][x] = RoleAfter(p, v, x)
  BY CommitEffect DEF IInv
<1>2. /\ p \in RequestStates /\ Handled(p)
      /\ req[s] \in RequestStates /\ Handled(req[s])
  BY DEF IInv, TypeOK
<1>3. req[s].pc # "idle"
  BY <1>2 DEF Handled, Idle
<1>4. u \in Users /\ w \in Workspaces
  <2>1. u \in Users
    BY <1>2 DEF RequestStates
  <2>2. w \in Workspaces
    BY <1>2, <1>3 DEF Handled
  <2> QED BY <2>1, <2>2
<1>5. ASSUME w = p.ws
      PROVE  p.op # "create_workspace"
  BY <1>1, <1>3, <1>5 DEF IInv, IdsAreKnown, LockingReads
<1>6. ASSUME w = p.ws, u = p.target
      PROVE  p.op \notin {"add_member", "update_member_role", "remove_member"}
  <2>1. SUFFICES ASSUME p.op \in {"add_member", "update_member_role", "remove_member"}
                 PROVE  FALSE
    OBVIOUS
  <2>2. u \in p.mlocks
    BY <1>1, <1>2, <1>6, <2>1 DEF Handled, Wanted
  <2>3. role[w][u] = NoRole /\ p.op # "add_member"
    <3>1. u \in req[r].mlocks \cap req[s].mlocks /\ r # s /\ req[r].ws = req[s].ws
      BY <1>6, <2>2
    <3>2. role[req[r].ws][u] = NoRole /\ "add_member" \notin {req[r].op, req[s].op}
      BY <3>1 DEF IInv, LocksExclude
    <3> QED BY <1>6, <3>2
  <2>4. role[p.ws][p.target] \in AssignableRoles
    BY <1>1, <2>1, <2>3 DEF IInv, WritesAreReady
  <2> QED BY <1>6, <2>3, <2>4 DEF AssignableRoles, NoRole
<1>7. role'[w][u] = RoleAfter(p, w, u)
  BY <1>1, <1>4
<1> QED BY <1>5, <1>6, <1>7 DEF RoleAfter

\* A quiet step keeps what was read FOR UPDATE, and reads the table as it is.
LEMMA LockedReadsHoldQuiet ==
  ASSUME IInv, TypeOK', LockedReadsHold, NEW r \in Requests, NEW q, Quiet(r, q)
  PROVE  LockedReadsHold'
<1> DEFINE p == req[r]
<1>1. \A s \in Requests : req'[s] = IF s = r THEN q ELSE req[s]
  BY DEF Quiet, IInv, TypeOK
<1>2. UNCHANGED role
  BY DEF Quiet
<1>3. ASSUME q.op \in LockingReads, NEW u \in q.mlocks
      PROVE  q.seen[u] = role[q.ws][u]
  <2>1. Locked(r, q) /\ q.op = p.op /\ q.ws = p.ws /\ p.pc # "idle"
    BY <1>3 DEF Quiet, Began, Locked, Idle
  <2>2. u \in Users
    BY <1>1, <1>3 DEF TypeOK, RequestStates
  <2>3. q.seen[u] = IF u \in q.mlocks \ p.mlocks THEN role[q.ws][u] ELSE p.seen[u]
    BY <1>3, <2>1, <2>2 DEF Locked, Idle
  <2>4. u \in p.mlocks => p.seen[u] = role[p.ws][u]
    BY <1>3, <2>1 DEF LockedReadsHold
  <2> QED BY <1>3, <2>1, <2>3, <2>4
<1> QED BY <1>1, <1>2, <1>3 DEF LockedReadsHold

\* A commit keeps what other requests have read FOR UPDATE.
LEMMA LockedReadsHoldCommit ==
  ASSUME IInv, LockedReadsHold, NEW r \in Requests, Commit(r)
  PROVE  LockedReadsHold'
<1>1. PICK reply \in Replies : req' = [req EXCEPT ![r] = Idle(reply)]
  BY CommitEffect DEF IInv
<1>2. \A s \in Requests : req'[s] = IF s = r THEN Idle(reply) ELSE req[s]
  BY <1>1 DEF IInv, TypeOK
<1>3. \A s \in Requests \ {r} : req[s].op \in LockingReads =>
        \A u \in req[s].mlocks : req[s].seen[u] = role'[req[s].ws][u]
  BY CommitKeepsLockedRole DEF LockedReadsHold
<1> QED BY <1>2, <1>3 DEF LockedReadsHold, Idle

-----------------------------------------------------------------------------
(* Task rows read FOR UPDATE.                                              *)

\* A commit changes no live task but those it holds.
LEMMA CommitKeepsTask ==
  ASSUME IInv, NEW r \in Requests, Commit(r),
         NEW t \in Tasks, t \notin req[r].tlocks, task[t].phase = "live"
  PROVE  task'[t] = task[t]
<1> DEFINE p == req[r]
<1>1. p.pc = "commit" /\ Handled(p)
  BY CommitEffect DEF IInv, TypeOK
<1>2. p.op \in TaskLocking => t # p.task
  BY <1>1 DEF Handled
<1>3. p.op = "create_task" => t # p.task
  BY <1>1 DEF IInv, WritesAreReady
<1> USE DEF Committed, IInv, TypeOK
<1>4. CASE CommitCreateWorkspace(r)
  BY <1>4 DEF CommitCreateWorkspace
<1>5. CASE CommitCreateTask(r)
  BY <1>3, <1>5 DEF CommitCreateTask
<1>6. CASE CommitUpdateTask(r)
  BY <1>2, <1>6 DEF CommitUpdateTask, TaskLocking
<1>7. CASE CommitDeleteTask(r)
  BY <1>2, <1>7 DEF CommitDeleteTask, TaskLocking
<1>8. CASE CommitUpdateTaskStatus(r)
  BY <1>2, <1>8 DEF CommitUpdateTaskStatus, TaskLocking
<1>9. CASE CommitUpdateTaskAssignee(r)
  BY <1>2, <1>9 DEF CommitUpdateTaskAssignee, TaskLocking
<1>10. CASE CommitAddMember(r)
  BY <1>10 DEF CommitAddMember
<1>11. CASE CommitUpdateMemberRole(r)
  BY <1>11 DEF CommitUpdateMemberRole
<1>12. CASE CommitRemoveMember(r)
  BY <1>1, <1>12 DEF CommitRemoveMember, Handled
<1> QED
  BY <1>4, <1>5, <1>6, <1>7, <1>8, <1>9, <1>10, <1>11, <1>12 DEF Commit

\* What a request that is ready to write its task has found there still holds.
ChecksHold ==
  \A r \in Requests :
    (req[r].pc = "commit" /\ req[r].op \in TaskLocking) => TaskCheck(req[r]) = Proceed

\* A quiet step makes a request ready only if its check succeeds.
LEMMA ChecksHoldQuiet ==
  ASSUME IInv, ChecksHold, NEW r \in Requests, NEW q, Quiet(r, q)
  PROVE  ChecksHold'
<1>1. \A s \in Requests : req'[s] = IF s = r THEN q ELSE req[s]
  BY DEF Quiet, IInv, TypeOK
<1>2. UNCHANGED task
  BY DEF Quiet
<1>3. (q.pc = "commit" /\ q.op \in TaskLocking) => TaskCheck(q) = Proceed
  BY DEF Quiet, Began, Locked, Idle, TaskLocking
<1>5. ASSUME NEW s \in Requests, req'[s].pc = "commit", req'[s].op \in TaskLocking
      PROVE  TaskCheck(req[s])' = Proceed
  <2>1. CASE s = r
    <3>1. req'[s] = q
      BY <1>1, <2>1
    <3>2. TaskCheck(q) = Proceed
      BY <1>3, <1>5, <3>1
    <3> QED
      BY <1>2, <3>1, <3>2 DEF TaskCheck, InWorkspace, StatusCheck, AssigneeCheck,
        ManagerAssignCheck, ClaimCheck, ReleaseCheck, NotDone
  <2>2. CASE s # r
    <3>1. req'[s] = req[s]
      BY <1>1, <2>2
    <3>2. TaskCheck(req[s]) = Proceed
      BY <1>5, <3>1 DEF ChecksHold
    <3> QED
      BY <1>2, <3>1, <3>2 DEF TaskCheck, InWorkspace, StatusCheck, AssigneeCheck,
        ManagerAssignCheck, ClaimCheck, ReleaseCheck, NotDone
  <2> QED BY <2>1, <2>2
<1> QED BY <1>5 DEF ChecksHold

\* A commit leaves alone the row another request holds and has checked.
LEMMA ChecksHoldCommit ==
  ASSUME IInv, ChecksHold, NEW r \in Requests, Commit(r)
  PROVE  ChecksHold'
<1>1. PICK reply \in Replies : req' = [req EXCEPT ![r] = Idle(reply)]
  BY CommitEffect DEF IInv
<1>2. \A s \in Requests : req'[s] = IF s = r THEN Idle(reply) ELSE req[s]
  BY <1>1 DEF IInv, TypeOK
<1>3. ASSUME NEW s \in Requests, req'[s].pc = "commit", req'[s].op \in TaskLocking
      PROVE  TaskCheck(req[s])' = Proceed
  <2>1. s # r /\ req'[s] = req[s]
    BY <1>2, <1>3 DEF Idle
  <2>2. TaskCheck(req[s]) = Proceed
    BY <1>3, <2>1 DEF ChecksHold
  <2>3. req[s].tlocks = {req[s].task} /\ req[s].task \in Tasks
    BY <1>3, <2>1 DEF IInv, TypeOK, Handled, TaskEndpoints
  <2>4. task[req[s].task].phase = "live"
    BY <1>3, <2>1 DEF IInv, WritesAreReady, InWorkspace
  <2>5. req[s].task \notin req[r].tlocks
    BY <2>1, <2>3 DEF IInv, LocksExclude
  <2>6. task'[req[s].task] = task[req[s].task]
    BY <2>3, <2>4, <2>5, CommitKeepsTask
  <2> QED
    BY <2>1, <2>2, <2>6 DEF TaskCheck, InWorkspace, StatusCheck, AssigneeCheck,
      ManagerAssignCheck, ClaimCheck, ReleaseCheck, NotDone
<1> QED BY <1>3 DEF ChecksHold
-----------------------------------------------------------------------------
(* Who removes whom.                                                       *)

\* A removal that took its actor for the OWNER is the creator's, and one that
\* may go on removes a MEMBER, or an ADMIN for the creator.
RankHolds ==
  \A r \in Requests :
    req[r].op = "remove_member" =>
      /\ req[r].seen[req[r].actor] = "OWNER" => req[r].actor = creator[req[r].ws]
      /\ req[r].pc \in {"task", "commit"} =>
           \/ role[req[r].ws][req[r].target] = "MEMBER"
           \/ /\ role[req[r].ws][req[r].target] = "ADMIN"
              /\ req[r].actor = creator[req[r].ws]

\* A quiet step checks the ranks it goes on with.
LEMMA RankHoldsQuiet ==
  ASSUME IInv, TypeOK', RankHolds, NEW r \in Requests, NEW q, Quiet(r, q)
  PROVE  RankHolds'
<1> DEFINE p == req[r]
<1>1. \A s \in Requests : req'[s] = IF s = r THEN q ELSE req[s]
  BY DEF Quiet, IInv, TypeOK
<1>2. UNCHANGED <<creator, role>>
  BY DEF Quiet
<1>3. SUFFICES ASSUME q.op = "remove_member"
               PROVE  /\ q.seen[q.actor] = "OWNER" => q.actor = creator[q.ws]
                      /\ q.pc \in {"task", "commit"} =>
                           \/ role[q.ws][q.target] = "MEMBER"
                           \/ role[q.ws][q.target] = "ADMIN" /\ q.actor = creator[q.ws]
  BY <1>1, <1>2 DEF RankHolds
<1>4. q.pc # "idle" /\ q.actor \in Users /\ q.ws \in Workspaces /\ q.target \in Users
  <2>1. Handled(q)
    BY <1>1 DEF TypeOK
  <2>2. q.pc # "idle"
    BY <1>3, <2>1 DEF Handled, Idle
  <2> QED BY <1>3, <2>1, <2>2 DEF Handled, MemberEndpoints
<1>5. \A u \in Users : role[q.ws][u] = "OWNER" => u = creator[q.ws]
  BY <1>4 DEF IInv, OwnerIsCreator
<1>6. CASE p.pc = "idle"
  <2>1. PICK w \in Workspaces : Began(r, q, w)
    BY <1>6 DEF Quiet
  <2>2. q.ws = w /\ q.seen[q.actor] = role[w][q.actor] /\ q.pc \notin {"task", "commit"}
    BY <1>3, <1>4, <2>1 DEF Began, Idle
  <2> QED BY <1>4, <1>5, <2>2
<1>7. CASE p.pc # "idle"
  <2>1. /\ Locked(r, q)
        /\ q.op = p.op /\ q.ws = p.ws /\ q.actor = p.actor /\ q.target = p.target
    BY <1>4, <1>7 DEF Quiet, Locked, Idle
  <2>2. q.seen[q.actor] \in {role[q.ws][q.actor], p.seen[q.actor]}
    BY <1>4, <2>1 DEF Locked, Idle
  <2>3. q.seen[q.actor] = "OWNER" => q.actor = creator[q.ws]
    BY <1>3, <1>4, <1>5, <2>1, <2>2 DEF RankHolds
  <2>4. CASE p.pc \in {"task", "commit"}
    BY <1>3, <2>1, <2>3, <2>4 DEF RankHolds
  <2>5. CASE p.pc \notin {"task", "commit"} /\ q.pc \in {"task", "commit"}
    <3>1. p.pc = "members"
      BY <1>7, <2>5 DEF IInv, TypeOK, RequestStates, PC
    <3>2. q.target \in q.mlocks \ p.mlocks /\ CanRemoveMember(q.seen[q.actor], q.seen[q.target])
      BY <1>3, <1>4, <2>1, <2>5, <3>1 DEF Locked, Idle
    <3>3. q.seen[q.target] = role[q.ws][q.target]
      BY <1>3, <1>4, <2>1, <3>2 DEF Locked, Idle, LockingReads
    <3> QED BY <2>3, <3>2, <3>3 DEF CanRemoveMember, AssignableRoles
  <2> QED BY <2>3, <2>4, <2>5
<1> QED BY <1>6, <1>7

\* A commit changes neither the creator nor the held target of another's removal.
LEMMA RankHoldsCommit ==
  ASSUME IInv, RankHolds, NEW r \in Requests, Commit(r)
  PROVE  RankHolds'
<1> DEFINE p == req[r]
<1>1. PICK reply \in Replies : req' = [req EXCEPT ![r] = Idle(reply)]
  BY CommitEffect DEF IInv
<1>2. \A s \in Requests : req'[s] = IF s = r THEN Idle(reply) ELSE req[s]
  BY <1>1 DEF IInv, TypeOK
<1>3. ASSUME NEW s \in Requests \ {r}, req[s].op = "remove_member"
      PROVE  /\ creator'[req[s].ws] = creator[req[s].ws]
             /\ req[s].pc \in {"task", "commit"} =>
                  role'[req[s].ws][req[s].target] = role[req[s].ws][req[s].target]
  <2>0. Handled(req[s])
    BY DEF IInv, TypeOK
  <2>1. Handled(req[s]) /\ req[s].pc # "idle"
    BY <1>3, <2>0 DEF Handled, Idle
  <2>2. req[s].ws \in Workspaces
    BY <2>1 DEF Handled
  <2>3. p.pc = "commit" /\ \A w \in Workspaces :
          creator'[w] = IF p.op = "create_workspace" /\ w = p.ws THEN p.actor ELSE creator[w]
    BY CommitEffect DEF IInv
  <2>4. ~(p.op = "create_workspace" /\ req[s].ws = p.ws)
    BY <1>3, <2>1, <2>3 DEF IInv, IdsAreKnown
  <2>5. req[s].pc \in {"task", "commit"} => req[s].target \in req[s].mlocks
    BY <1>3, <2>1 DEF Handled, Wanted
  <2>6. req[s].op \in LockingReads
    BY <1>3 DEF LockingReads
  <2> QED BY <2>2, <2>3, <2>4, <2>5, <2>6, CommitKeepsLockedRole
<1> QED BY <1>2, <1>3 DEF RankHolds, Idle

-----------------------------------------------------------------------------
(* The invariant.                                                          *)

Current == LockedReadsHold /\ ChecksHold /\ RankHolds

\* In the initial state nothing is read yet.
LEMMA InitCurrent ==
  ASSUME Init
  PROVE  Current
BY DEF Init, Idle, Current, LockedReadsHold, ChecksHold, RankHolds

\* Every step keeps it, given what TaskTransactionsProofs says of the rows.
LEMMA StepCurrent ==
  ASSUME ConstantsAssumption, IInv, Current, [Next]_vars
  PROVE  Current'
<1>1. TypeOK'
  BY StepIInv DEF IInv
<1>2. CASE UNCHANGED vars
  <2> USE <1>2 DEF vars
  <2>1. LockedReadsHold'
    BY DEF Current, LockedReadsHold
  <2>2. ChecksHold'
    BY DEF Current, ChecksHold, TaskCheck, InWorkspace, StatusCheck, AssigneeCheck,
      ManagerAssignCheck, ClaimCheck, ReleaseCheck, NotDone
  <2>3. RankHolds'
    BY DEF Current, RankHolds
  <2> QED BY <2>1, <2>2, <2>3 DEF Current
<1>3. ASSUME NEW r \in Requests, Commit(r)
      PROVE  Current'
  BY <1>3, LockedReadsHoldCommit, ChecksHoldCommit, RankHoldsCommit DEF Current
<1>4. ASSUME NEW r \in Requests, NEW q, Quiet(r, q)
      PROVE  Current'
  BY <1>1, <1>4, LockedReadsHoldQuiet, ChecksHoldQuiet, RankHoldsQuiet DEF Current
<1> QED BY <1>2, <1>3, <1>4, StepCases DEF IInv

\* Every reachable state satisfies both invariants.
THEOREM CurrentInvariance == Spec => [](IInv /\ Current)
<1>1. Init => Current
  BY InitCurrent
<1>2. IInv /\ Current /\ [Next]_vars => Current'
  BY StepCurrent, ConstantsAssumption
<1> QED BY <1>1, <1>2, Invariance, PTL DEF Spec

\* The membership a workflow request or a removal has read FOR UPDATE
\* (populate_existing) is what the table says until the request ends.
THEOREM ReadsHold == Spec => []LockedReadsHold
<1>1. IInv /\ Current => LockedReadsHold
  BY DEF Current
<1> QED BY <1>1, CurrentInvariance, PTL

\* What a status change or an assignment decided with the role it had read is
\* decided with the role and the row of the moment it commits.
LEMMA CommitChecks ==
  ASSUME IInv, Current, NEW r \in Requests, req[r].pc = "commit",
         req[r].op \in {"update_task_status", "update_task_assignee"}
  PROVE  /\ InWorkspace(req[r].task, req[r].ws)
         /\ TaskCheck(req[r]) = Proceed
         /\ req[r].seen[req[r].actor] = ActorRole(r)
         /\ req[r].target # NoUser /\ req[r].op = "update_task_assignee" =>
              req[r].seen[req[r].target] = role[req[r].ws][req[r].target]
<1>1. req[r].op \in TaskLocking /\ req[r].op \in LockingReads
  BY DEF TaskLocking, LockingReads
<1>2. req[r].mlocks = Wanted(req[r]) /\ req[r].actor \in Users
  BY DEF IInv, TypeOK, Handled
<1>3. req[r].actor \in req[r].mlocks
  BY <1>2, ConstantsAssumption DEF Wanted, ConstantsAssumption
<1>4. (req[r].target # NoUser /\ req[r].op = "update_task_assignee") => req[r].target \in req[r].mlocks
  BY <1>2 DEF Wanted
<1>5. \A u \in req[r].mlocks : req[r].seen[u] = role[req[r].ws][u]
  BY <1>1 DEF Current, LockedReadsHold
<1>6. InWorkspace(req[r].task, req[r].ws)
  BY <1>1 DEF IInv, WritesAreReady
<1>7. TaskCheck(req[r]) = Proceed
  BY <1>1 DEF Current, ChecksHold
<1> QED BY <1>3, <1>4, <1>5, <1>6, <1>7 DEF ActorRole

\* A status change that is about to commit is allowed by the role and the row as
\* they are (update_task_status).
LEMMA CommitStatusChange ==
  ASSUME IInv, Current, NEW r \in Requests,
         req[r].op = "update_task_status", req[r].pc = "commit"
  PROVE  /\ InWorkspace(req[r].task, req[r].ws)
         /\ CanChangeTaskStatus(ActorRole(r), req[r].actor, Target(r).assignee)
         /\ IsValidStatusTransition(ActorRole(r), Target(r).status, req[r].value)
<1>1. /\ InWorkspace(req[r].task, req[r].ws) /\ TaskCheck(req[r]) = Proceed
      /\ req[r].seen[req[r].actor] = ActorRole(r)
  BY CommitChecks
<1>2. StatusCheck(req[r], Target(r)) = Proceed
  BY <1>1 DEF TaskCheck, Then, Check, Target
<1> QED BY <1>1, <1>2 DEF StatusCheck, Then, Check, Proceed

\* A status change is allowed by the actor's role and the task's assignee and
\* status of the moment it commits, although both were first read by the
\* dependencies (update_task_status).
THEOREM StatusChangesAreCurrent == Spec => []StatusChangeIsCurrent
<1>1. IInv /\ Current => StatusChangeIsCurrent
  BY CommitStatusChange DEF StatusChangeIsCurrent
<1> QED BY <1>1, CurrentInvariance, PTL

\* An assignment that is about to commit is allowed by the roles and the row as
\* they are (update_task_assignee).
LEMMA CommitAssignment ==
  ASSUME IInv, Current, NEW r \in Requests,
         req[r].op = "update_task_assignee", req[r].pc = "commit"
  PROVE  /\ InWorkspace(req[r].task, req[r].ws)
         /\ Target(r).status # "DONE"
         /\ req[r].target # NoUser => role[req[r].ws][req[r].target] # NoRole
         /\ \/ CanChangeTaskAssignee(ActorRole(r))
            \/ CanSelfClaimTask(ActorRole(r), req[r].actor, Target(r).assignee, req[r].target)
            \/ CanSelfReleaseTask(ActorRole(r), req[r].actor, Target(r).assignee, req[r].target)
<1> DEFINE q == req[r]  row == Target(r)
<1>2. /\ InWorkspace(q.task, q.ws) /\ TaskCheck(q) = Proceed
      /\ q.seen[q.actor] = ActorRole(r)
      /\ q.target # NoUser => q.seen[q.target] = role[q.ws][q.target]
  BY CommitChecks
<1>3. AssigneeCheck(q, row) = Proceed
  BY <1>2 DEF TaskCheck, Then, Check, Target
<1>4. row.status # "DONE"
  BY <1>3 DEF AssigneeCheck, NotDone, Then, Check, Proceed
<1>5. CASE CanChangeTaskAssignee(ActorRole(r))
  <2>1. ManagerAssignCheck(q, row) = Proceed
    BY <1>2, <1>3, <1>5 DEF AssigneeCheck, Then
  <2>2. q.target = NoUser \/ q.seen[q.target] # NoRole
    BY <2>1 DEF ManagerAssignCheck, Then, Check, Proceed
  <2> QED BY <1>2, <1>4, <1>5, <2>2
<1>6. CASE ~CanChangeTaskAssignee(ActorRole(r)) /\ q.target = q.actor
  <2>1. ClaimCheck(q, row) = Proceed
    BY <1>2, <1>3, <1>6 DEF AssigneeCheck, Then
  <2>2. CanSelfClaimTask(ActorRole(r), q.actor, row.assignee, q.target)
    BY <1>2, <2>1 DEF ClaimCheck, Then, Check, Proceed
  <2>3. ActorRole(r) # NoRole
    BY <2>2 DEF CanSelfClaimTask, NoRole
  <2> QED BY <1>2, <1>4, <1>6, <2>2, <2>3 DEF ActorRole
<1>7. CASE ~CanChangeTaskAssignee(ActorRole(r)) /\ q.target # q.actor
  <2>1. ReleaseCheck(q, row) = Proceed
    BY <1>2, <1>3, <1>7 DEF AssigneeCheck, Then
  <2>2. CanSelfReleaseTask(ActorRole(r), q.actor, row.assignee, q.target)
    BY <1>2, <2>1 DEF ReleaseCheck, Then, Check, Proceed
  <2>3. q.target = NoUser
    BY <2>2 DEF CanSelfReleaseTask
  <2> QED BY <1>2, <1>4, <2>2, <2>3
<1> QED BY <1>5, <1>6, <1>7

\* Only unfinished tasks are assigned, only to users who are members when the
\* assignment commits, and a MEMBER takes only what is free and gives back only
\* what is its own (update_task_assignee).
THEOREM AssignmentsAreCurrent == Spec => []AssignmentIsCurrent
<1>1. IInv /\ Current => AssignmentIsCurrent
  BY CommitAssignment DEF AssignmentIsCurrent, CanChangeTaskAssignee, CanSelfClaimTask,
    CanSelfReleaseTask
<1> QED BY <1>1, CurrentInvariance, PTL

\* An ADMIN never removes an ADMIN: who is not the creator removes only those who
\* are MEMBER when the removal commits (remove_member).
THEOREM RemovalsRespectRank == Spec => []RemovalRespectsRank
<1>1. IInv /\ Current => RemovalRespectsRank
  BY DEF Current, RankHolds, RemovalRespectsRank
<1> QED BY <1>1, CurrentInvariance, PTL

=============================================================================
