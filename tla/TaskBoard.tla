------------------------------ MODULE TaskBoard ------------------------------
(***************************************************************************)
(* What the platform promises about its tables, with every write request   *)
(* one atomic step: the contract that README.md and docs/architecture.md   *)
(* give for workspaces, memberships and tasks.  TaskTransactions, where    *)
(* requests interleave, implements it.                                     *)
(*                                                                         *)
(* A step that changes a task's status or assignee is authorized by the    *)
(* roles and the row of the very state it starts in.  The other steps are  *)
(* authorized by roles the request read earlier ("in-flight requests" in   *)
(* docs/architecture.md), so the contract only says what they may do to    *)
(* the tables, not what the caller's role still is.                        *)
(***************************************************************************)
EXTENDS Policies

CONSTANTS Users, Workspaces, Tasks, Contents

VARIABLES creator, role, task

vars == <<creator, role, task>>

EmptyRow(phase) ==
  [phase |-> phase, ws |-> 0, creator |-> NoUser,
   assignee |-> NoUser, status |-> "TODO", content |-> "none"]

Init ==
  /\ creator = [w \in Workspaces |-> NoUser]
  /\ role = [w \in Workspaces |-> [u \in Users |-> NoRole]]
  /\ task = [t \in Tasks |-> EmptyRow("unused")]

Live(t) == task[t].phase = "live"
IsMember(w, u) == role[w][u] # NoRole

\* A workspace comes into being together with its owner.
CreateWorkspace(w, a) ==
  /\ creator[w] = NoUser
  /\ creator' = [creator EXCEPT ![w] = a]
  /\ role' = [role EXCEPT ![w] = [u \in Users |-> IF u = a THEN "OWNER" ELSE NoRole]]
  /\ UNCHANGED task

\* Members join and leave, the owner stays.
AddMember(w, u, newRole) ==
  /\ creator[w] # NoUser
  /\ ~IsMember(w, u)
  /\ role' = [role EXCEPT ![w][u] = newRole]
  /\ UNCHANGED <<creator, task>>

UpdateMemberRole(w, u, newRole) ==
  /\ role[w][u] \in AssignableRoles
  /\ role' = [role EXCEPT ![w][u] = newRole]
  /\ UNCHANGED <<creator, task>>

\* Leaving hands back exactly the member's unfinished tasks of this workspace.
RemoveMember(w, u) ==
  /\ role[w][u] \in AssignableRoles
  /\ role' = [role EXCEPT ![w][u] = NoRole]
  /\ task' = [t \in Tasks |->
                IF /\ Live(t) /\ task[t].ws = w
                   /\ task[t].assignee = u /\ task[t].status # "DONE"
                THEN [task[t] EXCEPT !.assignee = NoUser]
                ELSE task[t]]
  /\ UNCHANGED creator

CreateTask(t, w, a, c) ==
  /\ task[t].phase = "unused"
  /\ creator[w] # NoUser
  /\ task' = [task EXCEPT ![t] =
                [phase |-> "live", ws |-> w, creator |-> a,
                 assignee |-> NoUser, status |-> "TODO", content |-> c]]
  /\ UNCHANGED <<creator, role>>

UpdateTask(t, c) ==
  /\ Live(t)
  /\ task' = [task EXCEPT ![t].content = c]
  /\ UNCHANGED <<creator, role>>

DeleteTask(t) ==
  /\ Live(t)
  /\ task' = [task EXCEPT ![t] = EmptyRow("deleted")]
  /\ UNCHANGED <<creator, role>>

UpdateTaskStatus(t, a, s) ==
  /\ Live(t)
  /\ CanChangeTaskStatus(role[task[t].ws][a], a, task[t].assignee)
  /\ IsValidStatusTransition(role[task[t].ws][a], task[t].status, s)
  /\ task' = [task EXCEPT ![t].status = s]
  /\ UNCHANGED <<creator, role>>

\* Only unfinished tasks are assigned, and only to members.
UpdateTaskAssignee(t, a, u) ==
  /\ Live(t)
  /\ task[t].status # "DONE"
  /\ u # NoUser => IsMember(task[t].ws, u)
  /\ \/ CanChangeTaskAssignee(role[task[t].ws][a])
     \/ CanSelfClaimTask(role[task[t].ws][a], a, task[t].assignee, u)
     \/ CanSelfReleaseTask(role[task[t].ws][a], a, task[t].assignee, u)
  /\ task' = [task EXCEPT ![t].assignee = u]
  /\ UNCHANGED <<creator, role>>

Next ==
  \/ \E w \in Workspaces, a \in Users :
       \/ CreateWorkspace(w, a)
       \/ RemoveMember(w, a)
       \/ \E newRole \in AssignableRoles :
            AddMember(w, a, newRole) \/ UpdateMemberRole(w, a, newRole)
       \/ \E t \in Tasks, c \in Contents : CreateTask(t, w, a, c)
  \/ \E t \in Tasks :
       \/ DeleteTask(t)
       \/ \E c \in Contents : UpdateTask(t, c)
       \/ \E a \in Users :
            \/ \E s \in Statuses : UpdateTaskStatus(t, a, s)
            \/ \E u \in Users \cup {NoUser} : UpdateTaskAssignee(t, a, u)

Spec == Init /\ [][Next]_vars
=============================================================================
