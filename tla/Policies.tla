------------------------------ MODULE Policies ------------------------------
(***************************************************************************)
(* The pure authorization predicates of app/policies.py, over the roles    *)
(* and statuses of app/enums.py.  They read no database: whoever calls     *)
(* them supplies the role, the creator, the assignee and the status, and   *)
(* it is the caller's business whether those facts are still current.      *)
(*                                                                         *)
(* An operator whose name ends in "Slip" is a plausible mistake in the     *)
(* definition that follows it.  No definition uses one: they show that the *)
(* checked properties would notice the mistake.                            *)
(***************************************************************************)
EXTENDS Naturals

Roles == {"OWNER", "ADMIN", "MEMBER"}
Statuses == {"TODO", "IN_PROGRESS", "DONE"}

\* "NONE" stands for "no workspace_members row", NoUser for a NULL user id.
NoRole == "NONE"
RolesOrNone == Roles \cup {NoRole}
NoUser == 0

Managers == {"OWNER", "ADMIN"}

\* The roles a request may ask for (AssignableMemberRole in app/schemas.py).
AssignableRoles == {"ADMIN", "MEMBER"}

CanAddMemberSlip(actorRole, requested) ==
  /\ actorRole \in Managers
  /\ requested \in AssignableRoles

CanAddMember(actorRole, requested) ==
  \/ actorRole = "OWNER" /\ requested \in AssignableRoles
  \/ actorRole = "ADMIN" /\ requested = "MEMBER"

CanUpdateMemberRole(actorRole, targetRole, requested) ==
  /\ actorRole = "OWNER"
  /\ targetRole # "OWNER"
  /\ requested \in AssignableRoles

CanRemoveMember(actorRole, targetRole) ==
  \/ actorRole = "OWNER" /\ targetRole \in AssignableRoles
  \/ actorRole = "ADMIN" /\ targetRole = "MEMBER"

\* can_delete_task is can_edit_task.
CanEditTask(actorRole, actor, creator) ==
  actorRole \in Managers \/ actor = creator

CanChangeTaskStatus(actorRole, actor, assignee) ==
  \/ actorRole \in Managers
  \/ actorRole = "MEMBER" /\ assignee = actor

IsValidStatusTransition(actorRole, current, requested) ==
  \/ current = requested
  \/ actorRole \in Managers
  \/ <<current, requested>> \in {<<"TODO", "IN_PROGRESS">>, <<"IN_PROGRESS", "DONE">>}

CanChangeTaskAssignee(actorRole) == actorRole \in Managers

CanSelfClaimTask(actorRole, actor, assignee, requested) ==
  /\ actorRole = "MEMBER"
  /\ requested = actor
  /\ assignee = NoUser

CanSelfReleaseTask(actorRole, actor, assignee, requested) ==
  /\ actorRole = "MEMBER"
  /\ requested = NoUser
  /\ assignee = actor
=============================================================================
