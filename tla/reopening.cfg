CONSTANTS
  Users = {1, 2, 3}
  Workspaces = {1}
  Tasks = {1}
  Contents = {"c"}
  Requests = {r1}
  Operations = {"update_task_status", "update_task_assignee", "remove_member"}
SPECIFICATION FreeTasksSpec
INVARIANTS UnfinishedAssigneeIsMember
