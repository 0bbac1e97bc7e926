CONSTANTS
  Users = {1, 2, 3}
  Workspaces = {1}
  Tasks = {1}
  Contents = {"c"}
  Requests = {r1, r2}
  Operations = {"update_task_assignee", "remove_member"}
SPECIFICATION FreeTasksFairSpec
PROPERTIES EveryRequestIsAnswered
