CONSTANTS
  Users = {1, 3}
  Workspaces = {1}
  Tasks = {1, 2}
  Contents = {"c"}
  Requests = {r1, r2, r3}
  Operations = {"update_task_assignee", "remove_member", "delete_task"}
SYMMETRY RequestSymmetry
VIEW WithoutReplies
SPECIFICATION AssignedTasksSpec
INVARIANTS NoWaitCycle
