CONSTANTS
  Users = {1, 3}
  Workspaces = {1}
  Tasks = {1, 2}
  Contents = {"a", "b"}
  Requests = {r1, r2}
  Operations = {"create_task", "update_task", "delete_task", "update_task_status"}
SYMMETRY RequestSymmetry
VIEW WithoutReplies
SPECIFICATION OneTaskSpec
PROPERTIES BoardSteps 
