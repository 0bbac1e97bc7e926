CONSTANTS
  Users = {1, 2}
  Workspaces = {1, 2}
  Tasks = {1}
  Contents = {"a", "b"}
  Requests = {r1}
  Operations <- AllEndpoints
SPECIFICATION Spec
INVARIANTS TypeOK
PROPERTIES BoardSpec RemovalStaysInWorkspace
