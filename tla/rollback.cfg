CONSTANTS
  Users = {1}
  Workspaces = {1}
  Tasks = {1}
  Contents = {"valid"}
  ValidContents = {"valid"}
  MaxEdits = 3
SPECIFICATION EmptySpec
PROPERTIES DowngradesKeepUsersWork
CHECK_DEADLOCK FALSE
