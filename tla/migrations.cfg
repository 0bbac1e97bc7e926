CONSTANTS
  Users = {1, 2}
  Workspaces = {1, 2, 3}
  Tasks = {1, 2}
  Contents = {"valid", "invalid"}
  ValidContents = {"valid"}
  MaxEdits = 2
SPECIFICATION SeededSpec
INVARIANTS TypeOK NoFactLost RevisionTellsSchema RefusalsAreEarned MigratedTablesAreABoard
PROPERTIES CommandsKeepUsersWork
CHECK_DEADLOCK FALSE
