CONSTANTS
  Users = {1, 2, 3}
  Workspaces = {1}
  Tasks = {}
  Contents = {"c"}
  Requests = {r1, r2, r3}
  Operations = {"add_member", "update_member_role", "remove_member"}
SYMMETRY RequestSymmetry
VIEW WithoutReplies
SPECIFICATION FreeTasksSpec
INVARIANTS OwnerIsCreator RemovalRespectsRank LocksExclude WritesAreReady
PROPERTIES AdminMadeByOwner JoinNeverOverwrites
