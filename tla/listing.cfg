CONSTANTS
  Users = {1, 2}
  Workspaces = {1, 2}
  Tasks = {1, 2, 3}
  Priorities = {1, 2}
  Stamps = {1, 2}
  Limits = {1, 2}
  Queries <- SomeQueries
  MaxWrites = 2
SPECIFICATION PopulatedSpec
INVARIANTS PageFitsTotal AdditionsHideNone DeparturesRepeatNone
CHECK_DEADLOCK FALSE
