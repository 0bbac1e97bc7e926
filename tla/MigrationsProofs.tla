--------------------------- MODULE MigrationsProofs ---------------------------
(***************************************************************************)
(* No migration loses whose a task is or whether it is done: for every old *)
(* database, every sequence of upgrades, downgrades and crashes, and       *)
(* whatever the applications write in between.                             *)
(***************************************************************************)
EXTENDS Migrations, SequenceTheorems, TLAPS

Owner == Column("owner_id")
Done == Column("completed")

\* The new columns must hold the facts: from the contract on, while it runs, and
\* after it has dropped one of the old columns.
NewColumnsRule ==
  \/ revision \in {Contract, Cleanup}
  \/ revision = Backfill /\ (command.direction = "up" \/ Owner \notin schema \/ Done \notin schema)

OldFact(t) ==
  /\ Owner \in schema => legacy[t].owner = meant[t].owner
  /\ Done \in schema => legacy[t].completed = Completed(meant[t].done)

NewFact(t) ==
  /\ task[t].creator = meant[t].owner
  /\ task[t].status # Null
  /\ meant[t].done = (task[t].status = "DONE")

\* What a row says is true, where it says anything.
Truthful(t) ==
  /\ meant[t].owner # NoUser /\ meant[t].done \in BOOLEAN
  /\ task[t].creator \in {NoUser, meant[t].owner}
  /\ legacy[t].owner \in {NoUser, meant[t].owner}
  /\ legacy[t].completed \in {Null, Completed(meant[t].done)}

IsRow(row) ==
  row = [phase |-> row.phase, ws |-> row.ws, creator |-> row.creator,
         assignee |-> row.assignee, status |-> row.status, content |-> row.content]

IsLegacy(row) == row = [owner |-> row.owner, completed |-> row.completed]
IsMeaning(m) == m = [owner |-> m.owner, done |-> m.done]

Rows ==
  /\ task = [t \in Tasks |-> task[t]]
  /\ legacy = [t \in Tasks |-> legacy[t]]
  /\ meant = [t \in Tasks |-> meant[t]]
  /\ \A t \in Tasks : IsRow(task[t]) /\ IsLegacy(legacy[t]) /\ IsMeaning(meant[t])
  /\ users \subseteq Users

Facts ==
  \A t \in LiveTasks :
    /\ Truthful(t)
    /\ revision \in {Base, Expand, Backfill} => OldFact(t)
    /\ NewColumnsRule => NewFact(t)

\* A column that is not there holds nothing, and the old ones are there before
\* the contract.
Columned ==
  /\ \A t \in Tasks :
       /\ Owner \notin schema => legacy[t].owner = NoUser
       /\ Done \notin schema => legacy[t].completed = Null
  /\ revision \in {Base, Expand} => Owner \in schema /\ Done \in schema

\* The scripts that can be running, and how far the restoring one is.
Running ==
  /\ revision \in Revisions
  /\ \/ Idle
     \/ /\ command.step \in Nat \ {0}
        /\ command = [direction |-> command.direction, step |-> command.step]
        /\ \/ command.direction = "up" /\ revision \in {Base, Backfill, Contract}
           \/ command.direction = "down" /\ revision \in {Expand, Contract}
  /\ (revision = Contract /\ command.direction = "down") =>
       /\ command.step > 1 => Owner \in schema
       /\ command.step > 2 => Done \in schema
       /\ command.step > 3 =>
            \A t \in LiveTasks :
              /\ legacy[t].owner = meant[t].owner
              /\ legacy[t].completed = Completed(meant[t].done)

IInv == Rows /\ Facts /\ Columned /\ Running

\* Of any state that satisfies the invariant the property is a part.
LEMMA FactsReadable ==
  ASSUME IInv
  PROVE  NoFactLost
<1> SUFFICES ASSUME NEW t \in LiveTasks
             PROVE  /\ {legacy[t].owner, task[t].creator} \ {NoUser} = {meant[t].owner}
                    /\ legacy[t].completed # Null \/ task[t].status # Null
                    /\ meant[t].done =
                         IF legacy[t].completed # Null THEN legacy[t].completed = "true"
                         ELSE task[t].status = "DONE"
  BY DEF NoFactLost
<1>1. Truthful(t) /\ meant[t].owner # NoUser /\ meant[t].done \in BOOLEAN
  BY DEF IInv, Facts, Truthful
<1>2. legacy[t].completed \in {Null, Completed(meant[t].done)}
  BY <1>1 DEF Truthful
<1>3. CASE NewColumnsRule
  <2>1. NewFact(t)
    BY <1>3 DEF IInv, Facts
  <2> QED BY <1>1, <2>1 DEF Truthful, NewFact, Completed, Null
<1>4. CASE ~NewColumnsRule
  <2>1. revision \in {Base, Expand, Backfill} /\ Owner \in schema /\ Done \in schema
    BY <1>4 DEF NewColumnsRule, IInv, Running, Columned, Revisions, Base, Expand, Backfill,
                Contract, Cleanup
  <2>2. OldFact(t)
    BY <2>1 DEF IInv, Facts
  <2> QED BY <1>1, <2>1, <2>2 DEF Truthful, OldFact, Completed, Null
<1> QED BY <1>3, <1>4

-----------------------------------------------------------------------------
(* What the scripts are made of.                                           *)

NewColumnNames == {"workspace_id", "creator_id", "assignee_id", "status", "created_at", "updated_at"}

Names ==
  NewColumnNames \cup
    {"owner_id", "completed", "title_length", "priority", "workspace_id_id",
     "workspace_status_id", "workspace_assignee_id", "task_collaboration_user_workspace_map"}

\* A tuple of elements of a set is a sequence over it.
LEMMA Tuples ==
  ASSUME NEW S
  PROVE  /\ \A a \in S : <<a>> \in Seq(S)
         /\ \A a, b \in S : <<a, b>> \in Seq(S)
         /\ \A a, b, c \in S : <<a, b, c>> \in Seq(S)
         /\ \A a, b, c, d, e \in S : <<a, b, c, d, e>> \in Seq(S)
         /\ \A a, b, c, d, e, f \in S : <<a, b, c, d, e, f>> \in Seq(S)
OBVIOUS

\* Named objects of one kind.
LEMMA EachType ==
  ASSUME NEW kind, NEW N, NEW names \in Seq(N)
  PROVE  Each(kind, names) \in Seq({kind} \X N)
BY DEF Each

\* Reversed, it is one over the same set.
LEMMA BackwardsType ==
  ASSUME NEW S, NEW s \in Seq(S)
  PROVE  Backwards(s) \in Seq(S)
<1>1. Backwards(s) = [i \in 1..Len(s) |-> s[Len(s) + 1 - i]]
  BY DEF Backwards
<1>2. \A i \in 1..Len(s) : s[Len(s) + 1 - i] \in S
  <2> TAKE i \in 1..Len(s)
  <2>1. Len(s) + 1 - i \in 1..Len(s)
    OBVIOUS
  <2> QED BY <2>1
<1> QED BY <1>1, <1>2

\* Statements that add or drop objects.
LEMMA AddingType ==
  ASSUME NEW O, NEW objects \in Seq(O)
  PROVE  /\ Adding(objects) \in Seq([verb : {"add"}, object : O])
         /\ Dropping(objects) \in Seq([verb : {"drop"}, object : O])
         /\ Len(Adding(objects)) = Len(objects)
         /\ \A i \in 1..Len(objects) : Adding(objects)[i] = [verb |-> "add", object |-> objects[i]]
<1>1. /\ DOMAIN objects = 1..Len(objects) /\ Len(objects) \in Nat
      /\ \A i \in 1..Len(objects) : objects[i] \in O
  OBVIOUS
<1>2. /\ Adding(objects) = [i \in 1..Len(objects) |-> [verb |-> "add", object |-> objects[i]]]
      /\ Dropping(objects) = [i \in 1..Len(objects) |-> [verb |-> "drop", object |-> objects[i]]]
  BY <1>1 DEF Adding, Dropping
<1>3. Adding(objects) \in Seq([verb : {"add"}, object : O])
  BY <1>1, <1>2
<1>4. Dropping(objects) \in Seq([verb : {"drop"}, object : O])
  BY <1>1, <1>2
<1> QED BY <1>1, <1>2, <1>3, <1>4

\* Scripts are joined from parts.
LEMMA Joined ==
  ASSUME NEW S, NEW A, NEW B, A \subseteq S, B \subseteq S, NEW a \in Seq(A), NEW b \in Seq(B)
  PROVE  a \o b \in Seq(S)
<1>1. a \in Seq(S) /\ b \in Seq(S)
  OBVIOUS
<1> QED BY <1>1

\* A statement of a script is of the script's kind.
LEMMA Element ==
  ASSUME NEW S, NEW s \in Seq(S), NEW i \in 1..Len(s)
  PROVE  s[i] \in S
OBVIOUS

\* The objects of the revisions, by kind.
LEMMA ObjectTypes ==
  /\ Columns \in Seq({"column"} \X NewColumnNames)
  /\ References \in Seq({"foreign key"} \X Names)
  /\ Indexes \in Seq({"index"} \X Names)
  /\ Required \in Seq({"not null"} \X Names)
  /\ ContentChecks \in Seq({"check"} \X Names)
  /\ LegacyRequired \in Seq({"not null"} \X Names)
  /\ LegacyColumns = <<Owner, Done>>
<1>1. <<"workspace_id", "creator_id", "assignee_id", "status", "created_at", "updated_at">>
        \in Seq(NewColumnNames)
  BY Tuples DEF NewColumnNames
<1>2. <<"workspace_id", "creator_id", "assignee_id">> \in Seq(Names)
  BY Tuples DEF Names, NewColumnNames
<1>3. <<"workspace_id_id", "workspace_status_id", "workspace_assignee_id",
        "creator_id", "assignee_id">> \in Seq(Names)
  BY Tuples DEF Names, NewColumnNames
<1>4. <<"workspace_id", "creator_id", "status", "created_at", "updated_at">> \in Seq(Names)
  BY Tuples DEF Names, NewColumnNames
<1>5. <<"title_length", "priority">> \in Seq(Names) /\ <<"owner_id", "completed">> \in Seq(Names)
  BY Tuples DEF Names
<1>6. LegacyColumns = <<Owner, Done>>
  BY DEF LegacyColumns, Each, Owner, Done, Column
<1> QED
  BY <1>1, <1>2, <1>3, <1>4, <1>5, <1>6, EachType
  DEF Columns, References, Indexes, Required, ContentChecks, LegacyRequired

\* The final schema has neither of the old columns.
LEMMA FinalHasNoOldColumn ==
  Owner \notin FinalTasks /\ Done \notin FinalTasks
<1>1. ASSUME NEW S, NEW s \in Seq(S), NEW x \in Objects(s)
      PROVE  x \in S
  BY <1>1 DEF Objects
<1>2. /\ Objects(Columns) \subseteq {"column"} \X NewColumnNames
      /\ Objects(References) \subseteq {"foreign key"} \X Names
      /\ Objects(Indexes) \subseteq {"index"} \X Names
      /\ Objects(Required) \subseteq {"not null"} \X Names
      /\ Objects(ContentChecks) \subseteq {"check"} \X Names
  BY <1>1, ObjectTypes
<1>3. ASSUME NEW c \in {"owner_id", "completed"}
      PROVE  <<"column", c>> \notin FinalTasks
  <2>1. c \notin NewColumnNames
    BY <1>3 DEF NewColumnNames
  <2>2. \A kind, N : <<"column", c>> \in {kind} \X N => kind = "column" /\ c \in N
    OBVIOUS
  <2> QED BY <1>2, <2>1, <2>2 DEF FinalTasks, StatusCheck
<1> QED BY <1>3 DEF Owner, Done, Column

-----------------------------------------------------------------------------
(* What each script may do.                                                *)

\* The first revision only adds.
LEMMA ExpandUpAdds ==
  /\ Len(ExpandUp) \in Nat
  /\ \A i \in 1..Len(ExpandUp) : ExpandUp[i].verb = "add"
<1> DEFINE O == {"column", "foreign key", "check", "index", "table"} \X Names
<1>1. <<StatusCheck>> \in Seq(O) /\ <<MappingTable>> \in Seq(O)
  BY Tuples DEF StatusCheck, MappingTable, Names, NewColumnNames
<1>2. /\ {"column"} \X NewColumnNames \subseteq O
      /\ {"foreign key"} \X Names \subseteq O /\ {"index"} \X Names \subseteq O
  BY DEF Names
<1> HIDE DEF O
<1>3. Columns \o References \in Seq(O)
  BY <1>2, ObjectTypes, Joined
<1>4. Columns \o References \o <<StatusCheck>> \in Seq(O)
  BY <1>1, <1>3, Joined
<1>5. Columns \o References \o <<StatusCheck>> \o Indexes \in Seq(O)
  BY <1>2, <1>4, ObjectTypes, Joined
<1>6. Columns \o References \o <<StatusCheck>> \o Indexes \o <<MappingTable>> \in Seq(O)
  BY <1>1, <1>5, Joined
<1>7. ExpandUp \in Seq([verb : {"add"}, object : O])
  BY <1>6, AddingType DEF ExpandUp
<1>8. ASSUME NEW i \in 1..Len(ExpandUp)
      PROVE  ExpandUp[i] \in [verb : {"add"}, object : O]
  BY <1>7, Element
<1>9. Len(ExpandUp) \in Nat
  BY <1>7
<1> QED BY <1>8, <1>9

\* The old columns are not among what the first revision drops on its way back.
LEMMA ExpandDownDrops ==
  /\ Len(ExpandDown) \in Nat
  /\ \A i \in 1..Len(ExpandDown) :
       /\ ExpandDown[i].verb = "drop"
       /\ ExpandDown[i].object # Owner /\ ExpandDown[i].object # Done
       /\ ExpandDown[i].object[1] # "not null"
<1> DEFINE O == ({"table", "foreign key", "check", "index"} \X Names)
                  \cup ({"column"} \X NewColumnNames)
<1>1. StatusCheck \in O /\ MappingTable \in O
  BY DEF StatusCheck, MappingTable, Names, NewColumnNames
<1>2. /\ {"column"} \X NewColumnNames \subseteq O
      /\ {"foreign key"} \X Names \subseteq O /\ {"index"} \X Names \subseteq O
  OBVIOUS
<1>3. \A x \in O : x # Owner /\ x # Done /\ x[1] # "not null"
  <2> TAKE x \in O
  <2>3. /\ Owner[1] = "column" /\ Owner[2] = "owner_id"
        /\ Done[1] = "column" /\ Done[2] = "completed"
    BY DEF Owner, Done, Column
  <2>1. CASE x \in {"column"} \X NewColumnNames
    <3>1. x[1] = "column" /\ x[2] \notin {"owner_id", "completed"}
      BY <2>1 DEF NewColumnNames
    <3>2. x[1] # "not null"
      BY <3>1
    <3> QED BY <2>3, <3>1, <3>2
  <2>2. CASE x \in {"table", "foreign key", "check", "index"} \X Names
    <3>1. x[1] \in {"table", "foreign key", "check", "index"}
      BY <2>2
    <3> QED BY <2>3, <3>1
  <2> QED BY <2>1, <2>2
<1> HIDE DEF O
<1>10. <<StatusCheck>> \in Seq(O) /\ <<MappingTable>> \in Seq(O)
  BY <1>1, Tuples
<1>4. <<MappingTable>> \o Backwards(References) \in Seq(O)
  BY <1>2, <1>10, ObjectTypes, BackwardsType, Joined
<1>5. <<MappingTable>> \o Backwards(References) \o <<StatusCheck>> \in Seq(O)
  BY <1>4, <1>10, Joined
<1>6. <<MappingTable>> \o Backwards(References) \o <<StatusCheck>> \o Backwards(Indexes) \in Seq(O)
  BY <1>2, <1>5, ObjectTypes, BackwardsType, Joined
<1>7. <<MappingTable>> \o Backwards(References) \o <<StatusCheck>> \o Backwards(Indexes)
        \o Backwards(Columns) \in Seq(O)
  BY <1>2, <1>6, ObjectTypes, BackwardsType, Joined
<1>8. ExpandDown \in Seq([verb : {"drop"}, object : O])
  BY <1>7, AddingType DEF ExpandDown
<1>9. ASSUME NEW i \in 1..Len(ExpandDown)
      PROVE  ExpandDown[i] \in [verb : {"drop"}, object : O]
  BY <1>8, Element
<1>11. Len(ExpandDown) \in Nat
  BY <1>8
<1> QED BY <1>3, <1>9, <1>11

\* The contract adds constraints and drops the old columns.
LEMMA ContractUpStatements ==
  /\ Len(ContractUp) \in Nat
  /\ \A i \in 1..Len(ContractUp) :
       \/ ContractUp[i].verb = "add" /\ ContractUp[i].object[1] \in {"not null", "check"}
       \/ ContractUp[i].verb = "drop" /\ ContractUp[i].object \in {OwnerReference, Owner, Done}
<1> DEFINE O == {"not null", "check"} \X Names
           Old == {OwnerReference, Owner, Done}
           A == [verb : {"add"}, object : O]
           D == [verb : {"drop"}, object : Old]
<1>1. \A x \in O : x[1] \in {"not null", "check"}
  OBVIOUS
<1>2. {"not null"} \X Names \subseteq O /\ {"check"} \X Names \subseteq O
  OBVIOUS
<1>3. <<OwnerReference>> \in Seq(Old) /\ <<Owner, Done>> \in Seq(Old)
  BY Tuples
<1> HIDE DEF O, Old
<1>4. Required \o ContentChecks \in Seq(O)
  BY <1>2, ObjectTypes, Joined
<1>5. <<OwnerReference>> \o LegacyColumns \in Seq(Old)
  BY <1>3, ObjectTypes, Joined
<1>6. Adding(Required \o ContentChecks) \in Seq(A)
  BY <1>4, AddingType
<1>7. Dropping(<<OwnerReference>> \o LegacyColumns) \in Seq(D)
  BY <1>5, AddingType
<1>8. ContractUp \in Seq(A \cup D)
  <2> HIDE DEF A, D
  <2> QED BY <1>6, <1>7, Joined DEF ContractUp
<1>9. ASSUME NEW i \in 1..Len(ContractUp)
      PROVE  ContractUp[i] \in A \cup D
  <2> HIDE DEF A, D
  <2> QED BY <1>8, Element
<1>10. Len(ContractUp) \in Nat
  <2> HIDE DEF A, D
  <2> QED BY <1>8
<1>11. \A i \in 1..Len(ContractUp) :
         \/ ContractUp[i].verb = "add" /\ ContractUp[i].object[1] \in {"not null", "check"}
         \/ ContractUp[i].verb = "drop" /\ ContractUp[i].object \in {OwnerReference, Owner, Done}
  BY <1>1, <1>9 DEF Old
<1> QED BY <1>10, <1>11

\* Its downgrade adds the old columns, fills them, and then only touches constraints.
LEMMA ContractDownStatements ==
  /\ Len(ContractDown) \in Nat /\ Len(ContractDown) > 3
  /\ ContractDown[1] = [verb |-> "add", object |-> Owner]
  /\ ContractDown[2] = [verb |-> "add", object |-> Done]
  /\ ContractDown[3].verb = "update"
  /\ \A i \in 4..Len(ContractDown) :
       /\ ContractDown[i].verb \in {"add", "drop"}
       /\ ContractDown[i].object[1] \in {"not null", "check", "foreign key"}
<1> DEFINE O == {"not null", "check", "foreign key"} \X Names
           S == [verb : {"add", "drop"}, object : O]
           update == [verb |-> "update", object |-> <<"rows", "tasks">>]
           c == Adding(LegacyRequired \o <<OwnerReference>>)
           d == Dropping(Backwards(ContentChecks) \o Backwards(Required))
           both == <<[verb |-> "add", object |-> Owner], [verb |-> "add", object |-> Done]>>
           rest == c \o d
<1>1. \A x \in O : x[1] \in {"not null", "check", "foreign key"}
  OBVIOUS
<1>2. {"not null"} \X Names \subseteq O /\ {"check"} \X Names \subseteq O
  OBVIOUS
<1>3. <<OwnerReference>> \in Seq(O)
  BY Tuples DEF OwnerReference, Names
<1>4. /\ [verb : {"add"}, object : O] \subseteq S
      /\ [verb : {"drop"}, object : O] \subseteq S
  OBVIOUS
<1>5. \A x \in S : x.verb \in {"add", "drop"} /\ x.object \in O
  OBVIOUS
<1>6. update.verb = "update"
  OBVIOUS
<1>7. Adding(LegacyColumns) = both
  <2>1. LegacyColumns = <<Owner, Done>>
    BY ObjectTypes
  <2> QED BY <2>1 DEF Adding
<1> HIDE DEF O
<1>8. LegacyRequired \o <<OwnerReference>> \in Seq(O)
  BY <1>2, <1>3, ObjectTypes, Joined
<1>9. Len(LegacyRequired \o <<OwnerReference>>) > 0
  <2>1. LegacyRequired \in Seq({"not null"} \X Names)
    BY ObjectTypes
  <2>2. ASSUME NEW A, NEW a \in Seq(A), NEW x
        PROVE  Len(a \o <<x>>) > 0
    <3>1. Len(a) \in Nat /\ a \o <<x>> = Append(a, x) /\ Len(Append(a, x)) = Len(a) + 1
      OBVIOUS
    <3> QED BY <3>1
  <2> QED BY <2>1, <2>2
<1>10. c \in Seq([verb : {"add"}, object : O]) /\ Len(c) > 0
  BY <1>8, <1>9, AddingType
<1>11. Backwards(ContentChecks) \o Backwards(Required) \in Seq(O)
  BY <1>2, ObjectTypes, BackwardsType, Joined
<1>12. d \in Seq([verb : {"drop"}, object : O])
  BY <1>11, AddingType
<1>13. ContractDown = both \o <<update>> \o c \o d
  BY <1>7 DEF ContractDown
<1> HIDE DEF c, d, S, update
<1>14. rest \in Seq(S)
  BY <1>4, <1>10, <1>12, Joined
<1>15. Len(rest) > 0 /\ Len(rest) \in Nat
  BY <1>10, <1>12
<1>16. ContractDown = <<both[1], both[2], update>> \o rest
  BY <1>10, <1>12, <1>13
<1> HIDE DEF rest
<1>17. /\ Len(ContractDown) = 3 + Len(rest)
       /\ ContractDown[1] = both[1] /\ ContractDown[2] = both[2] /\ ContractDown[3] = update
       /\ \A i \in 4..(3 + Len(rest)) : ContractDown[i] = rest[i - 3]
  BY <1>14, <1>15, <1>16
<1>18. \A i \in 4..(3 + Len(rest)) : rest[i - 3] \in S
  BY <1>14, <1>15
<1>19. \A i \in 4..Len(ContractDown) : ContractDown[i] \in S
  BY <1>17, <1>18
<1>20. ContractDown[1] = [verb |-> "add", object |-> Owner]
       /\ ContractDown[2] = [verb |-> "add", object |-> Done]
  BY <1>17
<1>21. Len(ContractDown) \in Nat /\ Len(ContractDown) > 3
  BY <1>15, <1>17
<1>22. ContractDown[3].verb = "update"
  BY <1>6, <1>17
<1> QED BY <1>1, <1>5, <1>19, <1>20, <1>21, <1>22

-----------------------------------------------------------------------------
(* One statement.                                                          *)

Constraint(object) == object[1] # "column"

\* Adding an object other than an old column says nothing of the old columns.
LEMMA AddOther ==
  ASSUME NEW object, Add(object), object # Owner, object # Done
  PROVE  /\ UNCHANGED <<users, task, legacy>>
         /\ Owner \in schema' <=> Owner \in schema
         /\ Done \in schema' <=> Done \in schema
BY DEF Add, tables

\* What is not a column is none of the columns.
LEMMA ConstraintsDiffer ==
  ASSUME NEW object, Constraint(object)
  PROVE  object # Owner /\ object # Done /\ \A c : object # Column(c)
<1>1. \A c : Column(c)[1] = "column"
  BY DEF Column
<1> QED BY <1>1 DEF Constraint, Owner, Done

\* Neither does dropping a constraint, an index or a table; rows stay.
LEMMA DropConstraint ==
  ASSUME Rows, NEW object, Drop(object), Constraint(object)
  PROVE  /\ UNCHANGED <<users, task, legacy>>
         /\ Owner \in schema' <=> Owner \in schema
         /\ Done \in schema' <=> Done \in schema
<1>1. object # Owner /\ object # Done /\ \A c : object # Column(c)
  BY ConstraintsDiffer
<1>2. \A row : WithoutColumn(row, object) = row /\ WithoutLegacyColumn(row, object) = row
  BY <1>1 DEF WithoutColumn, WithoutLegacyColumn
<1>3. task' = task /\ legacy' = legacy
  BY <1>2 DEF Drop, Rows
<1>4. schema' = schema \ {object, object}
  BY DEF Drop, Constraint
<1> QED BY <1>1, <1>3, <1>4 DEF Drop

\* Dropping a new column empties it in every row and leaves the old ones alone.
LEMMA DropNewColumn ==
  ASSUME Rows, NEW object, Drop(object), object # Owner, object # Done, object[1] # "not null"
  PROVE  /\ UNCHANGED <<users, legacy>>
         /\ Owner \in schema' <=> Owner \in schema
         /\ Done \in schema' <=> Done \in schema
         /\ task' = [t \in Tasks |-> task'[t]]
         /\ \A t \in Tasks :
              /\ IsRow(task'[t])
              /\ task'[t].phase = task[t].phase
              /\ task'[t].creator \in {NoUser, task[t].creator}
<1>1. \A row : WithoutLegacyColumn(row, object) = row
  BY DEF WithoutLegacyColumn, Owner, Done
<1>2. legacy' = legacy
  BY <1>1 DEF Drop, Rows
<1>3. \A x : NotNull(x) # Owner /\ NotNull(x) # Done
  BY DEF NotNull, Owner, Done, Column
<1>4. schema' = schema \ {object, IF object[1] = "column" THEN NotNull(object[2]) ELSE object}
  BY DEF Drop
<1>5. \A t \in Tasks : task'[t] = IF Live(t) THEN WithoutColumn(task[t], object) ELSE task[t]
  BY DEF Drop
<1>6. ASSUME NEW t \in Tasks
      PROVE  /\ IsRow(WithoutColumn(task[t], object))
             /\ WithoutColumn(task[t], object).phase = task[t].phase
             /\ WithoutColumn(task[t], object).creator \in {NoUser, task[t].creator}
  <2>1. task[t] = [phase |-> task[t].phase, ws |-> task[t].ws, creator |-> task[t].creator,
                   assignee |-> task[t].assignee, status |-> task[t].status,
                   content |-> task[t].content]
    BY DEF Rows, IsRow
  <2> QED BY <2>1 DEF WithoutColumn, IsRow
<1>7. task' = [t \in Tasks |-> task'[t]]
  BY <1>5 DEF Drop
<1>8. UNCHANGED users
  BY DEF Drop
<1>9. \A t \in Tasks : IsRow(task[t])
  BY DEF Rows
<1> QED BY <1>2, <1>3, <1>4, <1>5, <1>6, <1>7, <1>8, <1>9

\* Dropping an old column empties it in every row and leaves the new ones alone.
LEMMA DropOldColumn ==
  ASSUME Rows, NEW object \in {Owner, Done}, Drop(object)
  PROVE  /\ UNCHANGED <<users, task>>
         /\ schema' \subseteq schema /\ object \notin schema'
         /\ \A x \in {Owner, Done} \ {object} : x \in schema' <=> x \in schema
         /\ legacy' = [t \in Tasks |-> legacy'[t]]
         /\ \A t \in Tasks :
              /\ IsLegacy(legacy'[t])
              /\ object = Owner => /\ legacy'[t].owner = NoUser
                                  /\ legacy'[t].completed = legacy[t].completed
              /\ object = Done => /\ legacy'[t].completed = Null
                                 /\ legacy'[t].owner = legacy[t].owner
<1>1. Owner # Done /\ \A x : NotNull(x) # Owner /\ NotNull(x) # Done
  BY DEF NotNull, Owner, Done, Column
<1>2. object \notin {Column("workspace_id"), Column("creator_id"), Column("assignee_id"), Column("status")}
  BY DEF Owner, Done, Column
<1>3. task' = task
  BY <1>2 DEF Drop, Rows, WithoutColumn
<1>4. schema' = schema \ {object, IF object[1] = "column" THEN NotNull(object[2]) ELSE object}
  BY DEF Drop
<1>5. \A t \in Tasks : legacy'[t] = WithoutLegacyColumn(legacy[t], object)
  BY DEF Drop
<1>6. legacy' = [t \in Tasks |-> legacy'[t]]
  BY <1>5 DEF Drop
<1>7. ASSUME NEW t \in Tasks
      PROVE  LET row == WithoutLegacyColumn(legacy[t], object)
             IN  /\ IsLegacy(row)
                 /\ object = Owner => row.owner = NoUser /\ row.completed = legacy[t].completed
                 /\ object = Done => row.completed = Null /\ row.owner = legacy[t].owner
  <2>1. legacy[t] = [owner |-> legacy[t].owner, completed |-> legacy[t].completed]
    BY DEF Rows, IsLegacy
  <2> QED BY <1>1, <2>1 DEF WithoutLegacyColumn, IsLegacy, Owner, Done
<1>8. UNCHANGED users
  BY DEF Drop
<1>9. schema' \subseteq schema /\ object \notin schema'
  BY <1>4
<1>10. \A x \in {Owner, Done} \ {object} : x \in schema' <=> x \in schema
  BY <1>1, <1>4
<1>11. \A t \in Tasks :
         /\ IsLegacy(legacy'[t])
         /\ object = Owner => legacy'[t].owner = NoUser /\ legacy'[t].completed = legacy[t].completed
         /\ object = Done => legacy'[t].completed = Null /\ legacy'[t].owner = legacy[t].owner
  BY <1>5, <1>7
<1> QED BY <1>3, <1>6, <1>8, <1>9, <1>10, <1>11

-----------------------------------------------------------------------------
(* Steps that leave the rows alone.                                        *)

\* The facts stay in the columns that are there if no old column goes.
LEMMA SameRows ==
  ASSUME IInv, UNCHANGED <<task, legacy, meant>>,
         users' \subseteq Users,
         Owner \in schema' <=> Owner \in schema, Done \in schema' <=> Done \in schema,
         revision' = revision,
         NewColumnsRule' => NewColumnsRule \/ \A t \in LiveTasks : NewFact(t)
  PROVE  Rows' /\ Facts' /\ Columned'
<1>1. Rows'
  BY DEF IInv, Rows
<1>2. Columned'
  BY DEF IInv, Columned
<1>3. ASSUME NEW t \in Tasks
      PROVE  /\ Truthful(t)' <=> Truthful(t)
             /\ NewFact(t)' <=> NewFact(t)
             /\ OldFact(t)' <=> OldFact(t)
             /\ Live(t)' <=> Live(t)
  BY DEF Truthful, NewFact, OldFact, Live
<1>4. \A t \in LiveTasks : NewColumnsRule' => NewFact(t)
  BY DEF IInv, Facts
<1>5. Facts'
  BY <1>3, <1>4 DEF IInv, Facts, LiveTasks
<1> QED BY <1>1, <1>2, <1>5

-----------------------------------------------------------------------------
(* Commands begin and end.                                                 *)

\* A command that is refused or crashes leaves the facts where they are.
LEMMA StoppedStep ==
  ASSUME IInv, UNCHANGED <<revision, schema, tables, meant>>, command' = NoCommand
  PROVE  IInv'
<1>1. NewColumnsRule' => NewColumnsRule
  BY DEF NewColumnsRule, NoCommand
<1>2. Rows' /\ Facts' /\ Columned'
  BY <1>1, SameRows DEF tables, IInv, Rows
<1>3. Running'
  BY DEF IInv, Running, Idle, NoCommand
<1> QED BY <1>2, <1>3 DEF IInv

\* What the contract checks before it starts: the new columns say what the old do.
LEMMA ContractReady ==
  ASSUME IInv, revision = Backfill, ContractAllowed, NEW t \in LiveTasks
  PROVE  NewFact(t)
<1>1. Owner \in schema /\ Done \in schema
  <2>1. LegacyColumns = <<Owner, Done>>
    BY ObjectTypes
  <2>2. {Owner, Done} \subseteq Objects(LegacyColumns)
    BY <2>1 DEF Objects
  <2> QED BY <2>2 DEF ContractAllowed
<1>2. OldFact(t) /\ Truthful(t)
  BY DEF IInv, Facts
<1>3. Filled(task[t]) /\ Agrees(task[t], legacy[t])
  BY DEF ContractAllowed
<1> QED
  BY <1>1, <1>2, <1>3 DEF OldFact, Truthful, Filled, Agrees, NewFact, Completed

\* A command starts with the facts where its first statement needs them.
LEMMA StartStep ==
  ASSUME IInv, StartUpgrade \/ StartDowngrade
  PROVE  IInv'
<1>1. CASE StartUpgrade
  <2>1. CASE Refuse("up")
    BY <2>1, StoppedStep DEF Refuse, End, history
  <2>2. CASE UpgradeAllowed /\ command' = [direction |-> "up", step |-> 1]
             /\ UNCHANGED <<revision, schema, tables, outcome, history>>
    <3>1. ASSUME revision = Backfill, NEW t \in LiveTasks
          PROVE  NewFact(t)
      <4>1. UpgradeAllowed
        BY <2>2
      <4>2. ContractAllowed
        BY ONLY <3>1, <4>1 DEF UpgradeAllowed, Backfill, Contract
      <4> QED BY <3>1, <4>2, ContractReady
    <3>2. NewColumnsRule' => NewColumnsRule \/ revision = Backfill
      BY <2>2 DEF NewColumnsRule
    <3>3. Rows' /\ Facts' /\ Columned'
      BY <2>2, <3>1, <3>2, SameRows DEF tables, history, IInv, Rows
    <3>4. Running'
      BY <1>1, <2>2 DEF StartUpgrade, IInv, Running
    <3> QED BY <3>3, <3>4 DEF IInv
  <2> QED BY <1>1, <2>1, <2>2 DEF StartUpgrade, Start
<1>2. CASE StartDowngrade
  <2>1. CASE Refuse("down")
    BY <2>1, StoppedStep DEF Refuse, End, history
  <2>2. CASE DowngradeAllowed /\ command' = [direction |-> "down", step |-> 1]
             /\ UNCHANGED <<revision, schema, tables, outcome, history>>
    <3>1. revision \in {Expand, Contract}
      BY <1>2, <2>2 DEF StartDowngrade, DowngradeAllowed
    <3>2. NewColumnsRule' => NewColumnsRule
      BY <2>2, <3>1 DEF NewColumnsRule, Backfill, Expand, Contract
    <3>3. Rows' /\ Facts' /\ Columned'
      BY <2>2, <3>2, SameRows DEF tables, history, IInv, Rows
    <3>4. Running'
      BY <2>2, <3>1 DEF IInv, Running
    <3> QED BY <3>3, <3>4 DEF IInv
  <2> QED BY <1>2, <2>1, <2>2 DEF StartDowngrade, Start
<1> QED BY <1>1, <1>2

\* Revisions are recorded when their script is through.
LEMMA RecordStep ==
  ASSUME IInv, RecordRevision
  PROVE  IInv'
<1>1. /\ UNCHANGED <<schema, tables, meant>> /\ command' = NoCommand
      /\ revision' = IF command.direction = "up" THEN revision + 1 ELSE revision - 1
      /\ command.step > Len(Script(revision, command.direction))
  BY DEF RecordRevision, Succeed, End, history
<1>2. \/ command.direction = "up" /\ revision \in {Base, Backfill, Contract}
      \/ command.direction = "down" /\ revision \in {Expand, Contract}
  BY DEF RecordRevision, IInv, Running
<1>3. Running'
  BY <1>1, <1>2 DEF Running, Revisions, Base, Expand, Backfill, Contract, Cleanup, Idle, NoCommand
<1>4. Rows'
  BY <1>1 DEF IInv, Rows, tables
<1>5. \A t \in Tasks :
        /\ Truthful(t)' <=> Truthful(t)
        /\ NewFact(t)' <=> NewFact(t)
        /\ OldFact(t)' <=> OldFact(t)
        /\ Live(t)' <=> Live(t)
  BY <1>1 DEF Truthful, NewFact, OldFact, Live, tables
<1>6. UNCHANGED <<task, legacy, meant, schema>>
  BY <1>1 DEF tables
<1>7. CASE revision = Contract /\ command.direction = "down"
  <2>1. command.step > 3
    <3>1. Script(revision, command.direction) = ContractDown
      BY <1>7 DEF Script, Base, Expand, Backfill, Contract
    <3>2. command.step \in Nat
      BY DEF IInv, Running, RecordRevision
    <3>3. Len(ContractDown) \in Nat /\ Len(ContractDown) > 3
      BY ContractDownStatements
    <3>4. command.step > Len(ContractDown)
      BY <1>1, <3>1
    <3> QED BY <3>2, <3>3, <3>4
  <2>2. /\ Owner \in schema /\ Done \in schema
        /\ \A t \in LiveTasks : OldFact(t)
    <3>1. command.step \in Nat /\ command.step > 2 /\ command.step > 1
      BY <2>1 DEF IInv, Running, RecordRevision
    <3>2. /\ Owner \in schema /\ Done \in schema
          /\ \A t \in LiveTasks : /\ legacy[t].owner = meant[t].owner
                                /\ legacy[t].completed = Completed(meant[t].done)
      BY <1>7, <2>1, <3>1 DEF IInv, Running
    <3> QED BY <3>2 DEF OldFact
  <2>3. revision' = Backfill
    BY <1>1, <1>7 DEF Contract, Backfill
  <2>4. \A t \in LiveTasks : Truthful(t) /\ NewFact(t)
    BY <1>7 DEF IInv, Facts, NewColumnsRule
  <2>5. Facts'
    BY <1>5, <2>2, <2>4 DEF Facts, LiveTasks
  <2>6. Columned'
    BY <1>6, <2>2, <2>3 DEF Columned, IInv, Base, Expand, Backfill
  <2> QED BY <1>3, <1>4, <2>5, <2>6 DEF IInv
<1>8. CASE command.direction = "up" /\ revision \in {Backfill, Contract}
  <2>1. revision' \in {Contract, Cleanup}
    BY <1>1, <1>8 DEF Contract, Backfill, Cleanup
  <2>2. \A t \in LiveTasks : Truthful(t) /\ NewFact(t)
    BY <1>8 DEF IInv, Facts, NewColumnsRule
  <2>3. Facts'
    BY <1>5, <2>1, <2>2 DEF Facts, LiveTasks, Base, Expand, Backfill, Contract, Cleanup
  <2>4. Columned'
    BY <1>6, <2>1 DEF Columned, IInv, Base, Expand, Contract, Cleanup
  <2> QED BY <1>3, <1>4, <2>3, <2>4 DEF IInv
<1>9. CASE revision \in {Base, Expand}
  <2>1. revision' \in {Base, Expand}
    BY <1>1, <1>2, <1>9 DEF Base, Expand, Backfill, Contract
  <2>2. Owner \in schema /\ Done \in schema /\ \A t \in LiveTasks : Truthful(t) /\ OldFact(t)
    BY <1>9 DEF IInv, Columned, Facts
  <2>3. ~NewColumnsRule'
    BY <2>1 DEF NewColumnsRule, Base, Expand, Backfill, Contract, Cleanup
  <2>4. Facts'
    BY <1>5, <2>2, <2>3 DEF Facts, LiveTasks
  <2>5. Columned'
    BY <1>6, <2>2 DEF Columned, IInv
  <2> QED BY <1>3, <1>4, <2>4, <2>5 DEF IInv
<1> QED BY <1>2, <1>7, <1>8, <1>9

\* The backfill copies the facts; the old columns keep them.
LEMMA BackfillStep ==
  ASSUME IInv, UpgradeToBackfill
  PROVE  IInv'
<1>1. CASE Refuse("up")
  BY <1>1, StoppedStep DEF Refuse, End, history
<1>2. ASSUME ~Refuse("up")
      PROVE  IInv'
  <2>1. PICK home \in Homes :
          /\ task' = [t \in Tasks |->
               IF Live(t) THEN Backfilled(task[t], legacy[t], home[legacy[t].owner]) ELSE task[t]]
          /\ Succeed(Backfill)
          /\ UNCHANGED <<users, legacy>>
    BY <1>2 DEF UpgradeToBackfill
  <2>2. /\ revision' = Backfill /\ UNCHANGED <<schema, users, legacy, meant>>
        /\ command' = NoCommand /\ revision = Expand
    BY <2>1 DEF Succeed, End, history, UpgradeToBackfill
  <2>3. Owner \in schema /\ Done \in schema
    BY <2>2 DEF IInv, Columned
  <2>4. ASSUME NEW t \in Tasks
        PROVE  /\ IsRow(task'[t]) /\ task'[t].phase = task[t].phase
               /\ task'[t].creator \in {task[t].creator, legacy[t].owner}
    <3>1. task[t] = [phase |-> task[t].phase, ws |-> task[t].ws, creator |-> task[t].creator,
                     assignee |-> task[t].assignee, status |-> task[t].status,
                     content |-> task[t].content]
      BY DEF IInv, Rows, IsRow
    <3>2. task'[t] = IF Live(t) THEN Backfilled(task[t], legacy[t], home[legacy[t].owner]) ELSE task[t]
      BY <2>1
    <3> QED BY <3>1, <3>2 DEF Backfilled, IsRow
  <2>5. task' = [t \in Tasks |-> task'[t]]
    BY <2>1
  <2>6. Rows'
    BY <2>2, <2>4, <2>5 DEF IInv, Rows
  <2>7. Columned'
    BY <2>2, <2>3 DEF Columned, Base, Expand, Backfill
  <2>8. Running'
    BY <2>2 DEF Running, Revisions, Base, Expand, Backfill, Contract, Cleanup, Idle
  <2>9. ~NewColumnsRule'
    BY <2>2, <2>3 DEF NewColumnsRule, NoCommand, Backfill, Contract, Cleanup
  <2>10. ASSUME NEW t \in Tasks, Live(t)'
         PROVE  Truthful(t)' /\ OldFact(t)'
    <3>1. Truthful(t) /\ OldFact(t)
      BY <2>2, <2>4, <2>10 DEF IInv, Facts, LiveTasks, Live
    <3>2. legacy[t].owner = meant[t].owner
      BY <2>3, <3>1 DEF OldFact
    <3> QED BY <2>2, <2>4, <3>1, <3>2 DEF Truthful, OldFact
  <2>11. Facts'
    BY <2>9, <2>10 DEF Facts, LiveTasks
  <2> QED BY <2>6, <2>7, <2>8, <2>11 DEF IInv
<1> QED BY <1>1, <1>2

\* Its downgrade needs the old columns to be there, and they hold the facts.
LEMMA UndoBackfillStep ==
  ASSUME IInv, DowngradeFromBackfill
  PROVE  IInv'
<1>1. CASE Refuse("down")
  BY <1>1, StoppedStep DEF Refuse, End, history
<1>2. ASSUME ~Refuse("down")
      PROVE  IInv'
  <2>1. /\ CanUndoBackfill /\ Succeed(Expand) /\ UNCHANGED <<users, legacy>>
        /\ task' = [t \in Tasks |-> IF t \in Returned THEN OldRow(task[t].content) ELSE task[t]]
    BY <1>2 DEF DowngradeFromBackfill
  <2>2. /\ revision' = Expand /\ UNCHANGED <<schema, users, legacy, meant>>
        /\ command' = NoCommand /\ revision = Backfill
    BY <2>1 DEF Succeed, End, history, DowngradeFromBackfill
  <2>3. Owner \in schema /\ Done \in schema
    <3>1. LegacyColumns = <<Owner, Done>>
      BY ObjectTypes
    <3>2. {Owner, Done} \subseteq Objects(LegacyColumns)
      BY <3>1 DEF Objects
    <3> QED BY <2>1, <3>2 DEF CanUndoBackfill
  <2>4. ASSUME NEW t \in Tasks
        PROVE  /\ IsRow(task'[t]) /\ task'[t].phase = task[t].phase
               /\ task'[t].creator \in {task[t].creator, NoUser}
    <3>1. IsRow(task[t]) /\ IsRow(OldRow(task[t].content))
      BY DEF IInv, Rows, IsRow, OldRow
    <3>2. t \in Returned => task[t].phase = "live"
      BY DEF Returned, LiveTasks, Live
    <3>3. task'[t] = IF t \in Returned THEN OldRow(task[t].content) ELSE task[t]
      BY <2>1
    <3>4. OldRow(task[t].content).phase = "live" /\ OldRow(task[t].content).creator = NoUser
      BY DEF OldRow
    <3> QED BY <3>1, <3>2, <3>3, <3>4
  <2>5. task' = [t \in Tasks |-> task'[t]]
    BY <2>1
  <2>6. Rows'
    BY <2>2, <2>4, <2>5 DEF IInv, Rows
  <2>7. Columned'
    BY <2>2, <2>3 DEF Columned
  <2>8. Running'
    BY <2>2 DEF Running, Revisions, Base, Expand, Backfill, Contract, Cleanup, Idle
  <2>9. ~NewColumnsRule'
    BY <2>2 DEF NewColumnsRule, Expand, Backfill, Contract, Cleanup
  <2>10. ASSUME NEW t \in Tasks, Live(t)'
         PROVE  Truthful(t)' /\ OldFact(t)'
    <3>1. Truthful(t) /\ OldFact(t)
      BY <2>2, <2>4, <2>10 DEF IInv, Facts, LiveTasks, Live
    <3> QED BY <2>2, <2>4, <3>1 DEF Truthful, OldFact
  <2>11. Facts'
    BY <2>9, <2>10 DEF Facts, LiveTasks
  <2> QED BY <2>6, <2>7, <2>8, <2>11 DEF IInv
<1> QED BY <1>1, <1>2

-----------------------------------------------------------------------------
(* The statements of the scripts.                                          *)

\* What the next statement of a command leaves alone, and how far it gets.
LEMMA StatementFrame ==
  ASSUME IInv, RunStatement,
         NEW statement, statement = Script(revision, command.direction)[command.step],
         Executable(statement), Execute(statement),
         command' = [command EXCEPT !.step = @ + 1]
  PROVE  /\ command'.direction = command.direction /\ command'.step = command.step + 1
         /\ command' = [direction |-> command'.direction, step |-> command'.step]
         /\ command.step \in Nat \ {0}
         /\ \/ command.direction = "up" /\ revision \in {Base, Backfill, Contract}
            \/ command.direction = "down" /\ revision \in {Expand, Contract}
<1>1. ~Idle
  BY DEF RunStatement
<1>2. /\ command.step \in Nat \ {0}
      /\ command = [direction |-> command.direction, step |-> command.step]
      /\ \/ command.direction = "up" /\ revision \in {Base, Backfill, Contract}
         \/ command.direction = "down" /\ revision \in {Expand, Contract}
  BY <1>1 DEF IInv, Running
<1> QED BY <1>2

\* A statement that only adds or drops something else keeps the facts.
LEMMA OtherStatement ==
  ASSUME IInv, NEW object,
         \/ Add(object) /\ object # Owner /\ object # Done
         \/ Drop(object) /\ Constraint(object),
         UNCHANGED <<revision, meant>>, command'.direction = command.direction
  PROVE  Rows' /\ Facts' /\ Columned' /\ UNCHANGED <<task, legacy>>
         /\ (Owner \in schema' <=> Owner \in schema) /\ (Done \in schema' <=> Done \in schema)
<1>1. /\ UNCHANGED <<users, task, legacy>>
      /\ Owner \in schema' <=> Owner \in schema
      /\ Done \in schema' <=> Done \in schema
  BY AddOther, DropConstraint DEF IInv
<1>2. NewColumnsRule' => NewColumnsRule
  BY <1>1 DEF NewColumnsRule
<1>3. users' \subseteq Users
  BY <1>1 DEF IInv, Rows
<1> QED BY <1>1, <1>2, <1>3, SameRows

\* Expanding adds to what is there.
LEMMA ExpandStatement ==
  ASSUME IInv, revision = Base, command.direction = "up",
         NEW i \in 1..Len(ExpandUp), Execute(ExpandUp[i]),
         UNCHANGED <<revision, meant>>, command'.direction = command.direction
  PROVE  Rows' /\ Facts' /\ Columned'
<1> DEFINE object == ExpandUp[i].object
<1>1. Add(object)
  BY ExpandUpAdds DEF Execute
<1>2. Owner \in schema /\ Done \in schema
  BY DEF IInv, Columned
<1>3. UNCHANGED <<users, task, legacy>> /\ Owner \in schema' /\ Done \in schema'
  BY <1>1, <1>2 DEF Add, tables
<1>4. ~NewColumnsRule'
  BY DEF NewColumnsRule, Base, Backfill, Contract, Cleanup
<1>5. users' \subseteq Users
  BY <1>3 DEF IInv, Rows
<1> QED BY <1>2, <1>3, <1>4, <1>5, SameRows

\* Taking the new columns away leaves the old ones.
LEMMA ExpandDownStatement ==
  ASSUME IInv, revision = Expand, command.direction = "down",
         NEW i \in 1..Len(ExpandDown), Execute(ExpandDown[i]),
         UNCHANGED <<revision, meant>>, command'.direction = command.direction
  PROVE  Rows' /\ Facts' /\ Columned'
<1> DEFINE object == ExpandDown[i].object
<1>1. Drop(object) /\ object # Owner /\ object # Done /\ object[1] # "not null"
  BY ExpandDownDrops DEF Execute
<1>2. /\ UNCHANGED <<users, legacy>>
      /\ Owner \in schema' <=> Owner \in schema
      /\ Done \in schema' <=> Done \in schema
      /\ task' = [t \in Tasks |-> task'[t]]
      /\ \A t \in Tasks :
           /\ IsRow(task'[t])
           /\ task'[t].phase = task[t].phase
           /\ task'[t].creator \in {NoUser, task[t].creator}
  BY <1>1, DropNewColumn DEF IInv
<1>3. Rows'
  BY <1>2 DEF IInv, Rows
<1>4. Columned'
  BY <1>2 DEF IInv, Columned
<1>5. ~NewColumnsRule'
  BY DEF NewColumnsRule, Expand, Backfill, Contract, Cleanup
<1>6. ASSUME NEW t \in Tasks, Live(t)'
      PROVE  Truthful(t)' /\ OldFact(t)'
  <2>1. Truthful(t) /\ OldFact(t)
    BY <1>2, <1>6 DEF IInv, Facts, LiveTasks, Live
  <2> QED BY <1>2, <2>1 DEF Truthful, OldFact
<1>7. Facts'
  BY <1>5, <1>6 DEF Facts, LiveTasks
<1> QED BY <1>3, <1>4, <1>7

\* Before the contract drops a column, the new columns hold what it says.
LEMMA ContractStatement ==
  ASSUME IInv, revision = Backfill, command.direction = "up",
         NEW i \in 1..Len(ContractUp), Execute(ContractUp[i]),
         UNCHANGED <<revision, meant>>, command'.direction = command.direction
  PROVE  Rows' /\ Facts' /\ Columned'
<1> DEFINE object == ContractUp[i].object
<1>1. \/ Add(object) /\ object[1] \in {"not null", "check"}
      \/ Drop(object) /\ object \in {OwnerReference, Owner, Done}
  BY ContractUpStatements DEF Execute
<1> HIDE DEF object
<1>2. CASE Constraint(object)
  BY <1>1, <1>2, ConstraintsDiffer, OtherStatement
<1>3. CASE object \in {Owner, Done} /\ Drop(object)
  <2>1. /\ UNCHANGED <<users, task>>
        /\ schema' \subseteq schema /\ object \notin schema'
        /\ \A x \in {Owner, Done} \ {object} : x \in schema' <=> x \in schema
        /\ legacy' = [t \in Tasks |-> legacy'[t]]
        /\ \A t \in Tasks :
             /\ IsLegacy(legacy'[t])
             /\ object = Owner => /\ legacy'[t].owner = NoUser
                                 /\ legacy'[t].completed = legacy[t].completed
             /\ object = Done => /\ legacy'[t].completed = Null
                                /\ legacy'[t].owner = legacy[t].owner
    BY <1>3, DropOldColumn DEF IInv
  <2>2. Rows'
    BY <2>1 DEF IInv, Rows
  <2>3. Columned'
    BY <1>3, <2>1 DEF IInv, Columned, Base, Expand, Backfill
  <2>4. ASSUME NEW t \in Tasks, Live(t)'
        PROVE  Truthful(t)' /\ OldFact(t)' /\ NewFact(t)'
    <3>1. Truthful(t) /\ OldFact(t) /\ NewFact(t)
      BY <2>1, <2>4 DEF IInv, Facts, LiveTasks, Live, NewColumnsRule
    <3> QED BY <1>3, <2>1, <3>1 DEF Truthful, OldFact, NewFact
  <2>5. Facts'
    BY <2>4 DEF Facts, LiveTasks
  <2> QED BY <2>2, <2>3, <2>5
<1>4. Constraint(OwnerReference)
  BY DEF Constraint, OwnerReference
<1>5. object[1] \in {"not null", "check"} => Constraint(object)
  BY DEF Constraint
<1> QED BY <1>1, <1>2, <1>3, <1>4, <1>5

\* The cleanup drops a table of its own.
LEMMA CleanupStatement ==
  ASSUME IInv, revision = Contract, command.direction = "up",
         NEW i \in 1..Len(CleanupUp), Execute(CleanupUp[i]),
         UNCHANGED <<revision, meant>>, command'.direction = command.direction
  PROVE  Rows' /\ Facts' /\ Columned'
<1>1. CleanupUp = <<[verb |-> "drop", object |-> MappingTable]>>
  BY DEF CleanupUp, Dropping
<1>2. CleanupUp[i] = [verb |-> "drop", object |-> MappingTable]
  BY <1>1
<1>3. Drop(MappingTable)
  BY <1>2 DEF Execute
<1>4. Constraint(MappingTable)
  BY DEF Constraint, MappingTable
<1> QED BY <1>3, <1>4, OtherStatement

\* The statements of that script one by one.
LEMMA RestoreScript ==
  ASSUME NEW i \in 1..Len(ContractDown)
  PROVE  /\ Len(ContractDown) \in Nat /\ i \in Nat /\ i >= 1
         /\ i = 1 => ContractDown[i].verb = "add" /\ ContractDown[i].object = Owner
         /\ i = 2 => ContractDown[i].verb = "add" /\ ContractDown[i].object = Done
         /\ i = 3 => ContractDown[i].verb = "update"
         /\ i > 3 => /\ ContractDown[i].verb \in {"add", "drop"}
                    /\ ContractDown[i].object[1] # "column"
<1> DEFINE s == ContractDown
<1>1. Len(s) \in Nat
  BY ContractDownStatements
<1>2. s[1] = [verb |-> "add", object |-> Owner] /\ s[2] = [verb |-> "add", object |-> Done]
  BY ContractDownStatements
<1>3. s[3].verb = "update"
  BY ContractDownStatements
<1>4. \A j \in 4..Len(s) :
        s[j].verb \in {"add", "drop"} /\ s[j].object[1] \in {"not null", "check", "foreign key"}
  BY ContractDownStatements
<1> HIDE DEF s
<1>5. i \in 1..Len(s)
  BY DEF s
<1>6. ASSUME i > 3
      PROVE  s[i].verb \in {"add", "drop"} /\ s[i].object[1] # "column"
  <2>1. i \in 4..Len(s)
    BY <1>1, <1>5, <1>6
  <2> QED BY <1>4, <2>1
<1>7. i \in Nat /\ i >= 1
  BY <1>1, <1>5
<1>8. /\ i = 1 => s[i].verb = "add" /\ s[i].object = Owner
      /\ i = 2 => s[i].verb = "add" /\ s[i].object = Done
  BY <1>2
<1> QED BY <1>1, <1>3, <1>6, <1>7, <1>8 DEF s

\* Its downgrade adds the old columns, fills them from the new, and touches them no more.
LEMMA RestoreStatement ==
  ASSUME IInv, revision = Contract, command.direction = "down",
         NEW i \in 1..Len(ContractDown), i = command.step, Execute(ContractDown[i]),
         UNCHANGED <<revision, meant>>, command'.direction = command.direction,
         command'.step = i + 1
  PROVE  /\ Rows' /\ Facts' /\ Columned'
         /\ command'.step > 1 => Owner \in schema'
         /\ command'.step > 2 => Done \in schema'
         /\ command'.step > 3 =>
              \A t \in LiveTasks' :
                /\ legacy'[t].owner = meant'[t].owner
                /\ legacy'[t].completed = Completed(meant'[t].done)
<1> DEFINE object == ContractDown[i].object
<1>1. /\ i > 1 => Owner \in schema
      /\ i > 2 => Done \in schema
      /\ i > 3 => \A t \in LiveTasks :
                   /\ legacy[t].owner = meant[t].owner
                   /\ legacy[t].completed = Completed(meant[t].done)
  BY DEF IInv, Running
<1>2. \A t \in LiveTasks : Truthful(t) /\ NewFact(t)
  BY DEF IInv, Facts, NewColumnsRule
<1>3. revision' = Contract
  OBVIOUS
<1>4. i \in Nat /\ i >= 1
  BY RestoreScript
<1>5. CASE i \in {1, 2}
  <2>1. Add(object) /\ object \in {Owner, Done}
    BY <1>5, RestoreScript DEF Execute
  <2>2. UNCHANGED <<users, task, legacy>> /\ schema' = schema \cup {object}
    BY <2>1 DEF Add, tables
  <2>3. Rows'
    BY <2>2 DEF IInv, Rows
  <2>4. Columned'
    BY <1>3, <2>2 DEF IInv, Columned, Base, Expand, Contract
  <2>5. ASSUME NEW t \in Tasks, Live(t)'
        PROVE  Truthful(t)' /\ NewFact(t)'
    <3>1. Truthful(t) /\ NewFact(t)
      BY <1>2, <2>2, <2>5 DEF LiveTasks, Live
    <3> QED BY <2>2, <3>1 DEF Truthful, NewFact
  <2>6. Facts'
    BY <1>3, <2>5 DEF Facts, LiveTasks, Base, Expand, Backfill, Contract
  <2>7. /\ i = 1 => object = Owner
        /\ i = 2 => object = Done
    BY RestoreScript
  <2>8. command'.step > 1 => Owner \in schema'
    BY <1>1, <1>5, <2>2, <2>7
  <2>9. command'.step > 2 => Done \in schema'
    BY <1>5, <2>2, <2>7
  <2>10. ~(command'.step > 3)
    BY <1>5
  <2> QED BY <2>3, <2>4, <2>6, <2>8, <2>9, <2>10
<1>6. CASE i = 3
  <2>1. UpdateTasks
    BY <1>6, RestoreScript DEF Execute
  <2>2. /\ UNCHANGED <<schema, users, task>>
        /\ legacy' = [t \in Tasks |-> legacy'[t]]
        /\ \A t \in Tasks : legacy'[t] = IF Live(t) THEN RestoreLegacy(task[t]) ELSE legacy[t]
    BY <2>1 DEF UpdateTasks
  <2>3. \A t \in LiveTasks :
          /\ legacy'[t].owner = meant[t].owner
          /\ legacy'[t].completed = Completed(meant[t].done)
    BY <1>2, <2>2 DEF LiveTasks, RestoreLegacy, NewFact
  <2>4. Owner \in schema /\ Done \in schema
    BY <1>1, <1>6
  <2>5. \A t \in Tasks : IsLegacy(legacy'[t])
    BY <2>2 DEF IsLegacy, RestoreLegacy, IInv, Rows
  <2>6. Rows'
    BY <2>2, <2>5 DEF IInv, Rows
  <2>7. Columned'
    BY <2>2, <2>4 DEF Columned
  <2>8. ASSUME NEW t \in Tasks, Live(t)'
        PROVE  Truthful(t)' /\ NewFact(t)'
    <3>1. t \in LiveTasks
      BY <2>2, <2>8 DEF LiveTasks, Live
    <3>2. Truthful(t) /\ NewFact(t)
      BY <1>2, <3>1
    <3> QED BY <2>2, <2>3, <3>1, <3>2 DEF Truthful, NewFact
  <2>9. Facts'
    BY <1>3, <2>8 DEF Facts, LiveTasks, Base, Expand, Backfill, Contract
  <2>10. LiveTasks' = LiveTasks
    BY <2>2 DEF LiveTasks, Live
  <2> QED BY <2>2, <2>3, <2>4, <2>6, <2>7, <2>9, <2>10
<1>7. CASE i > 3
  <2>2. ContractDown[i].verb \in {"add", "drop"} /\ ContractDown[i].object[1] # "column"
    BY <1>7, RestoreScript
  <2>3. Constraint(object)
    BY <2>2 DEF Constraint
  <2>4. Add(object) \/ Drop(object)
    BY <2>2 DEF Execute
  <2>5. /\ Rows' /\ Facts' /\ Columned' /\ UNCHANGED <<task, legacy>>
        /\ (Owner \in schema' <=> Owner \in schema) /\ (Done \in schema' <=> Done \in schema)
    <3> HIDE DEF object
    <3> QED BY <2>3, <2>4, ConstraintsDiffer, OtherStatement
  <2>6. LiveTasks' = LiveTasks
    BY <2>5 DEF LiveTasks, Live
  <2>7. i > 1 /\ i > 2
    BY <1>4, <1>7
  <2> QED BY <1>1, <1>7, <2>5, <2>6, <2>7
<1> QED BY <1>4, <1>5, <1>6, <1>7

\* Whatever statement is next, the facts stay readable.
LEMMA StatementStep ==
  ASSUME IInv, RunStatement
  PROVE  IInv'
<1> DEFINE script == Script(revision, command.direction)
           i == command.step
<1>1. CASE Refuse(command.direction)
  BY <1>1, StoppedStep DEF Refuse, End, history
<1>2. CASE /\ Execute(script[i]) /\ Executable(script[i])
           /\ command' = [command EXCEPT !.step = @ + 1]
           /\ UNCHANGED <<revision, outcome, history>>
  <2>1. UNCHANGED <<revision, meant>>
    BY <1>2 DEF history
  <2>2. /\ command'.direction = command.direction /\ command'.step = i + 1
        /\ command' = [direction |-> command'.direction, step |-> command'.step]
        /\ i \in Nat \ {0}
        /\ \/ command.direction = "up" /\ revision \in {Base, Backfill, Contract}
           \/ command.direction = "down" /\ revision \in {Expand, Contract}
    BY <1>2, StatementFrame
  <2>3. i <= Len(script)
    BY DEF RunStatement
  <2>4. CASE command.direction = "up" /\ revision = Base
    <3>1. script = ExpandUp /\ i \in 1..Len(ExpandUp)
      <4>1. script = ExpandUp
        BY <2>4 DEF Script, Base, Expand, Backfill, Contract
      <4>2. Len(ExpandUp) \in Nat
        BY ExpandUpAdds
      <4> QED BY <2>2, <2>3, <4>1, <4>2
    <3>2. Rows' /\ Facts' /\ Columned'
      BY <1>2, <2>1, <2>2, <2>4, <3>1, ExpandStatement
    <3>3. Running'
      BY <2>1, <2>2, <2>4 DEF IInv, Running, Base, Contract
    <3> QED BY <3>2, <3>3 DEF IInv
  <2>5. CASE command.direction = "up" /\ revision = Backfill
    <3>1. script = ContractUp /\ i \in 1..Len(ContractUp)
      <4>1. script = ContractUp
        BY <2>5 DEF Script, Base, Expand, Backfill, Contract
      <4>2. Len(ContractUp) \in Nat
        BY ContractUpStatements
      <4> QED BY <2>2, <2>3, <4>1, <4>2
    <3>2. Rows' /\ Facts' /\ Columned'
      BY <1>2, <2>1, <2>2, <2>5, <3>1, ContractStatement
    <3>3. Running'
      BY <2>1, <2>2, <2>5 DEF IInv, Running, Backfill, Contract
    <3> QED BY <3>2, <3>3 DEF IInv
  <2>6. CASE command.direction = "up" /\ revision = Contract
    <3>1. CleanupUp = <<[verb |-> "drop", object |-> MappingTable]>>
      BY DEF CleanupUp, Dropping
    <3>2. script = CleanupUp
      BY <2>6 DEF Script, Base, Backfill, Contract
    <3>3. i \in 1..Len(CleanupUp)
      BY <2>2, <2>3, <3>1, <3>2
    <3>4. Rows' /\ Facts' /\ Columned'
      BY <1>2, <2>1, <2>2, <2>6, <3>2, <3>3, CleanupStatement
    <3>5. Running'
      BY <2>1, <2>2, <2>6 DEF IInv, Running
    <3> QED BY <3>4, <3>5 DEF IInv
  <2>7. CASE command.direction = "down" /\ revision = Expand
    <3>1. script = ExpandDown /\ i \in 1..Len(ExpandDown)
      <4>1. script = ExpandDown
        BY <2>7 DEF Script, Base, Expand, Backfill, Contract
      <4>2. Len(ExpandDown) \in Nat
        BY ExpandDownDrops
      <4> QED BY <2>2, <2>3, <4>1, <4>2
    <3>2. Rows' /\ Facts' /\ Columned'
      BY <1>2, <2>1, <2>2, <2>7, <3>1, ExpandDownStatement
    <3>3. Running'
      BY <2>1, <2>2, <2>7 DEF IInv, Running, Expand, Contract
    <3> QED BY <3>2, <3>3 DEF IInv
  <2>8. CASE command.direction = "down" /\ revision = Contract
    <3>1. script = ContractDown
      BY <2>8 DEF Script, Base, Expand, Backfill, Contract
    <3>2. i \in 1..Len(ContractDown)
      BY <2>2, <2>3, <3>1, RestoreScript
    <3>3. /\ Rows' /\ Facts' /\ Columned'
          /\ command'.step > 1 => Owner \in schema'
          /\ command'.step > 2 => Done \in schema'
          /\ command'.step > 3 =>
               \A t \in LiveTasks' :
                 /\ legacy'[t].owner = meant'[t].owner
                 /\ legacy'[t].completed = Completed(meant'[t].done)
      BY <1>2, <2>1, <2>2, <2>8, <3>1, <3>2, RestoreStatement
    <3>4. Running'
      BY <2>1, <2>2, <2>8, <3>3 DEF IInv, Running
    <3> QED BY <3>3, <3>4 DEF IInv
  <2> QED BY <2>2, <2>4, <2>5, <2>6, <2>7, <2>8
<1> QED BY <1>1, <1>2 DEF RunStatement

-----------------------------------------------------------------------------
(* The applications.                                                       *)

\* A row after a request of the new application: as it was except for its status,
\* or new, or gone.
Kept(t) == task'[t].creator = task[t].creator /\ task'[t].status = task[t].status
Moved(t) == task'[t].creator = task[t].creator /\ task'[t].status \in Statuses
Born(t) == task'[t].creator \in Users /\ task'[t].status \in Statuses

\* What a write of the application of this commit leaves of a row: nothing, the row
\* as it was with its facts kept or moved, or a row born with its facts.
LEMMA BoardRow ==
  ASSUME Rows, Board!Next, NEW t \in Tasks
  PROVE  /\ task' = [x \in Tasks |-> task'[x]]
         /\ IsRow(task'[t])
         /\ Live(t)' => (Live(t) /\ (Kept(t) \/ Moved(t))) \/ Born(t)
<1> DEFINE Goal == /\ task' = [x \in Tasks |-> task'[x]]
                   /\ IsRow(task'[t])
                   /\ Live(t)' => (Live(t) /\ (Kept(t) \/ Moved(t))) \/ Born(t)
<1>1. /\ task = [x \in Tasks |-> task[x]]
      /\ task[t] = [phase |-> task[t].phase, ws |-> task[t].ws, creator |-> task[t].creator,
                    assignee |-> task[t].assignee, status |-> task[t].status,
                    content |-> task[t].content]
  BY DEF Rows, IsRow
<1>2. CASE UNCHANGED task
  BY <1>1, <1>2 DEF Live, Kept, IsRow
<1>3. ASSUME NEW w \in Workspaces, NEW u \in Users, Board!RemoveMember(w, u)
      PROVE  Goal
  <2>1. task' = [x \in Tasks |->
                 IF /\ Board!Live(x) /\ task[x].ws = w
                    /\ task[x].assignee = u /\ task[x].status # "DONE"
                 THEN [task[x] EXCEPT !.assignee = Board!NoUser] ELSE task[x]]
    BY <1>3 DEF Board!RemoveMember
  <2>2. task'[t] \in {task[t], [task[t] EXCEPT !.assignee = Board!NoUser]}
    BY <2>1
  <2>3. task' = [x \in Tasks |-> task'[x]]
    BY <2>1
  <2> QED BY <1>1, <2>2, <2>3 DEF Live, Kept, IsRow
<1>4. ASSUME NEW s \in Tasks, NEW row, IsRow(row), task' = [task EXCEPT ![s] = row],
             t = s => \/ row.phase # "live"
                      \/ Live(t) /\ row.creator = task[t].creator
                                 /\ (row.status = task[t].status \/ row.status \in Statuses)
                      \/ row.creator \in Users /\ row.status \in Statuses
      PROVE  Goal
  <2>1. task'[t] = IF t = s THEN row ELSE task[t]
    BY <1>1, <1>4
  <2>2. task' = [x \in Tasks |-> task'[x]]
    BY <1>1, <1>4
  <2>3. IsRow(task'[t])
    BY <1>1, <1>4, <2>1 DEF IsRow
  <2>4. Live(t)' => (Live(t) /\ (Kept(t) \/ Moved(t))) \/ Born(t)
    BY <1>4, <2>1 DEF Live, Kept, Moved, Born
  <2> QED BY <2>2, <2>3, <2>4
<1>5. \A s \in Tasks : task[s] = [phase |-> task[s].phase, ws |-> task[s].ws,
         creator |-> task[s].creator, assignee |-> task[s].assignee,
         status |-> task[s].status, content |-> task[s].content]
  BY DEF Rows, IsRow
<1> HIDE DEF Goal
<1>6. ASSUME NEW s \in Tasks, NEW w, NEW a \in Users, NEW c, Board!CreateTask(s, w, a, c)
      PROVE  Goal
  <2> DEFINE row == [phase |-> "live", ws |-> w, creator |-> a, assignee |-> Board!NoUser,
                     status |-> "TODO", content |-> c]
  <2>1. IsRow(row) /\ row.creator \in Users /\ row.status \in Statuses
    BY DEF IsRow, Statuses
  <2>2. task' = [task EXCEPT ![s] = row]
    BY <1>6 DEF Board!CreateTask
  <2> HIDE DEF row
  <2> QED BY <1>4, <2>1, <2>2
<1>7. ASSUME NEW s \in Tasks, NEW c, Board!UpdateTask(s, c)
      PROVE  Goal
  <2> DEFINE row == [task[s] EXCEPT !.content = c]
  <2>1. IsRow(row) /\ row.creator = task[s].creator /\ row.status = task[s].status
    <3>1. task[s] = [phase |-> task[s].phase, ws |-> task[s].ws, creator |-> task[s].creator,
                     assignee |-> task[s].assignee, status |-> task[s].status,
                     content |-> task[s].content]
      BY <1>5
    <3> QED BY <3>1 DEF IsRow
  <2>2. task' = [task EXCEPT ![s] = row] /\ Live(s)
    BY <1>7 DEF Board!UpdateTask, Board!Live, Live
  <2> HIDE DEF row
  <2> QED BY <1>4, <2>1, <2>2
<1>8. ASSUME NEW s \in Tasks, Board!DeleteTask(s)
      PROVE  Goal
  <2> DEFINE row == Board!EmptyRow("deleted")
  <2>1. IsRow(row) /\ row.phase # "live"
    BY DEF IsRow, Board!EmptyRow
  <2>2. task' = [task EXCEPT ![s] = row]
    BY <1>8 DEF Board!DeleteTask
  <2> HIDE DEF row
  <2> QED BY <1>4, <2>1, <2>2
<1>9. ASSUME NEW s \in Tasks, NEW a, NEW v \in Board!Statuses, Board!UpdateTaskStatus(s, a, v)
      PROVE  Goal
  <2> DEFINE row == [task[s] EXCEPT !.status = v]
  <2>1. IsRow(row) /\ row.creator = task[s].creator /\ row.status \in Statuses
    <3>1. task[s] = [phase |-> task[s].phase, ws |-> task[s].ws, creator |-> task[s].creator,
                     assignee |-> task[s].assignee, status |-> task[s].status,
                     content |-> task[s].content]
      BY <1>5
    <3> QED BY <3>1 DEF IsRow, Statuses, Board!Statuses
  <2>2. task' = [task EXCEPT ![s] = row] /\ Live(s)
    BY <1>5, <1>9 DEF Board!UpdateTaskStatus, Board!Live, Live
  <2> HIDE DEF row
  <2> QED BY <1>4, <2>1, <2>2
<1>10. ASSUME NEW s \in Tasks, NEW a, NEW u, Board!UpdateTaskAssignee(s, a, u)
       PROVE  Goal
  <2> DEFINE row == [task[s] EXCEPT !.assignee = u]
  <2>1. IsRow(row) /\ row.creator = task[s].creator /\ row.status = task[s].status
    <3>1. task[s] = [phase |-> task[s].phase, ws |-> task[s].ws, creator |-> task[s].creator,
                     assignee |-> task[s].assignee, status |-> task[s].status,
                     content |-> task[s].content]
      BY <1>5
    <3> QED BY <3>1 DEF IsRow
  <2>2. task' = [task EXCEPT ![s] = row] /\ Live(s)
    BY <1>10 DEF Board!UpdateTaskAssignee, Board!Live, Live
  <2> HIDE DEF row
  <2> QED BY <1>4, <2>1, <2>2
<1>11. ASSUME NEW w, NEW u, NEW r,
              \/ Board!CreateWorkspace(w, u)
              \/ Board!AddMember(w, u, r)
              \/ Board!UpdateMemberRole(w, u, r)
       PROVE  Goal
  BY <1>2, <1>11 DEF Board!CreateWorkspace, Board!AddMember, Board!UpdateMemberRole, Goal
<1>12. Goal
  BY <1>3, <1>6, <1>7, <1>8, <1>9, <1>10, <1>11 DEF Board!Next
<1> QED BY <1>12 DEF Goal

\* Its requests keep the table of tasks a table.
LEMMA BoardTable ==
  ASSUME Rows, Board!Next
  PROVE  task' = [x \in Tasks |-> task'[x]]
<1>1. task = [x \in Tasks |-> task[x]]
  BY DEF Rows
<1>2. UNCHANGED task => task' = [x \in Tasks |-> task'[x]]
  BY <1>1
<1>3. \A s, row : task' = [task EXCEPT ![s] = row] => task' = [x \in Tasks |-> task'[x]]
  BY <1>1
<1>4. ASSUME NEW s, NEW w, NEW a, NEW c, Board!CreateTask(s, w, a, c)
      PROVE  task' = [x \in Tasks |-> task'[x]]
  BY <1>3, <1>4 DEF Board!CreateTask
<1>5. ASSUME NEW s, NEW c, Board!UpdateTask(s, c)
      PROVE  task' = [x \in Tasks |-> task'[x]]
  BY <1>3, <1>5 DEF Board!UpdateTask
<1>6. ASSUME NEW s, Board!DeleteTask(s)
      PROVE  task' = [x \in Tasks |-> task'[x]]
  BY <1>3, <1>6 DEF Board!DeleteTask
<1>7. ASSUME NEW s, NEW a, NEW v, Board!UpdateTaskStatus(s, a, v)
      PROVE  task' = [x \in Tasks |-> task'[x]]
  BY <1>3, <1>7 DEF Board!UpdateTaskStatus
<1>8. ASSUME NEW s, NEW a, NEW u, Board!UpdateTaskAssignee(s, a, u)
      PROVE  task' = [x \in Tasks |-> task'[x]]
  BY <1>3, <1>8 DEF Board!UpdateTaskAssignee
<1>9. ASSUME NEW w, NEW u, Board!RemoveMember(w, u)
      PROVE  task' = [x \in Tasks |-> task'[x]]
  BY <1>9 DEF Board!RemoveMember
<1>10. ASSUME NEW w, NEW u, NEW r,
              \/ Board!CreateWorkspace(w, u)
              \/ Board!AddMember(w, u, r)
              \/ Board!UpdateMemberRole(w, u, r)
       PROVE  task' = [x \in Tasks |-> task'[x]]
  BY <1>2, <1>10 DEF Board!CreateWorkspace, Board!AddMember, Board!UpdateMemberRole
<1> QED
  BY <1>4, <1>5, <1>6, <1>7, <1>8, <1>9, <1>10 DEF Board!Next

\* Where the new application serves, the old columns are gone.
LEMMA NewAppStep ==
  ASSUME IInv, NewAppWrites
  PROVE  IInv'
<1>1. /\ NewAppServes /\ Edit /\ Board!Next /\ UNCHANGED <<users, legacy>>
      /\ meant' = [t \in Tasks |->
           IF task'[t].phase = "live"
           THEN [owner |-> task'[t].creator, done |-> task'[t].status = "DONE"] ELSE NothingMeant]
  BY DEF NewAppWrites
<1>2. /\ revision \in {Contract, Cleanup} /\ UNCHANGED <<revision, schema, command>>
  BY <1>1 DEF NewAppServes, Edit
<1>3. Owner \notin schema /\ Done \notin schema
  <2>1. schema \ {MappingTable} = FinalTasks
    BY <1>1 DEF NewAppServes
  <2>2. Owner # MappingTable /\ Done # MappingTable
    BY DEF Owner, Done, Column, MappingTable
  <2>3. Owner \notin FinalTasks /\ Done \notin FinalTasks
    BY FinalHasNoOldColumn
  <2> QED BY <2>1, <2>2, <2>3
<1>4. \A t \in Tasks : legacy[t].owner = NoUser /\ legacy[t].completed = Null
  BY <1>3 DEF IInv, Columned
<1>5. ASSUME NEW t \in Tasks
      PROVE  /\ task' = [x \in Tasks |-> task'[x]]
             /\ IsRow(task'[t])
             /\ Live(t)' => (Live(t) /\ (Kept(t) \/ Moved(t))) \/ Born(t)
  BY <1>1, BoardRow DEF IInv
<1>6. \A t \in Tasks : IsMeaning(meant'[t])
  BY <1>1 DEF IsMeaning, NothingMeant
<1>7. task' = [t \in Tasks |-> task'[t]]
  BY <1>1, BoardTable DEF IInv
<1>8. Rows'
  BY <1>1, <1>5, <1>6, <1>7 DEF IInv, Rows
<1>9. Columned' /\ Running'
  BY <1>1, <1>2, <1>4 DEF IInv, Columned, Running, Edit, Idle, NoCommand, Base, Expand, Contract, Cleanup
<1>10. ASSUME NEW t \in Tasks, Live(t)'
       PROVE  Truthful(t)' /\ NewFact(t)'
  <2>1. task'[t].creator # NoUser /\ task'[t].status # Null
    <3>1. ASSUME Live(t), Kept(t) \/ Moved(t)
          PROVE  task'[t].creator # NoUser /\ task'[t].status # Null
      <4>1. Truthful(t) /\ NewFact(t)
        BY <1>2, <3>1 DEF IInv, Facts, LiveTasks, NewColumnsRule
      <4> QED BY <3>1, <4>1 DEF Truthful, NewFact, Kept, Moved, Statuses, Null
    <3>2. ASSUME Born(t)
          PROVE  task'[t].creator # NoUser /\ task'[t].status # Null
      BY <3>2, ConstantsAssumption DEF Born, Statuses, Null
    <3> QED BY <1>5, <1>10, <3>1, <3>2
  <2>2. meant'[t] = [owner |-> task'[t].creator, done |-> task'[t].status = "DONE"]
    BY <1>1, <1>10 DEF Live
  <2>3. legacy'[t].owner = NoUser /\ legacy'[t].completed = Null
    BY <1>1, <1>4
  <2> QED BY <2>1, <2>2, <2>3 DEF Truthful, NewFact
<1>11. Facts'
  BY <1>2, <1>10 DEF Facts, LiveTasks, Base, Expand, Backfill, Contract, Cleanup
<1> QED BY <1>8, <1>9, <1>11 DEF IInv

\* Where the old application serves, the old columns are there.
LEMMA OldAppFrame ==
  ASSUME IInv, OldAppServes, Edit
  PROVE  /\ Owner \in schema /\ Done \in schema
         /\ UNCHANGED <<revision, schema, command>>
         /\ revision \in {Base, Expand, Backfill}
         /\ ~NewColumnsRule' /\ Running'
<1>1. revision \in {Base, Expand, Backfill} /\ UNCHANGED <<revision, schema, command>> /\ Idle
  BY DEF OldAppServes, Edit
<1>2. BaseSchema \subseteq schema
  BY <1>1 DEF OldAppServes, SchemaAt, ExpandedSchema, Base, Expand, Backfill, Contract, Cleanup
<1>3. Owner \in schema /\ Done \in schema
  <2>1. LegacyColumns = <<Owner, Done>>
    BY ObjectTypes
  <2>2. {Owner, Done} \subseteq Objects(LegacyColumns)
    BY <2>1 DEF Objects
  <2> QED BY <1>2, <2>2 DEF BaseSchema
<1>4. ~NewColumnsRule'
  BY <1>1, <1>3 DEF NewColumnsRule, Idle, NoCommand, Base, Expand, Backfill, Contract, Cleanup
<1>5. Running'
  BY <1>1 DEF IInv, Running, Idle, Base, Expand, Backfill, Contract
<1> QED BY <1>1, <1>3, <1>4, <1>5

\* A write of the old application to a task.
LEMMA OldTaskStep ==
  ASSUME IInv, NEW t \in Tasks, NEW row, NEW old, NEW meaning,
         OldTask(t, row, old, meaning),
         IsRow(row), IsLegacy(old), IsMeaning(meaning),
         row.phase = "live" =>
           /\ meaning.owner # NoUser /\ meaning.done \in BOOLEAN
           /\ row.creator \in {NoUser, meaning.owner}
           /\ old.owner = meaning.owner /\ old.completed = Completed(meaning.done)
  PROVE  IInv'
<1>1. /\ OldAppServes /\ Edit /\ UNCHANGED users
      /\ task' = [task EXCEPT ![t] = row]
      /\ legacy' = [legacy EXCEPT ![t] = old]
      /\ meant' = [meant EXCEPT ![t] = meaning]
  BY DEF OldTask
<1>2. /\ Owner \in schema /\ Done \in schema
      /\ UNCHANGED <<revision, schema, command>>
      /\ revision \in {Base, Expand, Backfill}
      /\ ~NewColumnsRule' /\ Running'
  BY <1>1, OldAppFrame
<1>3. /\ task = [x \in Tasks |-> task[x]] /\ legacy = [x \in Tasks |-> legacy[x]]
      /\ meant = [x \in Tasks |-> meant[x]]
  BY DEF IInv, Rows
<1>4. \A x \in Tasks :
        /\ task'[x] = IF x = t THEN row ELSE task[x]
        /\ legacy'[x] = IF x = t THEN old ELSE legacy[x]
        /\ meant'[x] = IF x = t THEN meaning ELSE meant[x]
  BY <1>1, <1>3
<1>5. Rows'
  <2>1. /\ task' = [x \in Tasks |-> task'[x]] /\ legacy' = [x \in Tasks |-> legacy'[x]]
        /\ meant' = [x \in Tasks |-> meant'[x]]
    BY <1>1, <1>3
  <2> QED BY <1>1, <1>4, <2>1 DEF IInv, Rows
<1>6. Columned'
  BY <1>2 DEF Columned
<1>7. ASSUME NEW x \in Tasks, Live(x)'
      PROVE  Truthful(x)' /\ OldFact(x)'
  <2>1. CASE x = t
    BY <1>4, <1>7, <2>1 DEF Live, Truthful, OldFact
  <2>2. CASE x # t
    <3>1. Truthful(x) /\ OldFact(x)
      BY <1>2, <1>4, <1>7, <2>2 DEF IInv, Facts, LiveTasks, Live
    <3> QED BY <1>2, <1>4, <2>2, <3>1 DEF Truthful, OldFact
  <2> QED BY <2>1, <2>2
<1>8. Facts'
  BY <1>2, <1>7 DEF Facts, LiveTasks
<1> QED BY <1>2, <1>5, <1>6, <1>8 DEF IInv

\* The old application keeps the facts in the old columns.
LEMMA OldAppStep ==
  ASSUME IInv,
         \/ \E t \in Tasks :
              \/ \E u \in Users, c \in Contents : CreateOldTask(t, u, c)
              \/ \E done \in BOOLEAN : SetCompleted(t, done)
              \/ DeleteOldTask(t)
         \/ OldAppWritesWorkspaces
  PROVE  IInv'
<1>1. ASSUME NEW t \in Tasks, NEW u \in Users, NEW c, CreateOldTask(t, u, c)
      PROVE  IInv'
  <2> DEFINE row == OldRow(c)
             old == [owner |-> u, completed |-> "false"]
             meaning == [owner |-> u, done |-> FALSE]
  <2>1. OldTask(t, row, old, meaning)
    BY <1>1 DEF CreateOldTask
  <2>2. /\ IsRow(row) /\ IsLegacy(old) /\ IsMeaning(meaning)
        /\ meaning.owner # NoUser /\ meaning.done \in BOOLEAN
        /\ row.creator = NoUser
        /\ old.owner = meaning.owner /\ old.completed = Completed(meaning.done)
    BY ConstantsAssumption DEF IsRow, OldRow, IsLegacy, IsMeaning, Completed
  <2> HIDE DEF row, old, meaning
  <2> QED BY <2>1, <2>2, OldTaskStep
<1>2. ASSUME NEW t \in Tasks, NEW done \in BOOLEAN, SetCompleted(t, done)
      PROVE  IInv'
  <2> DEFINE old == [legacy[t] EXCEPT !.completed = Completed(done)]
             meaning == [meant[t] EXCEPT !.done = done]
  <2>1. OldTask(t, task[t], old, meaning) /\ Live(t)
    BY <1>2 DEF SetCompleted
  <2>2. legacy[t] = [owner |-> legacy[t].owner, completed |-> legacy[t].completed]
    BY DEF IInv, Rows, IsLegacy
  <2>3. meant[t] = [owner |-> meant[t].owner, done |-> meant[t].done]
    BY DEF IInv, Rows, IsMeaning
  <2>4. /\ IsLegacy(old) /\ old.owner = legacy[t].owner /\ old.completed = Completed(done)
        /\ IsMeaning(meaning) /\ meaning.owner = meant[t].owner /\ meaning.done = done
    BY <2>2, <2>3 DEF IsLegacy, IsMeaning
  <2>5. OldAppServes /\ Edit
    BY <2>1 DEF OldTask
  <2>6. Truthful(t) /\ legacy[t].owner = meant[t].owner
    BY <2>1, <2>5, OldAppFrame DEF IInv, Facts, LiveTasks, OldFact
  <2>7. IsRow(task[t])
    BY DEF IInv, Rows
  <2> HIDE DEF old, meaning
  <2> QED BY <2>1, <2>4, <2>6, <2>7, OldTaskStep DEF Truthful
<1>3. ASSUME NEW t \in Tasks, DeleteOldTask(t)
      PROVE  IInv'
  <2> DEFINE row == Board!EmptyRow("deleted")
  <2>1. OldTask(t, row, NoLegacy, NothingMeant)
    BY <1>3 DEF DeleteOldTask
  <2>2. /\ IsRow(row) /\ row.phase # "live" /\ IsLegacy(NoLegacy) /\ IsMeaning(NothingMeant)
    BY DEF IsRow, Board!EmptyRow, IsLegacy, NoLegacy, IsMeaning, NothingMeant
  <2> HIDE DEF row
  <2> QED BY <2>1, <2>2, OldTaskStep
<1>4. CASE OldAppWritesWorkspaces
  <2>1. OldAppServes /\ Edit /\ UNCHANGED <<users, legacy, meant>>
    BY <1>4 DEF OldAppWritesWorkspaces
  <2>2. UNCHANGED task
    BY <1>4 DEF OldAppWritesWorkspaces, Board!CreateWorkspace, Board!AddMember
  <2>3. UNCHANGED <<revision, schema, command>> /\ ~NewColumnsRule' /\ Running'
    BY <2>1, OldAppFrame
  <2>4. users' \subseteq Users
    BY <2>1 DEF IInv, Rows
  <2> QED BY <2>1, <2>2, <2>3, <2>4, SameRows DEF IInv
<1> QED BY <1>1, <1>2, <1>3, <1>4

\* A registration touches no task.
LEMMA RegisterStep ==
  ASSUME IInv, NEW u \in Users, Register(u)
  PROVE  IInv'
<1>1. /\ UNCHANGED <<task, legacy, meant, revision, schema, command>>
      /\ users' = users \cup {u} /\ Idle
  BY DEF Register, Edit
<1>2. users' \subseteq Users
  BY <1>1 DEF IInv, Rows
<1>3. NewColumnsRule' => NewColumnsRule
  BY <1>1 DEF NewColumnsRule
<1>4. Running'
  BY <1>1 DEF IInv, Running, Idle, NoCommand
<1> QED BY <1>1, <1>2, <1>3, <1>4, SameRows DEF IInv

-----------------------------------------------------------------------------
(* The theorem.                                                            *)

\* In an old database the old columns say it all.
LEMMA InitHolds ==
  ASSUME Init
  PROVE  IInv
<1>1. /\ revision = Base /\ schema = BaseSchema /\ command = NoCommand
      /\ meant = [t \in Tasks |->
           IF Live(t) THEN [owner |-> legacy[t].owner, done |-> legacy[t].completed = "true"]
           ELSE NothingMeant]
  BY DEF Init, InitialCommand
<1>2. /\ users \subseteq Users
      /\ task \in [Tasks -> {OldRow(c) : c \in Contents} \cup {Board!EmptyRow("unused")}]
      /\ legacy \in [Tasks -> [owner : users, completed : {"true", "false"}] \cup {NoLegacy}]
      /\ \A t \in Tasks : Live(t) <=> legacy[t] # NoLegacy
  BY DEF Init, LegacyDatabase
<1>3. ASSUME NEW t \in Tasks
      PROVE  /\ IsRow(task[t]) /\ IsLegacy(legacy[t]) /\ IsMeaning(meant[t])
             /\ Live(t) => Truthful(t) /\ OldFact(t)
  <2>1. task[t] = Board!EmptyRow("unused") \/ \E c \in Contents : task[t] = OldRow(c)
    BY <1>2
  <2>2. IsRow(task[t]) /\ (Live(t) => task[t].creator = NoUser)
    <3>1. CASE task[t] = Board!EmptyRow("unused")
      BY <3>1 DEF IsRow, Board!EmptyRow, Live
    <3>2. ASSUME NEW c, task[t] = OldRow(c)
          PROVE  IsRow(task[t]) /\ task[t].creator = NoUser
      BY <3>2 DEF IsRow, OldRow
    <3> QED BY <2>1, <3>1, <3>2
  <2>3. legacy[t] = NoLegacy \/ legacy[t] \in [owner : users, completed : {"true", "false"}]
    BY <1>2
  <2>4. IsLegacy(legacy[t])
    BY <2>3 DEF IsLegacy, NoLegacy
  <2>5. meant[t] = IF Live(t) THEN [owner |-> legacy[t].owner, done |-> legacy[t].completed = "true"]
                   ELSE NothingMeant
    BY <1>1
  <2>6. IsMeaning(meant[t])
    <3>1. CASE Live(t)
      <4>1. meant[t] = [owner |-> legacy[t].owner, done |-> legacy[t].completed = "true"]
        BY <2>5, <3>1
      <4> QED BY <4>1 DEF IsMeaning
    <3>2. CASE ~Live(t)
      <4>1. meant[t] = NothingMeant
        BY <2>5, <3>2
      <4> QED BY <4>1 DEF IsMeaning, NothingMeant
    <3> QED BY <3>1, <3>2
  <2>7. ASSUME Live(t)
        PROVE  Truthful(t) /\ OldFact(t)
    <3>1. legacy[t].owner \in Users /\ legacy[t].completed \in {"true", "false"}
      BY <1>2, <2>3, <2>7
    <3>2. legacy[t].owner # NoUser
      BY <3>1, ConstantsAssumption
    <3>3. meant[t].owner = legacy[t].owner /\ meant[t].done = (legacy[t].completed = "true")
      BY <2>5, <2>7
    <3> QED BY <2>2, <2>7, <3>1, <3>2, <3>3 DEF Truthful, OldFact, Completed
  <2> QED BY <2>2, <2>4, <2>6, <2>7
<1>4. Rows
  BY <1>1, <1>2, <1>3 DEF Rows
<1>5. Owner \in schema /\ Done \in schema
  <2>1. LegacyColumns = <<Owner, Done>>
    BY ObjectTypes
  <2>2. {Owner, Done} \subseteq Objects(LegacyColumns)
    BY <2>1 DEF Objects
  <2> QED BY <1>1, <2>2 DEF BaseSchema
<1>6. Columned
  BY <1>5 DEF Columned
<1>7. ~NewColumnsRule
  BY <1>1 DEF NewColumnsRule, Base, Backfill, Contract, Cleanup
<1>8. Facts
  BY <1>3, <1>7 DEF Facts, LiveTasks
<1>9. Running
  BY <1>1 DEF Running, Revisions, Base, Contract, Cleanup, Idle
<1> QED BY <1>4, <1>6, <1>8, <1>9 DEF IInv

\* Every reachable state satisfies the invariant.
THEOREM Invariance == Spec => []IInv
<1>1. Init => IInv
  BY InitHolds
<1>2. ASSUME IInv, [Next]_vars
      PROVE  IInv'
  <2>1. CASE UNCHANGED vars
    <3>1. /\ UNCHANGED <<task, legacy, meant, users, revision, schema, command>>
      BY <2>1 DEF vars, tables, history
    <3>2. Rows' /\ Columned'
      BY <1>2, <3>1 DEF IInv, Rows, Columned
    <3>3. Facts'
      BY <1>2, <3>1 DEF IInv, Facts, LiveTasks, Live, Truthful, OldFact, NewFact, NewColumnsRule
    <3>4. Running'
      BY <1>2, <3>1 DEF IInv, Running, Idle, LiveTasks, Live
    <3> QED BY <3>2, <3>3, <3>4 DEF IInv
  <2>2. CASE Crash
    BY <1>2, <2>2, StoppedStep DEF Crash, End
  <2>3. CASE Commands
    BY <1>2, <2>2, <2>3, StartStep, BackfillStep, UndoBackfillStep, StatementStep, RecordStep
    DEF Commands
  <2>4. CASE Applications
    BY <1>2, <2>4, RegisterStep, NewAppStep, OldAppStep DEF Applications
  <2> QED BY <1>2, <2>1, <2>3, <2>4 DEF Next
<1> QED BY <1>1, <1>2, PTL DEF Spec

\* Whose a task is and whether it is done can be read from its row at every
\* moment, between any two DDL statements and after any crash.
THEOREM FactsAreKept == Spec => []NoFactLost
<1>1. IInv => NoFactLost
  BY FactsReadable
<1> QED BY <1>1, Invariance, PTL

-----------------------------------------------------------------------------
(* What users did stays.                                                   *)

\* From the backfill on, a statement of a script leaves tasks and memberships alone.
LEMMA LateStatement ==
  ASSUME IInv, RunStatement, revision >= Backfill
  PROVE  UNCHANGED <<users, creator, role, task>>
<1> DEFINE script == Script(revision, command.direction)
           i == command.step
<1>1. CASE Refuse(command.direction)
  BY <1>1 DEF Refuse, tables
<1>2. CASE /\ Execute(script[i]) /\ Executable(script[i])
           /\ command' = [command EXCEPT !.step = @ + 1]
           /\ UNCHANGED <<revision, outcome, history>>
  <2>1. /\ i \in Nat \ {0} /\ i <= Len(script)
        /\ \/ command.direction = "up" /\ revision \in {Base, Backfill, Contract}
           \/ command.direction = "down" /\ revision \in {Expand, Contract}
    BY <1>2, StatementFrame DEF RunStatement
  <2>2. ASSUME NEW object,
               Add(object) \/ (Drop(object) /\ (Constraint(object) \/ object \in {Owner, Done}))
        PROVE  UNCHANGED <<users, creator, role, task>>
    <3>1. CASE Add(object)
      BY <3>1 DEF Add, tables
    <3>2. CASE Drop(object)
      <4>1. UNCHANGED <<users, creator, role>>
        BY <3>2 DEF Drop
      <4>3. Add(object) => UNCHANGED task
        BY DEF Add, tables
      <4>2. UNCHANGED task
        <5>1. Rows
          BY DEF IInv
        <5>2. CASE Constraint(object)
          BY <3>2, <5>1, <5>2, DropConstraint
        <5>3. CASE object \in {Owner, Done}
          BY <3>2, <5>1, <5>3, DropOldColumn
        <5>4. Constraint(object) \/ object \in {Owner, Done} \/ Add(object)
          BY <2>2
        <5> QED BY <4>3, <5>2, <5>3, <5>4
      <4> QED BY <4>1, <4>2
    <3> QED BY <2>2, <3>1, <3>2
  <2>3. CASE command.direction = "up" /\ revision = Backfill
    <3>1. script = ContractUp
      BY <2>3 DEF Script, Base, Expand, Backfill, Contract
    <3>2. i \in 1..Len(ContractUp)
      <4>1. Len(ContractUp) \in Nat
        BY ContractUpStatements
      <4> QED BY <2>1, <3>1, <4>1
    <3>3. \/ ContractUp[i].verb = "add"
          \/ ContractUp[i].verb = "drop" /\ ContractUp[i].object \in {OwnerReference, Owner, Done}
      BY <3>2, ContractUpStatements
    <3>4. Constraint(OwnerReference)
      BY DEF Constraint, OwnerReference
    <3> QED BY <1>2, <2>2, <3>1, <3>3, <3>4 DEF Execute
  <2>4. CASE command.direction = "up" /\ revision = Contract
    <3>1. CleanupUp = <<[verb |-> "drop", object |-> MappingTable]>>
      BY DEF CleanupUp, Dropping
    <3>2. script = CleanupUp
      BY <2>4 DEF Script, Base, Backfill, Contract
    <3>3. script[i] = [verb |-> "drop", object |-> MappingTable]
      BY <2>1, <3>1, <3>2
    <3>4. Drop(MappingTable) /\ Constraint(MappingTable)
      BY <1>2, <3>3 DEF Execute, Constraint, MappingTable
    <3> QED BY <2>2, <3>4
  <2>5. CASE command.direction = "down" /\ revision = Contract
    <3>1. script = ContractDown
      BY <2>5 DEF Script, Base, Expand, Backfill, Contract
    <3>2. i \in 1..Len(ContractDown)
      <4>1. Len(ContractDown) \in Nat
        BY ContractDownStatements
      <4> QED BY <2>1, <3>1, <4>1
    <3>3. i = 1 \/ i = 2 \/ i = 3 \/ i > 3
      BY <2>1
    <3>4. \/ ContractDown[i].verb = "add"
          \/ ContractDown[i].verb = "update"
          \/ ContractDown[i].verb = "drop" /\ Constraint(ContractDown[i].object)
      BY <3>2, <3>3, RestoreScript DEF Constraint
    <3>5. UpdateTasks => UNCHANGED <<users, creator, role, task>>
      BY DEF UpdateTasks
    <3> QED BY <1>2, <2>2, <3>1, <3>4, <3>5 DEF Execute
  <2> QED BY <2>1, <2>3, <2>4, <2>5 DEF Base, Expand, Backfill, Contract
<1> QED BY <1>1, <1>2 DEF RunStatement

\* The backfill's downgrade empties rows in which no user has left work.
LEMMA UndoKeepsWork ==
  ASSUME IInv, DowngradeFromBackfill
  PROVE  UsersWorkKept
<1>1. CASE Refuse("down")
  BY <1>1 DEF Refuse, tables, UsersWorkKept, LiveTasks, Live
<1>2. ASSUME ~Refuse("down")
      PROVE  UsersWorkKept
  <2>1. /\ CanUndoBackfill
        /\ role' = [w \in Workspaces |-> IF w \in Generated THEN NoRoles ELSE role[w]]
        /\ task' = [t \in Tasks |-> IF t \in Returned THEN OldRow(task[t].content) ELSE task[t]]
    BY <1>2 DEF DowngradeFromBackfill
  <2>2. BackfillUnchanged /\ Done \in schema
    <3>1. LegacyColumns = <<Owner, Done>>
      BY ObjectTypes
    <3>2. {Owner, Done} \subseteq Objects(LegacyColumns)
      BY <3>1 DEF Objects
    <3> QED BY <2>1, <3>2 DEF CanUndoBackfill
  <2>3. ASSUME NEW t \in Returned
        PROVE  task[t].assignee = NoUser /\ task[t].status # "IN_PROGRESS"
    <3>1. t \in LiveTasks /\ legacy[t].owner \in Mapped /\ task[t].ws = Home(legacy[t].owner)
      BY DEF Returned
    <3>2. Agrees(task[t], legacy[t]) /\ task[t].assignee = NoUser
      BY <2>2, <3>1 DEF BackfillUnchanged, TasksUnchanged
    <3>3. OldFact(t) /\ Truthful(t)
      BY <3>1 DEF IInv, Facts, DowngradeFromBackfill
    <3>4. legacy[t].completed \in {"true", "false"}
      BY <2>2, <3>3 DEF OldFact, Completed
    <3> QED BY <3>2, <3>4 DEF Agrees
  <2>4. ASSUME NEW t \in LiveTasks
        PROVE  /\ task'[t].phase = "live" /\ task'[t].content = task[t].content
               /\ task[t].assignee # NoUser => task'[t].assignee = task[t].assignee
               /\ task[t].status = "IN_PROGRESS" => task'[t].status = "IN_PROGRESS"
    <3>1. t \in Tasks /\ task[t].phase = "live"
      BY DEF LiveTasks, Live
    <3>2. task'[t] = IF t \in Returned THEN OldRow(task[t].content) ELSE task[t]
      BY <2>1, <3>1
    <3> QED BY <2>3, <3>1, <3>2 DEF OldRow
  <2>5. ASSUME NEW w \in Workspaces, NEW u \in Users,
               role[w][u] # NoRole, u \in Mapped => Home(u) # w
        PROVE  role'[w][u] = role[w][u]
    <3>1. ASSUME NEW x \in Mapped, w = Home(x)
          PROVE  FALSE
      <4>1. OwnerAlone(role[w], x)
        BY <2>2, <3>1 DEF BackfillUnchanged
      <4> QED BY <2>5, <3>1, <4>1 DEF OwnerAlone
    <3>2. w \notin Generated
      BY <3>1 DEF Generated
    <3> QED BY <2>1, <3>2
  <2> QED BY <2>4, <2>5 DEF UsersWorkKept
<1> QED BY <1>1, <1>2

\* Every write of an application is counted.
LEMMA Writes ==
  ASSUME Applications
  PROVE  Edit
<1>1. ASSUME NEW t, NEW row, NEW old, NEW meaning, OldTask(t, row, old, meaning)
      PROVE  Edit
  BY <1>1 DEF OldTask
<1>2. ASSUME NEW t, \/ \E u \in Users, c \in Contents : CreateOldTask(t, u, c)
                    \/ \E done \in BOOLEAN : SetCompleted(t, done)
                    \/ DeleteOldTask(t)
      PROVE  Edit
  BY <1>1, <1>2 DEF CreateOldTask, SetCompleted, DeleteOldTask
<1>3. ASSUME (\E u \in Users : Register(u)) \/ NewAppWrites \/ OldAppWritesWorkspaces
      PROVE  Edit
  BY <1>3 DEF Register, NewAppWrites, OldAppWritesWorkspaces
<1> QED BY <1>2, <1>3 DEF Applications

\* From the backfill on, no command touches assignments, work in progress or any
\* membership but the generated ones: for every sequence of commands and crashes.
THEOREM UsersKeepTheirWork == Spec => CommandsKeepUsersWork
<1> DEFINE Keeping == (edits' = edits /\ revision >= Backfill) => UsersWorkKept
           Counted == edits \in Nat
<1>1. Init => Counted
  BY DEF Init, InitialCommand
<1>2. Counted /\ [Next]_vars => Counted'
  <2> SUFFICES ASSUME edits \in Nat, [Next]_vars PROVE edits' \in Nat
    OBVIOUS
  <2>1. CASE UNCHANGED vars
    BY <2>1 DEF vars, history
  <2>2. CASE Commands
    BY <2>2 DEF Commands, StartUpgrade, StartDowngrade, Start, UpgradeToBackfill, DowngradeFromBackfill,
                RunStatement, RecordRevision, Crash, Refuse, Succeed, history
  <2>3. CASE Applications
    <3>1. Edit
      BY <2>3, Writes
    <3> QED BY <3>1 DEF Edit
  <2> QED BY <2>1, <2>2, <2>3 DEF Next
<1>3. IInv /\ Counted /\ [Next]_vars
        => [Keeping]_vars
  <2> SUFFICES ASSUME IInv, edits \in Nat, [Next]_vars, edits' = edits, revision >= Backfill
               PROVE  UsersWorkKept
    OBVIOUS
  <2>1. UNCHANGED <<role, task>> => UsersWorkKept
    BY DEF UsersWorkKept, LiveTasks, Live
  <2>2. CASE UNCHANGED vars
    BY <2>1, <2>2 DEF vars, tables
  <2>3. CASE Commands
    <3>1. CASE StartUpgrade \/ StartDowngrade \/ RecordRevision \/ Crash
      BY <2>1, <3>1 DEF StartUpgrade, StartDowngrade, Start, RecordRevision, Crash, Refuse, tables
    <3>2. CASE RunStatement
      BY <2>1, <3>2, LateStatement
    <3>3. CASE DowngradeFromBackfill
      BY <3>3, UndoKeepsWork
    <3>4. ~UpgradeToBackfill
      BY DEF UpgradeToBackfill, Expand, Backfill
    <3> QED BY <2>3, <3>1, <3>2, <3>3, <3>4 DEF Commands
  <2>4. CASE Applications
    <3>1. Edit
      BY <2>4, Writes
    <3> QED BY <3>1 DEF Edit
  <2> QED BY <2>2, <2>3, <2>4 DEF Next
<1>4. Spec => [][Keeping]_vars
  <2> HIDE DEF Keeping, Counted
  <2> QED BY <1>1, <1>2, <1>3, Invariance, PTL DEF Spec
<1> QED BY <1>4 DEF CommandsKeepUsersWork

-----------------------------------------------------------------------------
(* The objects of the schemas.                                             *)

\* No element of a sequence comes twice.
Distinct(s) == \A i, j \in 1..Len(s) : s[i] = s[j] => i = j

\* Whatever a script can add or drop.
AllObjects == {"column", "foreign key", "check", "index", "not null", "table"} \X Names

\* The objects of a sequence are its elements.
LEMMA ObjectsOf ==
  ASSUME NEW S, NEW s \in Seq(S)
  PROVE  Objects(s) = {s[i] : i \in 1..Len(s)}
BY DEF Objects

\* Two sequences joined have the objects of both.
LEMMA JoinedObjects ==
  ASSUME NEW S, NEW a \in Seq(S), NEW b \in Seq(S)
  PROVE  /\ a \o b \in Seq(S)
         /\ Objects(a \o b) = Objects(a) \cup Objects(b)
         /\ (Distinct(a) /\ Distinct(b) /\ Objects(a) \cap Objects(b) = {}) => Distinct(a \o b)
<1>1. /\ a \o b \in Seq(S) /\ Len(a) \in Nat /\ Len(b) \in Nat
      /\ Len(a \o b) = Len(a) + Len(b)
      /\ \A i \in 1..(Len(a) + Len(b)) :
           (a \o b)[i] = IF i <= Len(a) THEN a[i] ELSE b[i - Len(a)]
  OBVIOUS
<1> DEFINE c == a \o b
<1>2. /\ Objects(a) = {a[i] : i \in 1..Len(a)} /\ Objects(b) = {b[i] : i \in 1..Len(b)}
      /\ Objects(c) = {c[i] : i \in 1..Len(c)}
  BY <1>1, ObjectsOf
<1> HIDE DEF c
<1>3. /\ Len(c) = Len(a) + Len(b)
      /\ \A i \in 1..Len(a) : i \in 1..Len(c) /\ c[i] = a[i]
      /\ \A i \in 1..Len(b) : i + Len(a) \in 1..Len(c) /\ c[i + Len(a)] = b[i]
      /\ \A i \in 1..Len(c) : \/ i \in 1..Len(a) /\ c[i] = a[i]
                              \/ i - Len(a) \in 1..Len(b) /\ c[i] = b[i - Len(a)]
  BY <1>1 DEF c
<1>4. Objects(c) = Objects(a) \cup Objects(b)
  <2>1. ASSUME NEW x \in Objects(c)
        PROVE  x \in Objects(a) \cup Objects(b)
    BY <1>2, <1>3
  <2>2. ASSUME NEW x \in Objects(a)
        PROVE  x \in Objects(c)
    BY <1>2, <1>3
  <2>3. ASSUME NEW x \in Objects(b)
        PROVE  x \in Objects(c)
    BY <1>2, <1>3
  <2> QED BY <2>1, <2>2, <2>3
<1>5. ASSUME Distinct(a), Distinct(b), Objects(a) \cap Objects(b) = {}
      PROVE  Distinct(c)
  <2>1. ASSUME NEW i \in 1..Len(c), NEW j \in 1..Len(c), c[i] = c[j]
        PROVE  i = j
    <3>1. CASE i \in 1..Len(a) /\ j \in 1..Len(a)
      BY <1>3, <1>5, <2>1, <3>1 DEF Distinct
    <3>2. CASE i - Len(a) \in 1..Len(b) /\ j - Len(a) \in 1..Len(b)
                /\ c[i] = b[i - Len(a)] /\ c[j] = b[j - Len(a)]
      <4>1. i - Len(a) = j - Len(a)
        BY <1>5, <2>1, <3>2 DEF Distinct
      <4> QED BY <1>1, <1>3, <4>1
    <3>3. ASSUME NEW k \in 1..Len(a), NEW l \in 1..Len(b)
          PROVE  a[k] # b[l]
      BY <1>2, <1>5
    <3>4. \/ i \in 1..Len(a) /\ c[i] = a[i]
          \/ i - Len(a) \in 1..Len(b) /\ c[i] = b[i - Len(a)]
      BY <1>3
    <3>5. \/ j \in 1..Len(a) /\ c[j] = a[j]
          \/ j - Len(a) \in 1..Len(b) /\ c[j] = b[j - Len(a)]
      BY <1>3
    <3> QED BY <2>1, <3>1, <3>2, <3>3, <3>4, <3>5
  <2> QED BY <2>1 DEF Distinct
<1> QED BY <1>1, <1>4, <1>5 DEF c

\* A sequence backwards has the same objects.
LEMMA BackwardsObjects ==
  ASSUME NEW S, NEW s \in Seq(S)
  PROVE  /\ Backwards(s) \in Seq(S) /\ Len(Backwards(s)) = Len(s)
         /\ Objects(Backwards(s)) = Objects(s)
         /\ Distinct(s) => Distinct(Backwards(s))
<1> DEFINE b == Backwards(s)
<1>1. Len(s) \in Nat /\ b = [i \in 1..Len(s) |-> s[Len(s) + 1 - i]]
  BY DEF Backwards
<1>2. b \in Seq(S)
  BY BackwardsType
<1>3. Len(b) = Len(s) /\ \A i \in 1..Len(s) : b[i] = s[Len(s) + 1 - i]
  BY <1>1, <1>2
<1>4. Objects(b) = {b[i] : i \in 1..Len(b)} /\ Objects(s) = {s[i] : i \in 1..Len(s)}
  BY <1>2, ObjectsOf
<1> HIDE DEF b
<1>5. \A i \in 1..Len(s) : Len(s) + 1 - i \in 1..Len(s) /\ Len(s) + 1 - (Len(s) + 1 - i) = i
  BY <1>1
<1>6. Objects(b) = Objects(s)
  <2>1. ASSUME NEW x \in Objects(s)
        PROVE  x \in Objects(b)
    <3>1. PICK i \in 1..Len(s) : x = s[i]
      BY <1>4
    <3>2. b[Len(s) + 1 - i] = x
      BY <1>3, <1>5, <3>1
    <3> QED BY <1>3, <1>4, <1>5, <3>2
  <2>2. ASSUME NEW x \in Objects(b)
        PROVE  x \in Objects(s)
    BY <1>3, <1>4, <1>5
  <2> QED BY <2>1, <2>2
<1>7. ASSUME Distinct(s)
      PROVE  Distinct(b)
  <2>1. ASSUME NEW i \in 1..Len(s), NEW j \in 1..Len(s), b[i] = b[j]
        PROVE  i = j
    <3>1. Len(s) + 1 - i = Len(s) + 1 - j
      BY <1>3, <1>5, <1>7, <2>1 DEF Distinct
    <3> QED BY <1>1, <3>1
  <2> QED BY <1>3, <2>1 DEF Distinct
<1> QED BY <1>2, <1>3, <1>6, <1>7 DEF b

\* One object of a kind for each of the names.
LEMMA EachObjects ==
  ASSUME NEW kind, NEW N, NEW names \in Seq(N)
  PROVE  /\ Each(kind, names) \in Seq({kind} \X N) /\ Len(Each(kind, names)) = Len(names)
         /\ \A i \in 1..Len(names) : Each(kind, names)[i] = <<kind, names[i]>>
         /\ Objects(Each(kind, names)) = {kind} \X Objects(names)
         /\ Distinct(names) => Distinct(Each(kind, names))
<1> DEFINE e == Each(kind, names)
<1>1. e = [i \in 1..Len(names) |-> <<kind, names[i]>>]
  BY DEF Each
<1>2. e \in Seq({kind} \X N)
  BY EachType
<1>3. Len(e) = Len(names) /\ \A i \in 1..Len(names) : e[i] = <<kind, names[i]>>
  BY <1>1, <1>2
<1>4. Objects(e) = {e[i] : i \in 1..Len(e)} /\ Objects(names) = {names[i] : i \in 1..Len(names)}
  BY <1>2, ObjectsOf
<1> HIDE DEF e
<1>5. Objects(e) = {kind} \X Objects(names)
  <2>1. ASSUME NEW x \in Objects(e)
        PROVE  x \in {kind} \X Objects(names)
    <3>1. PICK i \in 1..Len(names) : x = <<kind, names[i]>>
      BY <1>3, <1>4
    <3> QED BY <1>4, <3>1
  <2>2. ASSUME NEW n \in Objects(names)
        PROVE  <<kind, n>> \in Objects(e)
    <3>1. PICK i \in 1..Len(names) : n = names[i]
      BY <1>4
    <3>2. e[i] = <<kind, n>>
      BY <1>3, <3>1
    <3> QED BY <1>3, <1>4, <3>2
  <2> QED BY <2>1, <2>2
<1>6. Distinct(names) => Distinct(e)
  BY <1>3 DEF Distinct
<1> QED BY <1>2, <1>3, <1>5, <1>6 DEF e

\* A sequence over a set is one over a larger set.
LEMMA Wider ==
  ASSUME NEW S, NEW T, S \subseteq T, NEW s \in Seq(S)
  PROVE  s \in Seq(T)
OBVIOUS

\* The names of a tuple, once each.
LEMMA Tuple2 ==
  ASSUME NEW a, NEW b, a # b
  PROVE  Objects(<<a, b>>) = {a, b} /\ Distinct(<<a, b>>)
BY DEF Objects, Distinct

\* Of three different objects, each once.
LEMMA Tuple3 ==
  ASSUME NEW a, NEW b, NEW c, a \notin {b, c}, b # c
  PROVE  Objects(<<a, b, c>>) = {a, b, c} /\ Distinct(<<a, b, c>>)
<1>1. Len(<<a, b, c>>) = 3 /\ \A i \in 1..3 : i \in {1, 2, 3}
  OBVIOUS
<1> QED BY <1>1 DEF Objects, Distinct

\* Of five.
LEMMA Tuple5 ==
  ASSUME NEW a, NEW b, NEW c, NEW d, NEW e,
         a \notin {b, c, d, e}, b \notin {c, d, e}, c \notin {d, e}, d # e
  PROVE  Objects(<<a, b, c, d, e>>) = {a, b, c, d, e} /\ Distinct(<<a, b, c, d, e>>)
<1>1. Len(<<a, b, c, d, e>>) = 5 /\ \A i \in 1..5 : i \in {1, 2, 3, 4, 5}
  OBVIOUS
<1> QED BY <1>1 DEF Objects, Distinct

\* Of six.
LEMMA Tuple6 ==
  ASSUME NEW a, NEW b, NEW c, NEW d, NEW e, NEW f,
         a \notin {b, c, d, e, f}, b \notin {c, d, e, f}, c \notin {d, e, f}, d \notin {e, f}, e # f
  PROVE  Objects(<<a, b, c, d, e, f>>) = {a, b, c, d, e, f} /\ Distinct(<<a, b, c, d, e, f>>)
<1>1. Len(<<a, b, c, d, e, f>>) = 6 /\ \A i \in 1..6 : i \in {1, 2, 3, 4, 5, 6}
  OBVIOUS
<1> QED BY <1>1 DEF Objects, Distinct

\* Objects of one kind.
LEMMA PairOf ==
  ASSUME NEW kind, NEW a, NEW b
  PROVE  Each(kind, <<a, b>>) = <<<<kind, a>>, <<kind, b>>>>
BY DEF Each

\* What the expansion adds to the old schema.
New == Objects(Columns) \cup Objects(References) \cup {StatusCheck} \cup Objects(Indexes)
         \cup {MappingTable}

\* What the contract adds.
Final == Objects(Required) \cup Objects(ContentChecks)

RequiredNames == NewColumnNames \ {"assignee_id"}

\* What the revisions add and drop, each object once.
LEMMA Parts ==
  /\ Columns \in Seq(AllObjects) /\ Distinct(Columns)
     /\ Objects(Columns) = {"column"} \X NewColumnNames
  /\ References \in Seq(AllObjects) /\ Distinct(References)
     /\ Objects(References) = {"foreign key"} \X {"workspace_id", "creator_id", "assignee_id"}
  /\ Indexes \in Seq(AllObjects) /\ Distinct(Indexes)
     /\ Objects(Indexes) \in SUBSET ({"index"} \X Names)
  /\ Required \in Seq(AllObjects) /\ Distinct(Required)
     /\ Objects(Required) = {"not null"} \X RequiredNames
  /\ ContentChecks \in Seq(AllObjects) /\ Distinct(ContentChecks)
     /\ Objects(ContentChecks) = {"check"} \X {"title_length", "priority"}
<1>1. ASSUME NEW kind \in {"column", "foreign key", "check", "index", "not null", "table"},
             NEW names \in Seq(Names), Distinct(names)
      PROVE  /\ Each(kind, names) \in Seq(AllObjects) /\ Distinct(Each(kind, names))
             /\ Objects(Each(kind, names)) = {kind} \X Objects(names)
  <2>1. Each(kind, names) \in Seq({kind} \X Names) /\ {kind} \X Names \subseteq AllObjects
    BY EachType DEF AllObjects
  <2>2. Each(kind, names) \in Seq(AllObjects)
    BY <2>1, Wider
  <2>3. Distinct(Each(kind, names))
    BY <1>1, EachObjects
  <2>4. Objects(Each(kind, names)) = {kind} \X Objects(names)
    BY EachObjects
  <2> QED BY <2>2, <2>3, <2>4
<1>2. LET names == <<"workspace_id", "creator_id", "assignee_id", "status", "created_at", "updated_at">>
      IN  names \in Seq(Names) /\ Distinct(names) /\ Objects(names) = NewColumnNames
  <2>1. <<"workspace_id", "creator_id", "assignee_id", "status", "created_at", "updated_at">> \in Seq(Names)
    BY Tuples DEF Names, NewColumnNames
  <2> QED BY <2>1, Tuple6 DEF NewColumnNames
<1>3. LET names == <<"workspace_id", "creator_id", "assignee_id">>
      IN  names \in Seq(Names) /\ Distinct(names)
          /\ Objects(names) = {"workspace_id", "creator_id", "assignee_id"}
  <2>1. <<"workspace_id", "creator_id", "assignee_id">> \in Seq(Names)
    BY Tuples DEF Names, NewColumnNames
  <2> QED BY <2>1, Tuple3
<1>4. LET names == <<"workspace_id_id", "workspace_status_id", "workspace_assignee_id",
                     "creator_id", "assignee_id">>
      IN  names \in Seq(Names) /\ Distinct(names) /\ Objects(names) \subseteq Names
  <2>1. <<"workspace_id_id", "workspace_status_id", "workspace_assignee_id",
          "creator_id", "assignee_id">> \in Seq(Names)
    BY Tuples DEF Names, NewColumnNames
  <2>2. Objects(<<"workspace_id_id", "workspace_status_id", "workspace_assignee_id",
                  "creator_id", "assignee_id">>) \subseteq Names
    BY Tuple5 DEF Names, NewColumnNames
  <2> QED BY <2>1, <2>2, Tuple5
<1>5. LET names == <<"workspace_id", "creator_id", "status", "created_at", "updated_at">>
      IN  names \in Seq(Names) /\ Distinct(names) /\ Objects(names) = RequiredNames
  <2>1. <<"workspace_id", "creator_id", "status", "created_at", "updated_at">> \in Seq(Names)
    BY Tuples DEF Names, NewColumnNames
  <2>2. RequiredNames = {"workspace_id", "creator_id", "status", "created_at", "updated_at"}
    BY DEF RequiredNames, NewColumnNames
  <2> QED BY <2>1, <2>2, Tuple5
<1>6. LET names == <<"title_length", "priority">>
      IN  names \in Seq(Names) /\ Distinct(names) /\ Objects(names) = {"title_length", "priority"}
  <2>1. <<"title_length", "priority">> \in Seq(Names)
    BY Tuples DEF Names
  <2> QED BY <2>1, Tuple2
<1>7. /\ Columns \in Seq(AllObjects) /\ Distinct(Columns)
      /\ Objects(Columns) = {"column"} \X NewColumnNames
  <2> DEFINE names == <<"workspace_id", "creator_id", "assignee_id", "status", "created_at", "updated_at">>
  <2>1. names \in Seq(Names) /\ Distinct(names) /\ Objects(names) = NewColumnNames
    BY <1>2
  <2>2. Columns = Each("column", names)
    BY DEF Columns
  <2> HIDE DEF names
  <2> QED BY <1>1, <2>1, <2>2
<1>8. /\ References \in Seq(AllObjects) /\ Distinct(References)
      /\ Objects(References) = {"foreign key"} \X {"workspace_id", "creator_id", "assignee_id"}
  <2> DEFINE names == <<"workspace_id", "creator_id", "assignee_id">>
  <2>1. /\ names \in Seq(Names) /\ Distinct(names)
        /\ Objects(names) = {"workspace_id", "creator_id", "assignee_id"}
    BY <1>3
  <2>2. References = Each("foreign key", names)
    BY DEF References
  <2> HIDE DEF names
  <2> QED BY <1>1, <2>1, <2>2
<1>9. /\ Indexes \in Seq(AllObjects) /\ Distinct(Indexes)
      /\ Objects(Indexes) \in SUBSET ({"index"} \X Names)
  <2> DEFINE names == <<"workspace_id_id", "workspace_status_id", "workspace_assignee_id",
                     "creator_id", "assignee_id">>
  <2>1. names \in Seq(Names) /\ Distinct(names) /\ Objects(names) \subseteq Names
    BY <1>4
  <2>2. Indexes = Each("index", names)
    BY DEF Indexes
  <2> HIDE DEF names
  <2>3. /\ Each("index", names) \in Seq(AllObjects) /\ Distinct(Each("index", names))
        /\ Objects(Each("index", names)) = {"index"} \X Objects(names)
    BY <1>1, <2>1
  <2> QED BY <2>1, <2>2, <2>3
<1>10. /\ Required \in Seq(AllObjects) /\ Distinct(Required)
       /\ Objects(Required) = {"not null"} \X RequiredNames
  <2> DEFINE names == <<"workspace_id", "creator_id", "status", "created_at", "updated_at">>
  <2>1. names \in Seq(Names) /\ Distinct(names) /\ Objects(names) = RequiredNames
    BY <1>5
  <2>2. Required = Each("not null", names)
    BY DEF Required
  <2> HIDE DEF names
  <2> QED BY <1>1, <2>1, <2>2
<1>11. /\ ContentChecks \in Seq(AllObjects) /\ Distinct(ContentChecks)
       /\ Objects(ContentChecks) = {"check"} \X {"title_length", "priority"}
  <2> DEFINE names == <<"title_length", "priority">>
  <2>1. names \in Seq(Names) /\ Distinct(names) /\ Objects(names) = {"title_length", "priority"}
    BY <1>6
  <2>2. ContentChecks = Each("check", names)
    BY DEF ContentChecks
  <2> HIDE DEF names
  <2> QED BY <1>1, <2>1, <2>2
<1> QED BY <1>7, <1>8, <1>9, <1>10, <1>11

\* Dropping an object takes this much from the schema.
Gone(object) == {object, IF object[1] = "column" THEN NotNull(object[2]) ELSE object}

\* The old columns are NOT NULL.
OwnerRequired == NotNull("owner_id")
DoneRequired == NotNull("completed")

\* The five objects of the old schema, and the kinds of the others.
LEMMA Kinds ==
  /\ BaseSchema = {Owner, Done, OwnerRequired, DoneRequired, OwnerReference}
  /\ Gone(Owner) = {Owner, OwnerRequired} /\ Gone(Done) = {Done, DoneRequired}
  /\ Gone(OwnerReference) = {OwnerReference}
  /\ \A o \in New :
       /\ o[1] # "not null" /\ o \notin Objects(ContentChecks)
       /\ o \notin BaseSchema /\ Gone(o) \cap BaseSchema = {}
       /\ \A x \in New : x \in Gone(o) => x = o
  /\ \A o \in Final :
       /\ Gone(o) = {o} /\ o \notin BaseSchema /\ o \notin New
       /\ o[1] = "not null" => Column(o[2]) \in New /\ o[2] \in RequiredNames
       /\ o[1] # "not null" => o \in Objects(ContentChecks)
<1>1. /\ Objects(LegacyColumns) = {Owner, Done}
      /\ Objects(LegacyRequired) = {OwnerRequired, DoneRequired}
  <2>1. LegacyColumns = <<Owner, Done>>
    BY ObjectTypes
  <2>2. LegacyRequired = <<OwnerRequired, DoneRequired>>
    BY PairOf, Zenon DEF LegacyRequired, OwnerRequired, DoneRequired, NotNull
  <2>3. Owner # Done /\ OwnerRequired # DoneRequired
    BY DEF Owner, Done, Column, OwnerRequired, DoneRequired, NotNull
  <2> QED BY <2>1, <2>2, <2>3, Tuple2
<1>2. BaseSchema = {Owner, Done, OwnerRequired, DoneRequired, OwnerReference}
  BY <1>1 DEF BaseSchema
<1>3. /\ Gone(Owner) = {Owner, OwnerRequired} /\ Gone(Done) = {Done, DoneRequired}
      /\ Gone(OwnerReference) = {OwnerReference}
  BY DEF Gone, Owner, Done, Column, OwnerRequired, DoneRequired, NotNull, OwnerReference
<1>4. \A o \in BaseSchema :
        \/ o[1] \in {"column", "not null"} /\ o[2] \in {"owner_id", "completed"}
        \/ o[1] = "foreign key" /\ o[2] = "owner_id"
  <2>1. /\ Owner[1] = "column" /\ Owner[2] = "owner_id"
        /\ Done[1] = "column" /\ Done[2] = "completed"
        /\ OwnerRequired[1] = "not null" /\ OwnerRequired[2] = "owner_id"
        /\ DoneRequired[1] = "not null" /\ DoneRequired[2] = "completed"
        /\ OwnerReference[1] = "foreign key" /\ OwnerReference[2] = "owner_id"
    BY DEF Owner, Done, Column, OwnerRequired, DoneRequired, NotNull, OwnerReference
  <2> QED BY <1>2, <2>1
<1>5. ASSUME NEW o \in New
      PROVE  \/ o[1] = "column" /\ o[2] \in NewColumnNames /\ o = <<"column", o[2]>>
             \/ o[1] = "foreign key" /\ o[2] \in {"workspace_id", "creator_id", "assignee_id"}
             \/ o[1] = "check" /\ o[2] = "status"
             \/ o[1] \in {"index", "table"}
  <2>1. CASE o \in Objects(Columns)
    <3>1. o \in {"column"} \X NewColumnNames
      BY <2>1, Parts
    <3>2. o[1] = "column" /\ o[2] \in NewColumnNames /\ o = <<o[1], o[2]>>
      BY <3>1
    <3> QED BY <3>2
  <2>2. CASE o \in Objects(References)
    <3>1. o \in {"foreign key"} \X {"workspace_id", "creator_id", "assignee_id"}
      BY <2>2, Parts
    <3> QED BY <3>1
  <2>3. CASE o \in Objects(Indexes)
    <3>1. o \in {"index"} \X Names
      BY <2>3, Parts
    <3> QED BY <3>1
  <2>4. CASE o = StatusCheck
    BY <2>4 DEF StatusCheck
  <2>5. CASE o = MappingTable
    BY <2>5 DEF MappingTable
  <2> QED BY <2>1, <2>2, <2>3, <2>4, <2>5 DEF New
<1>6. ASSUME NEW o \in Final
      PROVE  \/ o[1] = "not null" /\ o[2] \in RequiredNames /\ o = <<"not null", o[2]>>
             \/ o[1] = "check" /\ o[2] \in {"title_length", "priority"} /\ o \in Objects(ContentChecks)
  <2>1. CASE o \in Objects(Required)
    <3>1. o \in {"not null"} \X RequiredNames
      <4>1. Objects(Required) = {"not null"} \X RequiredNames
        BY Parts, Zenon
      <4> QED BY <2>1, <4>1, Zenon
    <3>2. \A k, N : o \in {k} \X N => o[1] = k /\ o[2] \in N /\ o = <<k, o[2]>>
      OBVIOUS
    <3> QED BY <3>1, <3>2, Zenon
  <2>2. CASE o \in Objects(ContentChecks)
    <3>1. o \in {"check"} \X {"title_length", "priority"}
      BY <2>2, Parts
    <3> QED BY <2>2, <3>1
  <2> QED BY <2>1, <2>2 DEF Final
<1>7. \A o \in Objects(ContentChecks) : o[1] = "check" /\ o[2] \in {"title_length", "priority"}
  BY Parts
<1>8. ASSUME NEW o \in New
      PROVE  /\ o[1] # "not null" /\ o \notin Objects(ContentChecks)
             /\ o \notin BaseSchema /\ Gone(o) \cap BaseSchema = {}
             /\ \A x \in New : x \in Gone(o) => x = o
  <2>1. o[1] # "not null" /\ o \notin Objects(ContentChecks)
    BY <1>5, <1>7
  <2>2. o \notin BaseSchema
    BY <1>4, <1>5 DEF NewColumnNames
  <2>3. ASSUME o[1] = "column"
        PROVE  NotNull(o[2]) \notin BaseSchema
    <3>1. o[2] \in NewColumnNames /\ NotNull(o[2])[1] = "not null" /\ NotNull(o[2])[2] = o[2]
      BY <1>5, <2>3 DEF NotNull
    <3> QED BY <1>4, <3>1 DEF NewColumnNames
  <2>4. \A x \in New : x[1] # "not null"
    BY <1>5
  <2>5. \A c : NotNull(c)[1] = "not null"
    BY DEF NotNull
  <2> QED BY <2>1, <2>2, <2>3, <2>4, <2>5 DEF Gone
<1>9. ASSUME NEW o \in Final
      PROVE  /\ Gone(o) = {o} /\ o \notin BaseSchema /\ o \notin New
             /\ o[1] = "not null" => Column(o[2]) \in New /\ o[2] \in RequiredNames
             /\ o[1] # "not null" => o \in Objects(ContentChecks)
  <2>1. Gone(o) = {o}
    BY <1>6 DEF Gone
  <2>2. o \notin BaseSchema
    BY <1>4, <1>6 DEF RequiredNames, NewColumnNames
  <2>3. o \notin New
    BY <1>5, <1>6
  <2>4. o[1] = "not null" => Column(o[2]) \in New /\ o[2] \in RequiredNames
    BY <1>6, Parts DEF New, Column, RequiredNames
  <2> QED BY <1>6, <2>1, <2>2, <2>3, <2>4
<1> QED BY <1>2, <1>3, <1>8, <1>9

\* The schemas in these terms.
LEMMA Schemas ==
  /\ SchemaAt(Base) = BaseSchema
  /\ SchemaAt(Expand) = BaseSchema \cup New /\ SchemaAt(Backfill) = BaseSchema \cup New
  /\ SchemaAt(Contract) = New \cup Final
  /\ SchemaAt(Cleanup) = (New \cup Final) \ {MappingTable}
<1>1. MappingTable \notin FinalTasks
  <2>1. MappingTable[1] = "table"
    BY DEF MappingTable
  <2>2. Objects(Columns) = {"column"} \X NewColumnNames
    BY Parts
  <2>3. Objects(References) = {"foreign key"} \X {"workspace_id", "creator_id", "assignee_id"}
    BY Parts
  <2>4. Objects(Indexes) \in SUBSET ({"index"} \X Names)
    BY Parts
  <2>5. Objects(Required) = {"not null"} \X RequiredNames
    BY Parts
  <2>6. Objects(ContentChecks) = {"check"} \X {"title_length", "priority"}
    BY Parts
  <2>7. \A o, kind, N : o \in {kind} \X N => o[1] = kind
    OBVIOUS
  <2>8. StatusCheck[1] = "check"
    BY DEF StatusCheck
  <2> QED BY <2>1, <2>2, <2>3, <2>4, <2>5, <2>6, <2>7, <2>8 DEF FinalTasks
<1>2. FinalTasks \cup {MappingTable} = New \cup Final
  BY DEF FinalTasks, New, Final
<1>3. ExpandedSchema = BaseSchema \cup New
  BY DEF ExpandedSchema, New
<1> QED BY <1>1, <1>2, <1>3 DEF SchemaAt, Base, Expand, Backfill, Contract, Cleanup

-----------------------------------------------------------------------------
(* What a script has done before its k-th statement.                       *)

\* What a script is made of.
Statements == [verb : {"add", "drop", "update"}, object : AllObjects \cup {<<"rows", "tasks">>}]

\* What its statements before the k-th have added, or dropped; with what a dropped
\* column takes along; and the schema that leaves of S.
Before(s, k, verb) == {s[i].object : i \in {j \in 1..Len(s) : j < k /\ s[j].verb = verb}}

Taken(s, k) == UNION {Gone(o) : o \in Before(s, k, "drop")}

Halfway(s, k, S) == (S \cup Before(s, k, "add")) \ Taken(s, k)

\* ALTER COLUMN ... SET or DROP NOT NULL.
Requiring(object) == object[1] = "not null"

\* The schema admits the statement.
Admits(S, st) ==
  /\ st.verb = "add" => IF Requiring(st.object) THEN Column(st.object[2]) \in S
                        ELSE st.object \notin S
  /\ st.verb = "drop" => IF Requiring(st.object) THEN Column(st.object[2]) \in S
                         ELSE st.object \in S

\* A script that takes the schema from S to T, never adding what it has dropped.
Sound(s, S, T) ==
  /\ s \in Seq(Statements)
  /\ \A i \in 1..Len(s) :
       /\ Admits(Halfway(s, i, S), s[i])
       /\ s[i].verb = "add" => s[i].object \notin Taken(s, i)
  /\ Halfway(s, Len(s) + 1, S) = T

\* At first nothing is done.
LEMMA NothingBefore ==
  ASSUME NEW s \in Seq(Statements), NEW S
  PROVE  Halfway(s, 1, S) = S
<1>1. \A v : Before(s, 1, v) = {}
  BY DEF Before
<1> QED BY <1>1 DEF Halfway, Taken

\* One statement more.
LEMMA OneMore ==
  ASSUME NEW s \in Seq(Statements), NEW i \in 1..Len(s)
  PROVE  \A v : Before(s, i + 1, v) = Before(s, i, v) \cup (IF s[i].verb = v THEN {s[i].object} ELSE {})
<1>1. SUFFICES ASSUME NEW v
               PROVE  Before(s, i + 1, v) = Before(s, i, v)
                                             \cup (IF s[i].verb = v THEN {s[i].object} ELSE {})
  OBVIOUS
<1>2. Len(s) \in Nat /\ i \in Nat
  OBVIOUS
<1> DEFINE I(k) == {j \in 1..Len(s) : j < k /\ s[j].verb = v}
<1>3. I(i + 1) = I(i) \cup (IF s[i].verb = v THEN {i} ELSE {})
  BY <1>2
<1>4. Before(s, i + 1, v) = {s[j].object : j \in I(i + 1)} /\ Before(s, i, v) = {s[j].object : j \in I(i)}
  BY DEF Before
<1> HIDE DEF I
<1> QED BY <1>3, <1>4

\* What it does to the schema.
LEMMA Stepwise ==
  ASSUME NEW s \in Seq(Statements), NEW i \in 1..Len(s), NEW S,
         s[i].verb = "add" => s[i].object \notin Taken(s, i)
  PROVE  /\ s[i].verb = "add" => Halfway(s, i + 1, S) = Halfway(s, i, S) \cup {s[i].object}
         /\ s[i].verb = "drop" => Halfway(s, i + 1, S) = Halfway(s, i, S) \ Gone(s[i].object)
         /\ s[i].verb = "update" => Halfway(s, i + 1, S) = Halfway(s, i, S)
<1> DEFINE A == Before(s, i, "add")
           D == Before(s, i, "drop")
           o == s[i].object
<1>1. /\ Before(s, i + 1, "add") = A \cup (IF s[i].verb = "add" THEN {o} ELSE {})
      /\ Before(s, i + 1, "drop") = D \cup (IF s[i].verb = "drop" THEN {o} ELSE {})
  BY OneMore
<1>2. Taken(s, i) = UNION {Gone(x) : x \in D}
  BY DEF Taken
<1>3. Taken(s, i + 1) = IF s[i].verb = "drop" THEN Taken(s, i) \cup Gone(o) ELSE Taken(s, i)
  <2> HIDE DEF A, D, o
  <2> QED BY <1>1, <1>2 DEF Taken
<1>4. Halfway(s, i, S) = (S \cup A) \ Taken(s, i)
  BY DEF Halfway
<1>5. Halfway(s, i + 1, S) = (S \cup Before(s, i + 1, "add")) \ Taken(s, i + 1)
  BY DEF Halfway
<1> HIDE DEF A, D, o
<1>6. CASE s[i].verb = "add"
  <2>1. o \notin Taken(s, i)
    BY <1>6 DEF o
  <2>2. Halfway(s, i + 1, S) = Halfway(s, i, S) \cup {o}
    BY <1>1, <1>3, <1>4, <1>5, <1>6, <2>1
  <2> QED BY <1>6, <2>2 DEF o
<1>7. CASE s[i].verb = "drop"
  <2>1. Halfway(s, i + 1, S) = Halfway(s, i, S) \ Gone(o)
    BY <1>1, <1>3, <1>4, <1>5, <1>7
  <2> QED BY <1>7, <2>1 DEF o
<1>8. CASE s[i].verb = "update"
  BY <1>1, <1>3, <1>4, <1>5, <1>8
<1> QED BY <1>6, <1>7, <1>8

\* Objects added or dropped one after the other.
LEMMA AddingAt ==
  ASSUME NEW a \in Seq(AllObjects)
  PROVE  /\ Adding(a) \in Seq(Statements) /\ Len(Adding(a)) = Len(a)
         /\ Dropping(a) \in Seq(Statements) /\ Len(Dropping(a)) = Len(a)
         /\ \A i \in 1..Len(a) : /\ Adding(a)[i].verb = "add" /\ Adding(a)[i].object = a[i]
                                 /\ Dropping(a)[i].verb = "drop" /\ Dropping(a)[i].object = a[i]
<1>1. DOMAIN a = 1..Len(a) /\ Len(a) \in Nat /\ \A i \in 1..Len(a) : a[i] \in AllObjects
  OBVIOUS
<1>2. /\ Adding(a) = [i \in 1..Len(a) |-> [verb |-> "add", object |-> a[i]]]
      /\ Dropping(a) = [i \in 1..Len(a) |-> [verb |-> "drop", object |-> a[i]]]
  BY <1>1 DEF Adding, Dropping
<1>3. \A o \in AllObjects : /\ [verb |-> "add", object |-> o] \in Statements
                           /\ [verb |-> "drop", object |-> o] \in Statements
  BY DEF Statements
<1> HIDE DEF Statements
<1>4. Adding(a) \in [1..Len(a) -> Statements] /\ Dropping(a) \in [1..Len(a) -> Statements]
  BY <1>1, <1>2, <1>3
<1>5. Adding(a) \in Seq(Statements) /\ Dropping(a) \in Seq(Statements)
  BY <1>1, <1>4
<1>6. Len(Adding(a)) = Len(a) /\ Len(Dropping(a)) = Len(a)
  BY <1>1, <1>4, <1>5
<1>7. ASSUME NEW i \in 1..Len(a)
      PROVE  /\ Adding(a)[i].verb = "add" /\ Adding(a)[i].object = a[i]
             /\ Dropping(a)[i].verb = "drop" /\ Dropping(a)[i].object = a[i]
  <2>1. /\ Adding(a)[i] = [verb |-> "add", object |-> a[i]]
        /\ Dropping(a)[i] = [verb |-> "drop", object |-> a[i]]
    BY <1>2
  <2> QED BY <2>1
<1> QED BY <1>5, <1>6, <1>7

\* Objects added one after the other.
LEMMA AddingSound ==
  ASSUME NEW a \in Seq(AllObjects), Distinct(a), NEW S,
         \A o \in Objects(a) : IF Requiring(o) THEN Column(o[2]) \in S ELSE o \notin S
  PROVE  /\ Sound(Adding(a), S, S \cup Objects(a))
         /\ Taken(Adding(a), Len(Adding(a)) + 1) = {}
<1> DEFINE s == Adding(a)
           A(k) == {a[i] : i \in {j \in 1..Len(a) : j < k}}
<1>0. Len(a) \in Nat
  OBVIOUS
<1>1. /\ s \in Seq(Statements) /\ Len(s) = Len(a)
      /\ \A i \in 1..Len(a) : s[i].verb = "add" /\ s[i].object = a[i]
  BY AddingAt
<1>2. Objects(a) = {a[i] : i \in 1..Len(a)}
  BY ObjectsOf
<1> HIDE DEF s
<1>3. ASSUME NEW k \in Nat
      PROVE  Before(s, k, "add") = A(k) /\ Taken(s, k) = {}
  <2>1. Before(s, k, "add") = A(k)
    <3>2. {j \in 1..Len(s) : j < k /\ s[j].verb = "add"} = {j \in 1..Len(a) : j < k}
      BY <1>1
    <3>3. \A j \in {i \in 1..Len(a) : i < k} : s[j].object = a[j]
      BY <1>1
    <3> QED BY <3>2, <3>3 DEF Before
  <2>2. Before(s, k, "drop") = {}
    <3>1. \A j \in 1..Len(s) : s[j].verb # "drop"
      BY <1>1
    <3> QED BY <3>1 DEF Before
  <2> QED BY <2>1, <2>2 DEF Taken
<1>4. ASSUME NEW i \in 1..Len(a)
      PROVE  Admits(Halfway(s, i, S), s[i]) /\ s[i].object \notin Taken(s, i)
  <2>1. a[i] \in Objects(a) /\ s[i].verb = "add" /\ s[i].object = a[i]
    BY <1>1, <1>2
  <2>2. a[i] \notin A(i)
    BY <1>0, <1>1 DEF Distinct
  <2>3. Halfway(s, i, S) = S \cup A(i)
    BY <1>3 DEF Halfway
  <2> HIDE DEF A
  <2> QED BY <1>3, <2>1, <2>2, <2>3 DEF Admits
<1>5. Halfway(s, Len(s) + 1, S) = S \cup Objects(a)
  <2>1. {j \in 1..Len(a) : j < Len(a) + 1} = 1..Len(a)
    BY <1>0
  <2>2. A(Len(a) + 1) = Objects(a)
    BY <1>2, <2>1
  <2> HIDE DEF A
  <2> QED BY <1>0, <1>1, <1>3, <2>2 DEF Halfway
<1>6. Taken(s, Len(s) + 1) = {}
  BY <1>0, <1>1, <1>3
<1> QED BY <1>1, <1>4, <1>5, <1>6 DEF Sound, s

\* Objects dropped one after the other, none of which takes another along.
LEMMA DroppingSound ==
  ASSUME NEW a \in Seq(AllObjects), Distinct(a), NEW S,
         \A o, x \in Objects(a) :
           /\ IF Requiring(o) THEN Column(o[2]) \in S \ Gone(x) ELSE o \in S
           /\ o \in Gone(x) => x = o
  PROVE  /\ Sound(Dropping(a), S, S \ UNION {Gone(o) : o \in Objects(a)})
         /\ Before(Dropping(a), Len(Dropping(a)) + 1, "add") = {}
<1> DEFINE s == Dropping(a)
           D(k) == {a[i] : i \in {j \in 1..Len(a) : j < k}}
<1>0. Len(a) \in Nat
  OBVIOUS
<1>1. /\ s \in Seq(Statements) /\ Len(s) = Len(a)
      /\ \A i \in 1..Len(a) : s[i].verb = "drop" /\ s[i].object = a[i]
  BY AddingAt
<1>2. Objects(a) = {a[i] : i \in 1..Len(a)}
  BY ObjectsOf
<1> HIDE DEF s
<1>3. ASSUME NEW k \in Nat
      PROVE  Before(s, k, "add") = {} /\ Before(s, k, "drop") = D(k)
  <2>1. Before(s, k, "drop") = D(k)
    <3>2. {j \in 1..Len(s) : j < k /\ s[j].verb = "drop"} = {j \in 1..Len(a) : j < k}
      BY <1>1
    <3>3. \A j \in {i \in 1..Len(a) : i < k} : s[j].object = a[j]
      BY <1>1
    <3> QED BY <3>2, <3>3 DEF Before
  <2>2. Before(s, k, "add") = {}
    <3>1. \A j \in 1..Len(s) : s[j].verb # "add"
      BY <1>1
    <3> QED BY <3>1 DEF Before
  <2> QED BY <2>1, <2>2
<1>4. ASSUME NEW i \in 1..Len(a)
      PROVE  Admits(Halfway(s, i, S), s[i]) /\ s[i].verb # "add"
  <2>1. a[i] \in Objects(a) /\ s[i].verb = "drop" /\ s[i].object = a[i]
    BY <1>1, <1>2
  <2>2. a[i] \notin D(i) /\ D(i) \subseteq Objects(a)
    BY <1>0, <1>1, <1>2 DEF Distinct
  <2>3. Halfway(s, i, S) = S \ UNION {Gone(x) : x \in D(i)}
    BY <1>3 DEF Halfway, Taken
  <2> HIDE DEF D
  <2>4. ASSUME Requiring(a[i])
        PROVE  Column(a[i][2]) \in Halfway(s, i, S)
    BY <2>1, <2>2, <2>3, <2>4
  <2>5. ASSUME ~Requiring(a[i])
        PROVE  a[i] \in Halfway(s, i, S)
    BY <2>1, <2>2, <2>3, <2>5
  <2> QED BY <2>1, <2>4, <2>5 DEF Admits
<1>5. Halfway(s, Len(s) + 1, S) = S \ UNION {Gone(o) : o \in Objects(a)}
  <2>1. {j \in 1..Len(a) : j < Len(a) + 1} = 1..Len(a)
    BY <1>0
  <2>2. D(Len(a) + 1) = Objects(a)
    BY <1>2, <2>1
  <2> HIDE DEF D
  <2>3. Before(s, Len(s) + 1, "add") = {} /\ Before(s, Len(s) + 1, "drop") = Objects(a)
    BY <1>0, <1>1, <1>3, <2>2
  <2>4. Taken(s, Len(s) + 1) = UNION {Gone(o) : o \in Objects(a)}
    BY <2>3 DEF Taken
  <2> QED BY <2>3, <2>4 DEF Halfway
<1>6. Before(s, Len(s) + 1, "add") = {}
  BY <1>0, <1>1, <1>3
<1> QED BY <1>1, <1>4, <1>5, <1>6 DEF Sound, s

\* One script after another that adds nothing the first has dropped.
LEMMA JoinedSound ==
  ASSUME NEW S, NEW T, NEW U, NEW a, NEW b, Sound(a, S, T), Sound(b, T, U),
         Before(b, Len(b) + 1, "add") \cap Taken(a, Len(a) + 1) = {}
  PROVE  /\ Sound(a \o b, S, U)
         /\ Taken(a \o b, Len(a \o b) + 1) = Taken(a, Len(a) + 1) \cup Taken(b, Len(b) + 1)
<1> DEFINE c == a \o b
           m == Len(a)
           n == Len(b)
<1>1. a \in Seq(Statements) /\ b \in Seq(Statements)
  BY DEF Sound
<1> HIDE DEF Statements
<1>2. /\ c \in Seq(Statements) /\ m \in Nat /\ n \in Nat /\ Len(c) = m + n
      /\ \A i \in 1..m : c[i] = a[i]
      /\ \A i \in 1..n : c[i + m] = b[i]
  <2>1. c \in Seq(Statements) /\ m \in Nat /\ n \in Nat /\ Len(c) = m + n
    BY <1>1
  <2>2. \A i \in 1..(m + n) : c[i] = IF i <= m THEN a[i] ELSE b[i - m]
    BY <1>1
  <2> QED BY <2>1, <2>2
<1> HIDE DEF c, m, n
<1>3. ASSUME NEW v, NEW k \in 1..(m + 1)
      PROVE  Before(c, k, v) = Before(a, k, v)
  <2>1. {j \in 1..Len(c) : j < k /\ c[j].verb = v} = {j \in 1..m : j < k /\ a[j].verb = v}
    BY <1>2
  <2>2. \A j \in {i \in 1..m : i < k /\ a[i].verb = v} : c[j] = a[j]
    BY <1>2
  <2> QED BY <2>1, <2>2 DEF Before, m
<1>4. ASSUME NEW v, NEW k \in 1..(n + 1)
      PROVE  Before(c, m + k, v) = Before(a, m + 1, v) \cup Before(b, k, v)
  <2>1. ASSUME NEW x \in Before(c, m + k, v)
        PROVE  x \in Before(a, m + 1, v) \cup Before(b, k, v)
    <3>1. PICK j \in 1..Len(c) : j < m + k /\ c[j].verb = v /\ x = c[j].object
      BY DEF Before
    <3>2. CASE j <= m
      <4>1. j \in 1..m /\ j < m + 1 /\ a[j].verb = v /\ x = a[j].object
        BY <1>2, <3>1, <3>2
      <4> QED BY <4>1 DEF Before, m
    <3>3. CASE j > m
      <4>1. j - m \in 1..n /\ j - m < k /\ (j - m) + m = j
        BY <1>2, <3>1, <3>3
      <4>2. b[j - m].verb = v /\ x = b[j - m].object
        BY <1>2, <3>1, <4>1
      <4> QED BY <4>1, <4>2 DEF Before, n
    <3> QED BY <1>2, <3>2, <3>3
  <2>2. ASSUME NEW x \in Before(a, m + 1, v)
        PROVE  x \in Before(c, m + k, v)
    <3>1. PICK j \in 1..m : a[j].verb = v /\ x = a[j].object
      BY DEF Before, m
    <3>2. j \in 1..Len(c) /\ j < m + k /\ c[j] = a[j]
      BY <1>2, <3>1
    <3> QED BY <3>1, <3>2 DEF Before
  <2>3. ASSUME NEW x \in Before(b, k, v)
        PROVE  x \in Before(c, m + k, v)
    <3>1. PICK j \in 1..n : j < k /\ b[j].verb = v /\ x = b[j].object
      BY DEF Before, n
    <3>2. j + m \in 1..Len(c) /\ j + m < m + k /\ c[j + m] = b[j]
      BY <1>2, <3>1
    <3> QED BY <3>1, <3>2 DEF Before
  <2> QED BY <2>1, <2>2, <2>3
<1>5. ASSUME NEW k \in 1..(n + 1)
      PROVE  Taken(c, m + k) = Taken(a, m + 1) \cup Taken(b, k)
  <2> DEFINE A == Before(a, m + 1, "drop")
             B == Before(b, k, "drop")
  <2>1. Before(c, m + k, "drop") = A \cup B
    BY <1>4
  <2>2. Taken(a, m + 1) = UNION {Gone(o) : o \in A} /\ Taken(b, k) = UNION {Gone(o) : o \in B}
        /\ Taken(c, m + k) = UNION {Gone(o) : o \in Before(c, m + k, "drop")}
    BY DEF Taken
  <2> HIDE DEF A, B
  <2> QED BY <2>1, <2>2
<1>6. ASSUME NEW k \in 1..(n + 1)
      PROVE  /\ Before(b, k, "add") \cap Taken(a, m + 1) = {}
             /\ Halfway(c, m + k, S) = Halfway(b, k, T)
  <2>1. Before(b, k, "add") \subseteq Before(b, n + 1, "add")
    BY <1>2 DEF Before, n
  <2>2. Before(b, k, "add") \cap Taken(a, m + 1) = {}
    BY <2>1 DEF m, n
  <2>3. T = (S \cup Before(a, m + 1, "add")) \ Taken(a, m + 1)
    BY DEF Sound, Halfway, m
  <2>4. Halfway(c, m + k, S)
          = (S \cup Before(a, m + 1, "add") \cup Before(b, k, "add")) \ (Taken(a, m + 1) \cup Taken(b, k))
    BY <1>4, <1>5 DEF Halfway
  <2>5. Halfway(b, k, T) = (T \cup Before(b, k, "add")) \ Taken(b, k)
    BY DEF Halfway
  <2> QED BY <2>2, <2>3, <2>4, <2>5
<1>7. ASSUME NEW i \in 1..Len(c)
      PROVE  /\ Admits(Halfway(c, i, S), c[i])
             /\ c[i].verb = "add" => c[i].object \notin Taken(c, i)
  <2>1. CASE i <= m
    <3>1. i \in 1..m /\ i \in 1..(m + 1) /\ c[i] = a[i]
      BY <1>2, <2>1
    <3>2. Taken(c, i) = Taken(a, i) /\ Halfway(c, i, S) = Halfway(a, i, S)
      BY <1>3, <3>1 DEF Taken, Halfway
    <3> QED BY <3>1, <3>2 DEF Sound, m
  <2>2. CASE i > m
    <3> DEFINE k == i - m
    <3>1. k \in 1..n /\ k \in 1..(n + 1) /\ m + k = i /\ k + m = i /\ k + 1 \in 1..(n + 1)
      BY <1>2, <2>2
    <3>2. c[i] = b[k]
      BY <1>2, <3>1
    <3>3. /\ Halfway(c, i, S) = Halfway(b, k, T)
          /\ Taken(c, i) = Taken(a, m + 1) \cup Taken(b, k)
          /\ Before(b, k + 1, "add") \cap Taken(a, m + 1) = {}
      BY <1>5, <1>6, <3>1
    <3> HIDE DEF k
    <3>4. /\ Admits(Halfway(b, k, T), b[k])
          /\ b[k].verb = "add" => b[k].object \notin Taken(b, k)
      BY <3>1 DEF Sound, n
    <3>5. b[k].verb = "add" => b[k].object \in Before(b, k + 1, "add")
      BY <1>1, <3>1, OneMore DEF n
    <3> QED BY <3>2, <3>3, <3>4, <3>5
  <2> QED BY <1>2, <2>1, <2>2
<1>8. Halfway(c, Len(c) + 1, S) = U /\ Taken(c, Len(c) + 1) = Taken(a, m + 1) \cup Taken(b, n + 1)
  <2>1. n + 1 \in 1..(n + 1) /\ m + (n + 1) = Len(c) + 1
    BY <1>2
  <2>2. Halfway(c, Len(c) + 1, S) = Halfway(b, n + 1, T)
    BY <1>6, <2>1
  <2>3. Taken(c, Len(c) + 1) = Taken(a, m + 1) \cup Taken(b, n + 1)
    BY <1>5, <2>1
  <2> QED BY <2>2, <2>3 DEF Sound, n
<1> QED BY <1>2, <1>7, <1>8 DEF Sound, c, m, n

\* One object, added or dropped; the UPDATE changes no schema.
LEMMA UpdateSound ==
  ASSUME NEW S
  PROVE  LET s == <<[verb |-> "update", object |-> <<"rows", "tasks">>]>>
         IN  /\ Sound(s, S, S)
             /\ Before(s, Len(s) + 1, "add") = {} /\ Taken(s, Len(s) + 1) = {}
<1> DEFINE st == [verb |-> "update", object |-> <<"rows", "tasks">>]
<1>1. st \in Statements /\ st.verb = "update"
  BY DEF Statements
<1> HIDE DEF st, Statements
<1> DEFINE s == <<st>>
<1>2. s \in Seq(Statements) /\ Len(s) = 1 /\ s[1] = st
  BY <1>1
<1> HIDE DEF s
<1>3. \A k : Before(s, k, "add") = {} /\ Before(s, k, "drop") = {}
  BY <1>1, <1>2 DEF Before
<1>4. \A k : Taken(s, k) = {}
  BY <1>3 DEF Taken
<1>5. \A k : Halfway(s, k, S) = S
  BY <1>3, <1>4 DEF Halfway
<1>6. \A i \in 1..Len(s) : s[i].verb = "update"
  BY <1>1, <1>2
<1> QED BY <1>2, <1>3, <1>4, <1>5, <1>6 DEF Sound, Admits, s, st

\* The objects of a script, each once.
Once(s, O) == s \in Seq(AllObjects) /\ Distinct(s) /\ Objects(s) = O

\* One object; two lists without a common object; a list in reverse.
LEMMA OnceEach ==
  /\ \A x \in AllObjects : Once(<<x>>, {x})
  /\ \A a, b, A, B : Once(a, A) /\ Once(b, B) /\ A \cap B = {} => Once(a \o b, A \cup B)
  /\ \A a, A : Once(a, A) => Once(Backwards(a), A)
<1>1. ASSUME NEW x \in AllObjects
      PROVE  Once(<<x>>, {x})
  <2> HIDE DEF AllObjects
  <2> QED BY <1>1 DEF Once, Distinct, Objects
<1>2. ASSUME NEW a, NEW b, NEW A, NEW B, Once(a, A), Once(b, B), A \cap B = {}
      PROVE  Once(a \o b, A \cup B)
  BY <1>2, JoinedObjects DEF Once
<1>3. ASSUME NEW a, NEW A, Once(a, A)
      PROVE  Once(Backwards(a), A)
  BY <1>3, BackwardsObjects DEF Once
<1> QED BY <1>1, <1>2, <1>3

\* The lists of the scripts.
LEMMA Lists ==
  /\ Once(Columns \o References \o <<StatusCheck>> \o Indexes \o <<MappingTable>>, New)
  /\ Once(<<MappingTable>> \o Backwards(References) \o <<StatusCheck>>
            \o Backwards(Indexes) \o Backwards(Columns), New)
  /\ Once(Required \o ContentChecks, Final)
  /\ Once(Backwards(ContentChecks) \o Backwards(Required), Final)
  /\ Once(LegacyColumns, {Owner, Done})
  /\ Once(<<OwnerReference>> \o LegacyColumns, {OwnerReference, Owner, Done})
  /\ Once(LegacyRequired \o <<OwnerReference>>, {OwnerRequired, DoneRequired, OwnerReference})
  /\ Once(<<MappingTable>>, {MappingTable})
<1> DEFINE C == Columns
           R == References
           K == <<StatusCheck>>
           I == Indexes
           M == <<MappingTable>>
<1>1. Once(K, {StatusCheck}) /\ Once(M, {MappingTable}) /\ Once(<<OwnerReference>>, {OwnerReference})
  <2>1. StatusCheck \in AllObjects /\ MappingTable \in AllObjects /\ OwnerReference \in AllObjects
    BY DEF StatusCheck, MappingTable, OwnerReference, AllObjects, Names, NewColumnNames
  <2> QED BY <2>1, OnceEach
<1>2. Once(C, Objects(C)) /\ Once(R, Objects(R)) /\ Once(I, Objects(I))
      /\ Once(Required, Objects(Required)) /\ Once(ContentChecks, Objects(ContentChecks))
  BY Parts DEF Once
<1>3. /\ \A o \in Objects(C) : o[1] = "column"
      /\ \A o \in Objects(R) : o[1] = "foreign key"
      /\ \A o \in Objects(I) : o[1] = "index"
      /\ StatusCheck[1] = "check" /\ MappingTable[1] = "table"
  BY Parts DEF StatusCheck, MappingTable
<1>4. New = Objects(C) \cup Objects(R) \cup {StatusCheck} \cup Objects(I) \cup {MappingTable}
  BY DEF New
<1>5. Final = Objects(Required) \cup Objects(ContentChecks)
      /\ Objects(Required) \cap Objects(ContentChecks) = {}
  <2>1. \A o \in Objects(Required) : Requiring(o)
    BY Parts DEF Requiring
  <2>2. \A o \in Objects(ContentChecks) : ~Requiring(o)
    BY Parts DEF Requiring
  <2> QED BY <2>1, <2>2 DEF Final
<1>6. /\ LegacyColumns = <<Owner, Done>> /\ LegacyRequired = <<OwnerRequired, DoneRequired>>
      /\ Owner \in AllObjects /\ Done \in AllObjects
      /\ OwnerRequired \in AllObjects /\ DoneRequired \in AllObjects
      /\ Owner # Done /\ OwnerRequired # DoneRequired
  <2>1. LegacyColumns = <<Owner, Done>>
    BY ObjectTypes
  <2>2. LegacyRequired = <<OwnerRequired, DoneRequired>>
    BY PairOf, Zenon DEF LegacyRequired, OwnerRequired, DoneRequired, NotNull
  <2>3. Owner \in AllObjects /\ Done \in AllObjects
        /\ OwnerRequired \in AllObjects /\ DoneRequired \in AllObjects
    BY DEF Owner, Done, Column, OwnerRequired, DoneRequired, NotNull, AllObjects, Names
  <2>4. Owner # Done /\ OwnerRequired # DoneRequired
    BY DEF Owner, Done, Column, OwnerRequired, DoneRequired, NotNull
  <2> QED BY <2>1, <2>2, <2>3, <2>4
<1>7. Once(<<Owner, Done>>, {Owner, Done}) /\ Once(<<OwnerRequired, DoneRequired>>, {OwnerRequired, DoneRequired})
  BY <1>6, Tuple2, Tuples DEF Once
<1>8. OwnerReference \notin {Owner, Done, OwnerRequired, DoneRequired}
  BY DEF OwnerReference, Owner, Done, Column, OwnerRequired, DoneRequired, NotNull
<1> HIDE DEF C, R, K, I, M
<1>9. Once(C \o R \o K \o I \o M, New)
  <2>1. Once(C \o R, Objects(C) \cup Objects(R))
    BY <1>2, <1>3, OnceEach
  <2>2. Once(C \o R \o K, Objects(C) \cup Objects(R) \cup {StatusCheck})
    BY <1>1, <1>3, <2>1, OnceEach
  <2>3. Once(C \o R \o K \o I, Objects(C) \cup Objects(R) \cup {StatusCheck} \cup Objects(I))
    BY <1>2, <1>3, <2>2, OnceEach
  <2>4. Once(C \o R \o K \o I \o M,
             Objects(C) \cup Objects(R) \cup {StatusCheck} \cup Objects(I) \cup {MappingTable})
    BY <1>1, <1>3, <2>3, OnceEach
  <2> QED BY <1>4, <2>4
<1>10. Once(M \o Backwards(R) \o K \o Backwards(I) \o Backwards(C), New)
  <2> DEFINE r == Backwards(R)
             i == Backwards(I)
             c == Backwards(C)
  <2>0. Once(r, Objects(R)) /\ Once(i, Objects(I)) /\ Once(c, Objects(C))
    BY <1>2, OnceEach
  <2> HIDE DEF r, i, c
  <2>1. Once(M \o r, {MappingTable} \cup Objects(R))
    BY <1>1, <1>3, <2>0, OnceEach
  <2>2. Once(M \o r \o K, {MappingTable} \cup Objects(R) \cup {StatusCheck})
    BY <1>1, <1>3, <2>1, OnceEach
  <2>3. Once(M \o r \o K \o i, {MappingTable} \cup Objects(R) \cup {StatusCheck} \cup Objects(I))
    BY <1>3, <2>0, <2>2, OnceEach
  <2>4. Once(M \o r \o K \o i \o c,
             {MappingTable} \cup Objects(R) \cup {StatusCheck} \cup Objects(I) \cup Objects(C))
    BY <1>3, <2>0, <2>3, OnceEach
  <2>5. New = {MappingTable} \cup Objects(R) \cup {StatusCheck} \cup Objects(I) \cup Objects(C)
    BY <1>4
  <2> QED BY <2>4, <2>5 DEF r, i, c
<1>11. Once(Required \o ContentChecks, Final)
  BY <1>2, <1>5, OnceEach
<1>12. Once(Backwards(ContentChecks) \o Backwards(Required), Final)
  <2> DEFINE c == Backwards(ContentChecks)
             r == Backwards(Required)
  <2>1. Once(c, Objects(ContentChecks)) /\ Once(r, Objects(Required))
    BY <1>2, OnceEach
  <2> HIDE DEF c, r
  <2>2. Once(c \o r, Objects(ContentChecks) \cup Objects(Required))
    BY <1>5, <2>1, OnceEach
  <2>3. Final = Objects(ContentChecks) \cup Objects(Required)
    BY <1>5
  <2> QED BY <2>2, <2>3 DEF c, r
<1>13. Once(<<OwnerReference>> \o LegacyColumns, {OwnerReference, Owner, Done})
  <2> DEFINE o == <<OwnerReference>>
             l == LegacyColumns
  <2>1. Once(o, {OwnerReference}) /\ Once(l, {Owner, Done})
    BY <1>1, <1>6, <1>7
  <2> HIDE DEF o, l
  <2>2. Once(o \o l, {OwnerReference} \cup {Owner, Done})
    BY <1>8, <2>1, OnceEach
  <2>3. {OwnerReference} \cup {Owner, Done} = {OwnerReference, Owner, Done}
    OBVIOUS
  <2> QED BY <2>2, <2>3 DEF o, l
<1>14. Once(LegacyRequired \o <<OwnerReference>>, {OwnerRequired, DoneRequired, OwnerReference})
  <2> DEFINE o == <<OwnerReference>>
             l == LegacyRequired
  <2>1. Once(o, {OwnerReference}) /\ Once(l, {OwnerRequired, DoneRequired})
    BY <1>1, <1>6, <1>7
  <2> HIDE DEF o, l
  <2>2. Once(l \o o, {OwnerRequired, DoneRequired} \cup {OwnerReference})
    BY <1>8, <2>1, OnceEach
  <2>3. {OwnerRequired, DoneRequired} \cup {OwnerReference} = {OwnerRequired, DoneRequired, OwnerReference}
    OBVIOUS
  <2> QED BY <2>2, <2>3 DEF o, l
<1> QED BY <1>1, <1>6, <1>7, <1>9, <1>10, <1>11, <1>12, <1>13, <1>14 DEF C, R, K, I, M

\* Every script goes from the schema of one revision to that of the next.
LEMMA ScriptsSound ==
  /\ Sound(ExpandUp, BaseSchema, BaseSchema \cup New)
  /\ Sound(ExpandDown, BaseSchema \cup New, BaseSchema)
  /\ Sound(ContractUp, BaseSchema \cup New, New \cup Final)
  /\ Sound(ContractDown, New \cup Final, BaseSchema \cup New)
  /\ Sound(CleanupUp, New \cup Final, (New \cup Final) \ {MappingTable})
<1>1. /\ BaseSchema = {Owner, Done, OwnerRequired, DoneRequired, OwnerReference}
      /\ Gone(Owner) = {Owner, OwnerRequired} /\ Gone(Done) = {Done, DoneRequired}
      /\ Gone(OwnerReference) = {OwnerReference}
  BY Kinds
<1>2. \A o \in New : /\ ~Requiring(o) /\ o \notin BaseSchema /\ Gone(o) \cap BaseSchema = {}
                     /\ o \in Gone(o) /\ \A x \in New : x \in Gone(o) => x = o
  <2>1. ASSUME NEW o \in New
        PROVE  ~Requiring(o) /\ o \in Gone(o)
    <3>1. o[1] # "not null"
      BY Kinds, Zenon
    <3> QED BY <3>1 DEF Requiring, Gone
  <2>2. ASSUME NEW o \in New
        PROVE  o \notin BaseSchema /\ Gone(o) \cap BaseSchema = {} /\ \A x \in New : x \in Gone(o) => x = o
    BY Kinds, Zenon
  <2> QED BY <2>1, <2>2
<1>3. \A o \in Final : /\ Gone(o) = {o} /\ o \notin BaseSchema /\ o \notin New
                       /\ Requiring(o) => Column(o[2]) \in New
  <2>1. ASSUME NEW o \in Final
        PROVE  Gone(o) = {o} /\ o \notin BaseSchema /\ o \notin New
    BY Kinds, Zenon
  <2>2. ASSUME NEW o \in Final, Requiring(o)
        PROVE  Column(o[2]) \in New
    BY <2>2, Kinds, Zenon DEF Requiring
  <2> QED BY <2>1, <2>2
<1>4. MappingTable \in New /\ Gone(MappingTable) = {MappingTable}
  BY DEF New, MappingTable, Gone
<1>5. /\ ~Requiring(Owner) /\ ~Requiring(Done) /\ ~Requiring(OwnerReference)
      /\ Requiring(OwnerRequired) /\ OwnerRequired[2] = "owner_id" /\ Column("owner_id") = Owner
      /\ Requiring(DoneRequired) /\ DoneRequired[2] = "completed" /\ Column("completed") = Done
  BY DEF Requiring, Owner, Done, Column, OwnerRequired, DoneRequired, NotNull, OwnerReference
<1>6. Owner # Done /\ OwnerRequired # DoneRequired
      /\ {Owner, Done} \cap {OwnerRequired, DoneRequired} = {}
      /\ OwnerReference \notin {Owner, Done, OwnerRequired, DoneRequired}
  BY DEF Owner, Done, Column, OwnerRequired, DoneRequired, NotNull, OwnerReference
<1>7. Sound(ExpandUp, BaseSchema, BaseSchema \cup New)
  <2> DEFINE a == Columns \o References \o <<StatusCheck>> \o Indexes \o <<MappingTable>>
  <2>1. a \in Seq(AllObjects) /\ Distinct(a) /\ Objects(a) = New
    BY Lists DEF Once
  <2>2. ExpandUp = Adding(a)
    BY DEF ExpandUp
  <2> HIDE DEF a
  <2> QED BY <1>2, <2>1, <2>2, AddingSound
<1>8. Sound(ExpandDown, BaseSchema \cup New, BaseSchema)
  <2> DEFINE a == <<MappingTable>> \o Backwards(References) \o <<StatusCheck>>
                    \o Backwards(Indexes) \o Backwards(Columns)
             T == (BaseSchema \cup New) \ UNION {Gone(o) : o \in Objects(a)}
  <2>1. a \in Seq(AllObjects) /\ Distinct(a) /\ Objects(a) = New
    BY Lists DEF Once
  <2>2. ExpandDown = Dropping(a)
    BY DEF ExpandDown
  <2> HIDE DEF a
  <2>3. Sound(ExpandDown, BaseSchema \cup New, T)
    BY <1>2, <2>1, <2>2, DroppingSound
  <2>4. T = BaseSchema
    <3>1. \A x : x \in UNION {Gone(o) : o \in Objects(a)} <=> \E o \in New : x \in Gone(o)
      BY <2>1
    <3> QED BY <1>2, <3>1
  <2> QED BY <2>3, <2>4
<1>9. Sound(ContractUp, BaseSchema \cup New, New \cup Final)
  <2> DEFINE a == Required \o ContentChecks
             d == <<OwnerReference>> \o LegacyColumns
             S == BaseSchema \cup New
             T == S \cup Final
             U == T \ UNION {Gone(o) : o \in Objects(d)}
  <2>1. a \in Seq(AllObjects) /\ Distinct(a) /\ Objects(a) = Final
    BY Lists DEF Once
  <2>2. d \in Seq(AllObjects) /\ Distinct(d) /\ Objects(d) = {OwnerReference, Owner, Done}
    BY Lists DEF Once
  <2>3. ContractUp = Adding(a) \o Dropping(d)
    BY DEF ContractUp
  <2> HIDE DEF a, d
  <2>4. Sound(Adding(a), S, T)
    BY <1>3, <2>1, AddingSound
  <2>5. Sound(Dropping(d), T, U) /\ Before(Dropping(d), Len(Dropping(d)) + 1, "add") = {}
    <3> HIDE DEF S
    <3>1. \A o, x \in {OwnerReference, Owner, Done} :
            ~Requiring(o) /\ o \in T /\ (o \in Gone(x) => x = o)
      BY <1>1, <1>5, <1>6 DEF S
    <3> HIDE DEF T
    <3> QED BY <2>2, <3>1, DroppingSound
  <2>6. Sound(ContractUp, S, U)
    <3> HIDE DEF S, T, U
    <3> QED BY <2>3, <2>4, <2>5, JoinedSound
  <2>7. U = New \cup Final
    <3>1. \A x : x \in UNION {Gone(o) : o \in Objects(d)}
                   <=> x \in Gone(OwnerReference) \cup Gone(Owner) \cup Gone(Done)
      BY <2>2
    <3>2. \A x : x \in UNION {Gone(o) : o \in Objects(d)} <=> x \in BaseSchema
      BY <1>1, <3>1
    <3> QED BY <1>2, <1>3, <3>2
  <2> QED BY <2>6, <2>7
<1>10. Sound(ContractDown, New \cup Final, BaseSchema \cup New)
  <2> DEFINE a == LegacyColumns
             u == <<[verb |-> "update", object |-> <<"rows", "tasks">>]>>
             b == LegacyRequired \o <<OwnerReference>>
             d == Backwards(ContentChecks) \o Backwards(Required)
             S == New \cup Final
             T == S \cup {Owner, Done}
             U == T \cup {OwnerRequired, DoneRequired, OwnerReference}
             V == U \ UNION {Gone(o) : o \in Objects(d)}
  <2>1. a \in Seq(AllObjects) /\ Distinct(a) /\ Objects(a) = {Owner, Done}
    BY Lists DEF Once
  <2>2. b \in Seq(AllObjects) /\ Distinct(b)
        /\ Objects(b) = {OwnerRequired, DoneRequired, OwnerReference}
    BY Lists DEF Once
  <2>3. d \in Seq(AllObjects) /\ Distinct(d) /\ Objects(d) = Final
    BY Lists DEF Once
  <2>4. ContractDown = Adding(a) \o u \o Adding(b) \o Dropping(d)
    BY DEF ContractDown
  <2>5. Sound(u, T, T) /\ Before(u, Len(u) + 1, "add") = {} /\ Taken(u, Len(u) + 1) = {}
    BY UpdateSound
  <2> HIDE DEF a, u, b, d
  <2>6. Sound(Adding(a), S, T) /\ Taken(Adding(a), Len(Adding(a)) + 1) = {}
    <3>1. \A o \in {Owner, Done} : ~Requiring(o) /\ o \notin S
      BY <1>1, <1>2, <1>3, <1>5
    <3> QED BY <2>1, <3>1, AddingSound
  <2>7. Sound(Adding(b), T, U) /\ Taken(Adding(b), Len(Adding(b)) + 1) = {}
    <3>1. OwnerReference \notin T
      BY <1>1, <1>2, <1>3, <1>6
    <3>2. Column(OwnerRequired[2]) \in T /\ Column(DoneRequired[2]) \in T
      BY <1>5
    <3> HIDE DEF T
    <3>3. \A o \in Objects(b) : IF Requiring(o) THEN Column(o[2]) \in T ELSE o \notin T
      BY <1>5, <2>2, <3>1, <3>2
    <3> QED BY <2>2, <3>3, AddingSound
  <2>8. Sound(Dropping(d), U, V) /\ Before(Dropping(d), Len(Dropping(d)) + 1, "add") = {}
    <3>1. \A o, x \in Final : /\ Requiring(o) => Column(o[2]) \in U \ Gone(x)
                              /\ o \in U /\ (o \in Gone(x) => x = o)
      BY <1>3
    <3> HIDE DEF U
    <3> QED BY <2>3, <3>1, DroppingSound
  <2>9. Sound(ContractDown, S, V)
    <3> HIDE DEF S, T, U, V
    <3> DEFINE p == Adding(a) \o u
               q == p \o Adding(b)
    <3>1. Sound(p, S, T) /\ Taken(p, Len(p) + 1) = {}
      BY <2>5, <2>6, JoinedSound
    <3> HIDE DEF p
    <3>2. Sound(q, S, U)
      BY <2>7, <3>1, JoinedSound
    <3> HIDE DEF q
    <3>3. Sound(q \o Dropping(d), S, V)
      BY <2>8, <3>2, JoinedSound
    <3> QED BY <2>4, <3>3 DEF p, q
  <2>10. V = BaseSchema \cup New
    <3>1. \A x : x \in UNION {Gone(o) : o \in Objects(d)} <=> x \in Final
      BY <1>3, <2>3
    <3>2. U = New \cup Final \cup BaseSchema
      BY <1>1
    <3> QED BY <1>3, <3>1, <3>2
  <2> QED BY <2>9, <2>10
<1>11. Sound(CleanupUp, New \cup Final, (New \cup Final) \ {MappingTable})
  <2> DEFINE a == <<MappingTable>>
             S == New \cup Final
             T == S \ UNION {Gone(o) : o \in Objects(a)}
  <2>1. a \in Seq(AllObjects) /\ Distinct(a) /\ Objects(a) = {MappingTable}
    BY Lists DEF Once
  <2>2. CleanupUp = Dropping(a)
    BY DEF CleanupUp
  <2> HIDE DEF a
  <2>3. MappingTable \in S /\ ~Requiring(MappingTable)
    BY <1>2, <1>4
  <2>4. Sound(CleanupUp, S, T)
    <3> HIDE DEF S
    <3> QED BY <2>1, <2>2, <2>3, DroppingSound
  <2>5. T = S \ {MappingTable}
    <3>1. \A x : x \in UNION {Gone(o) : o \in Objects(a)} <=> x = MappingTable
      BY <1>4, <2>1
    <3> QED BY <3>1
  <2> QED BY <2>4, <2>5
<1> QED BY <1>7, <1>8, <1>9, <1>10, <1>11

\* The objects a script adds.
AddsOnly(s, O) == \A i \in 1..Len(s) : s[i].verb = "add" => s[i].object \in O

\* The downgrades of the expansion and the cleanup add nothing, the other scripts
\* what the revision they lead to has more.
LEMMA ScriptAdds ==
  /\ AddsOnly(ExpandUp, New) /\ AddsOnly(ExpandDown, {})
  /\ AddsOnly(ContractUp, Final) /\ AddsOnly(ContractDown, BaseSchema)
  /\ AddsOnly(CleanupUp, {})
<1>1. ASSUME NEW a, NEW O, Once(a, O)
      PROVE  /\ Adding(a) \in Seq(Statements) /\ AddsOnly(Adding(a), O)
             /\ Dropping(a) \in Seq(Statements) /\ AddsOnly(Dropping(a), {})
  <2>1. a \in Seq(AllObjects) /\ Objects(a) = O
    BY <1>1 DEF Once
  <2>2. \A i \in 1..Len(a) : a[i] \in O
    BY <2>1, ObjectsOf
  <2> QED BY <2>1, <2>2, AddingAt DEF AddsOnly
<1>2. ASSUME NEW a \in Seq(Statements), NEW b \in Seq(Statements), NEW A, NEW B,
             AddsOnly(a, A), AddsOnly(b, B)
      PROVE  a \o b \in Seq(Statements) /\ AddsOnly(a \o b, A \cup B)
  <2> HIDE DEF Statements
  <2> DEFINE c == a \o b
  <2>1. /\ c \in Seq(Statements) /\ Len(a) \in Nat /\ Len(b) \in Nat /\ Len(c) = Len(a) + Len(b)
        /\ \A i \in 1..(Len(a) + Len(b)) : c[i] = IF i <= Len(a) THEN a[i] ELSE b[i - Len(a)]
    OBVIOUS
  <2> HIDE DEF c
  <2>2. ASSUME NEW i \in 1..Len(c), c[i].verb = "add"
        PROVE  c[i].object \in A \cup B
    <3>1. CASE i <= Len(a)
      <4>1. i \in 1..Len(a) /\ c[i] = a[i]
        BY <2>1, <3>1
      <4> QED BY <1>2, <2>2, <4>1 DEF AddsOnly
    <3>2. CASE ~(i <= Len(a))
      <4>1. i - Len(a) \in 1..Len(b) /\ c[i] = b[i - Len(a)]
        BY <2>1, <3>2
      <4> QED BY <1>2, <2>2, <4>1 DEF AddsOnly
    <3> QED BY <3>1, <3>2
  <2> QED BY <2>1, <2>2 DEF AddsOnly, c
<1>3. AddsOnly(ExpandUp, New) /\ AddsOnly(ExpandDown, {}) /\ AddsOnly(CleanupUp, {})
  BY <1>1, Lists DEF ExpandUp, ExpandDown, CleanupUp
<1>4. AddsOnly(ContractUp, Final)
  <2> DEFINE a == Adding(Required \o ContentChecks)
             d == Dropping(<<OwnerReference>> \o LegacyColumns)
  <2>1. a \in Seq(Statements) /\ AddsOnly(a, Final) /\ d \in Seq(Statements) /\ AddsOnly(d, {})
    BY <1>1, Lists
  <2>2. ContractUp = a \o d
    BY DEF ContractUp
  <2> HIDE DEF a, d
  <2>3. AddsOnly(a \o d, Final \cup {})
    BY <1>2, <2>1
  <2> QED BY <2>2, <2>3
<1>5. AddsOnly(ContractDown, BaseSchema)
  <2> DEFINE a == Adding(LegacyColumns)
             u == <<[verb |-> "update", object |-> <<"rows", "tasks">>]>>
             b == Adding(LegacyRequired \o <<OwnerReference>>)
             d == Dropping(Backwards(ContentChecks) \o Backwards(Required))
             A == {Owner, Done}
             B == {OwnerRequired, DoneRequired, OwnerReference}
  <2>1. /\ a \in Seq(Statements) /\ AddsOnly(a, A)
        /\ b \in Seq(Statements) /\ AddsOnly(b, B)
        /\ d \in Seq(Statements) /\ AddsOnly(d, {})
    BY <1>1, Lists
  <2>2. u \in Seq(Statements) /\ AddsOnly(u, {})
    <3>1. u \in Seq(Statements)
      BY UpdateSound DEF Sound
    <3>2. Len(u) = 1 /\ u[1].verb = "update"
      OBVIOUS
    <3> QED BY <3>1, <3>2 DEF AddsOnly
  <2>3. ContractDown = a \o u \o b \o d
    BY DEF ContractDown
  <2> HIDE DEF a, u, b, d, A, B
  <2>4. a \o u \in Seq(Statements) /\ AddsOnly(a \o u, A)
    BY <1>2, <2>1, <2>2
  <2>5. a \o u \o b \in Seq(Statements) /\ AddsOnly(a \o u \o b, A \cup B)
    BY <1>2, <2>1, <2>4
  <2>6. AddsOnly(a \o u \o b \o d, A \cup B)
    <3> DEFINE c == a \o u \o b
               O == A \cup B
    <3> HIDE DEF c, O
    <3>1. AddsOnly(c \o d, O \cup {})
      BY <1>2, <2>1, <2>5 DEF c, O
    <3> QED BY <3>1 DEF c, O
  <2>7. A \cup B = BaseSchema
    BY Kinds DEF A, B
  <2> QED BY <2>3, <2>6, <2>7
<1> QED BY <1>3, <1>4, <1>5

\* Alembic's step from one revision to the next.
Runs(r, direction) ==
  \/ direction = "up" /\ r \in {Base, Backfill, Contract}
  \/ direction = "down" /\ r \in {Expand, Contract}

\* The script of every command that runs one leads to the next schema.
LEMMA ScriptSound ==
  ASSUME NEW r, NEW direction, Runs(r, direction)
  PROVE  /\ Sound(Script(r, direction), SchemaAt(r), SchemaAt(IF direction = "up" THEN r + 1 ELSE r - 1))
         /\ Script(r, direction) \in Seq(Statements)
<1>1. CASE direction = "up" /\ r = Base
  <2>1. Script(r, direction) = ExpandUp /\ r + 1 = Expand
    BY <1>1 DEF Script, Base, Expand, Backfill, Contract
  <2> QED BY <1>1, <2>1, ScriptsSound, Schemas DEF Sound
<1>2. CASE direction = "up" /\ r = Backfill
  <2>1. Script(r, direction) = ContractUp /\ r + 1 = Contract
    BY <1>2 DEF Script, Base, Expand, Backfill, Contract
  <2> QED BY <1>2, <2>1, ScriptsSound, Schemas DEF Sound
<1>3. CASE direction = "up" /\ r = Contract
  <2>1. Script(r, direction) = CleanupUp /\ r + 1 = Cleanup
    BY <1>3 DEF Script, Base, Expand, Backfill, Contract, Cleanup
  <2> QED BY <1>3, <2>1, ScriptsSound, Schemas DEF Sound
<1>4. CASE direction = "down" /\ r = Expand
  <2>1. Script(r, direction) = ExpandDown /\ r - 1 = Base
    BY <1>4 DEF Script, Base, Expand, Backfill, Contract
  <2> QED BY <1>4, <2>1, ScriptsSound, Schemas DEF Sound
<1>5. CASE direction = "down" /\ r = Contract
  <2>1. Script(r, direction) = ContractDown /\ r - 1 = Backfill
    BY <1>5 DEF Script, Base, Expand, Backfill, Contract
  <2> QED BY <1>5, <2>1, ScriptsSound, Schemas DEF Sound
<1> QED BY <1>1, <1>2, <1>3, <1>4, <1>5 DEF Runs

-----------------------------------------------------------------------------
(* The recorded revision tells the schema.                                 *)

\* Unless a command crashed, the schema is the one the script of the running
\* command has made so far, and its rows are fit for what the script still adds.
Staged ==
  ~crashed =>
    /\ Idle => schema = SchemaAt(revision)
    /\ ~Idle =>
         /\ command.step <= Len(Script(revision, command.direction)) + 1
         /\ schema = Halfway(Script(revision, command.direction), command.step, SchemaAt(revision))
         /\ revision = Backfill => \A t \in LiveTasks : Filled(task[t]) /\ ContentFits(task[t])

\* No row stands in the way of a constraint a script adds.
LEMMA RowsFit ==
  ASSUME IInv, Staged, ~crashed, ~Idle,
         NEW script, script = Script(revision, command.direction),
         command.step \in 1..Len(script), script[command.step].verb = "add"
  PROVE  RowsAdmit(script[command.step].object)
<1> DEFINE object == script[command.step].object
<1>1. Runs(revision, command.direction)
  BY DEF IInv, Running, Runs
<1>2. ASSUME ~Requiring(object), object \notin Objects(ContentChecks)
      PROVE  RowsAdmit(object)
  <2> HIDE DEF object
  <2>1. object[1] # "not null"
    BY <1>2 DEF Requiring
  <2> QED BY <1>2, <2>1, Zenon DEF RowsAdmit
<1>3. \A o \in New : ~Requiring(o) /\ o \notin Objects(ContentChecks)
  BY Kinds, Zenon DEF Requiring
<1>4. \A o \in BaseSchema : o \notin Objects(ContentChecks)
  BY Kinds, Zenon DEF Final
<1>5. /\ ~Requiring(Owner) /\ ~Requiring(Done) /\ ~Requiring(OwnerReference)
      /\ OwnerRequired[2] = "owner_id" /\ DoneRequired[2] = "completed"
      /\ Owner # OwnerRequired /\ Owner # DoneRequired /\ Done # OwnerRequired /\ Done # DoneRequired
  BY DEF Requiring, Owner, Done, Column, OwnerRequired, DoneRequired, NotNull, OwnerReference
<1>6. CASE command.direction = "up" /\ revision = Base
  <2>1. script = ExpandUp
    BY <1>6 DEF Script, Base, Expand, Backfill, Contract
  <2>2. object \in New
    BY <2>1, ScriptAdds DEF AddsOnly
  <2> QED BY <1>2, <1>3, <2>2
<1>7. CASE command.direction = "up" /\ revision = Backfill
  <2>1. script = ContractUp
    BY <1>7 DEF Script, Base, Expand, Backfill, Contract
  <2>2. object \in Final
    BY <2>1, ScriptAdds DEF AddsOnly
  <2>3. \A t \in LiveTasks : Filled(task[t]) /\ ContentFits(task[t])
    BY <1>7 DEF Staged
  <2> HIDE DEF object
  <2>4. object[1] = "not null" => object[2] \in RequiredNames
    BY <2>2, Kinds, Zenon
  <2>5. ASSUME NEW c \in RequiredNames, NEW t \in LiveTasks
        PROVE  ~IsNull(c, t)
    BY <2>3 DEF IsNull, Filled, RequiredNames, NewColumnNames
  <2>6. \A t \in LiveTasks : task[t].content \in ValidContents
    BY <2>3 DEF ContentFits
  <2>7. RowsAdmit(object)
    BY <2>4, <2>5, <2>6, Zenon DEF RowsAdmit
  <2> QED BY <2>7 DEF object
<1>8. CASE command.direction = "up" /\ revision = Contract
  <2>1. script = CleanupUp
    BY <1>8 DEF Script, Base, Expand, Backfill, Contract
  <2> QED BY <2>1, ScriptAdds DEF AddsOnly
<1>9. CASE command.direction = "down" /\ revision = Expand
  <2>1. script = ExpandDown
    BY <1>9 DEF Script, Base, Expand, Backfill, Contract
  <2> QED BY <2>1, ScriptAdds DEF AddsOnly
<1>10. CASE command.direction = "down" /\ revision = Contract
  <2>1. script = ContractDown
    BY <1>10 DEF Script, Base, Expand, Backfill, Contract
  <2>2. object \in {Owner, Done, OwnerRequired, DoneRequired, OwnerReference}
    BY <2>1, ScriptAdds, Kinds DEF AddsOnly
  <2>3. CASE object \in {Owner, Done, OwnerReference}
    <3>1. object \in BaseSchema
      BY <2>3, Kinds
    <3> QED BY <1>2, <1>4, <1>5, <2>3, <3>1
  <2>4. CASE object \in {OwnerRequired, DoneRequired}
    <3>1. command.step > 3
      <4>1. Len(ContractDown) \in Nat /\ ContractDown[1].object = Owner /\ ContractDown[2].object = Done
            /\ ContractDown[3].verb = "update"
        <5>1. /\ ContractDown[1] = [verb |-> "add", object |-> Owner]
              /\ ContractDown[2] = [verb |-> "add", object |-> Done]
          BY ContractDownStatements
        <5>2. Len(ContractDown) \in Nat /\ ContractDown[3].verb = "update"
          BY ContractDownStatements
        <5> QED BY <5>1, <5>2
      <4>2. command.step # 1 /\ command.step # 2 /\ command.step # 3
        BY <1>5, <2>1, <2>4, <4>1
      <4> QED BY <2>1, <4>1, <4>2
    <3>2. ASSUME NEW t \in LiveTasks
          PROVE  ~IsNull("owner_id", t) /\ ~IsNull("completed", t)
      <4>1. legacy[t].owner = meant[t].owner /\ legacy[t].completed = Completed(meant[t].done)
        BY <1>10, <3>1 DEF IInv, Running
      <4>2. meant[t].owner # NoUser
        BY DEF IInv, Facts, Truthful
      <4> QED BY <4>1, <4>2 DEF IsNull, Completed, Null
    <3>3. object \in BaseSchema /\ object[2] \in {"owner_id", "completed"}
      BY <1>5, <2>4, Kinds
    <3> HIDE DEF object
    <3>4. RowsAdmit(object)
      BY <1>4, <3>2, <3>3, Zenon DEF RowsAdmit
    <3> QED BY <3>4 DEF object
  <2> QED BY <2>2, <2>3, <2>4
<1> QED BY <1>1, <1>6, <1>7, <1>8, <1>9, <1>10 DEF Runs

\* So no statement is refused.
LEMMA NoneRefused ==
  ASSUME IInv, Staged, ~crashed, ~Idle,
         NEW script, script = Script(revision, command.direction),
         command.step \in 1..Len(script)
  PROVE  Executable(script[command.step])
<1> DEFINE s == script[command.step]
<1>1. Runs(revision, command.direction)
  BY DEF IInv, Running, Runs
<1>2. script \in Seq(Statements) /\ Admits(schema, s)
  BY <1>1, ScriptSound DEF Sound, Staged
<1>3. s.verb \in {"add", "drop", "update"}
  <2>1. s \in Statements
    BY <1>2, Element
  <2> QED BY <2>1 DEF Statements
<1>4. s.verb = "add" => RowsAdmit(s.object)
  BY RowsFit
<1> HIDE DEF s
<1>5. Requiring(s.object) <=> s.object[1] = "not null"
  BY Zenon DEF Requiring
<1>6. Executable(s)
  BY <1>2, <1>3, <1>4, <1>5, Zenon DEF Executable, Admits
<1> QED BY <1>6 DEF s

\* A statement takes the schema one step on.
LEMMA StatementStages ==
  ASSUME IInv, Staged, RunStatement
  PROVE  Staged'
<1> SUFFICES ASSUME ~crashed
             PROVE  Staged'
  BY DEF Staged, RunStatement, Refuse, history
<1> DEFINE script == Script(revision, command.direction)
           i == command.step
           s == script[i]
           S == SchemaAt(revision)
<1>1. ~Idle /\ Runs(revision, command.direction) /\ i \in Nat \ {0} /\ i <= Len(script)
      /\ command = [direction |-> command.direction, step |-> command.step]
  BY DEF RunStatement, IInv, Running, Runs
<1>2. script \in Seq(Statements)
  BY <1>1, ScriptSound
<1>3. i \in 1..Len(script) /\ Len(script) \in Nat
  <2> HIDE DEF script, Statements
  <2> QED BY <1>1, <1>2
<1>4. Executable(s)
  BY <1>1, <1>3, NoneRefused
<1>5. /\ Execute(s)
      /\ command' = [command EXCEPT !.step = @ + 1]
      /\ UNCHANGED <<revision, outcome, history>>
  BY <1>4 DEF RunStatement
<1>7. schema = Halfway(script, i, S)
  BY <1>1 DEF Staged
<1>8. s.verb = "add" => s.object \notin Taken(script, i)
  BY <1>1, <1>3, ScriptSound DEF Sound
<1>9. schema' = Halfway(script, i + 1, S)
  <2>1. CASE s.verb = "add" /\ Add(s.object)
    <3>1. schema' = schema \cup {s.object}
      BY <2>1 DEF Add
    <3> HIDE DEF script, i, s, S
    <3>2. Halfway(script, i + 1, S) = Halfway(script, i, S) \cup {s.object}
      BY <1>2, <1>3, <1>8, <2>1, Stepwise DEF s
    <3> QED BY <1>7, <3>1, <3>2
  <2>2. CASE s.verb = "drop" /\ Drop(s.object)
    <3>1. schema' = schema \ Gone(s.object)
      BY <2>2 DEF Drop, Gone
    <3> HIDE DEF script, i, s, S
    <3>2. Halfway(script, i + 1, S) = Halfway(script, i, S) \ Gone(s.object)
      BY <1>2, <1>3, <1>8, <2>2, Stepwise DEF s
    <3> QED BY <1>7, <3>1, <3>2
  <2>3. CASE s.verb = "update" /\ UpdateTasks
    <3>1. schema' = schema
      BY <2>3 DEF UpdateTasks
    <3> HIDE DEF script, i, s, S
    <3>2. Halfway(script, i + 1, S) = Halfway(script, i, S)
      BY <1>2, <1>3, <1>8, <2>3, Stepwise DEF s
    <3> QED BY <1>7, <3>1, <3>2
  <2> QED BY <1>5, <2>1, <2>2, <2>3 DEF Execute
<1>10. /\ command'.direction = command.direction /\ command'.step = i + 1
       /\ revision' = revision /\ crashed' = crashed
  BY <1>1, <1>5 DEF history
<1>11. ~Idle'
  BY <1>3, <1>10 DEF Idle, NoCommand
<1>12. i + 1 <= Len(script) + 1
  BY <1>3
<1>13. ASSUME revision = Backfill, NEW t \in LiveTasks'
       PROVE  (Filled(task[t]) /\ ContentFits(task[t]))'
  <2>1. UNCHANGED task
    BY <1>13, LateStatement DEF Backfill
  <2> QED BY <1>1, <1>13, <2>1 DEF Staged, Filled, ContentFits, LiveTasks, Live
<1>14. /\ Script(revision, command.direction)' = script
       /\ SchemaAt(revision)' = S
  BY <1>10
<1>15. schema' = Halfway(script, command.step', S) /\ command.step' <= Len(script) + 1
  BY <1>9, <1>10, <1>12
<1> HIDE DEF script, i, s, S
<1> QED BY <1>10, <1>11, <1>13, <1>14, <1>15 DEF Staged

\* Nothing else touches the schema.
LEMMA OtherStages ==
  ASSUME IInv, Staged, [Next]_vars, ~RunStatement
  PROVE  Staged'
<1>1. CASE UNCHANGED <<revision, schema, task, command, crashed>>
  BY <1>1 DEF Staged, Idle, LiveTasks, Live, Filled, ContentFits
<1>2. CASE UNCHANGED <<revision, schema, crashed>> /\ Idle /\ Idle'
  BY <1>2 DEF Staged
<1>3. ASSUME NEW direction, Refuse(direction), Idle
      PROVE  Staged'
  <2>1. UNCHANGED <<revision, schema, crashed>> /\ Idle'
    BY <1>3 DEF Refuse, End, history, Idle
  <2> QED BY <1>2, <1>3, <2>1
<1>4. ASSUME NEW direction, Idle, UNCHANGED <<revision, schema, tables, outcome, history>>,
             command' = [direction |-> direction, step |-> 1], Runs(revision, direction),
             revision = Backfill => ContractAllowed
      PROVE  Staged'
  <2> DEFINE script == Script(revision, direction)
             S == SchemaAt(revision)
  <2>1. script \in Seq(Statements)
    BY <1>4, ScriptSound
  <2>2. Len(script) \in Nat /\ 1 <= Len(script) + 1
    <3> HIDE DEF script, Statements
    <3> QED BY <2>1
  <2>3. Halfway(script, 1, S) = S
    BY <2>1, NothingBefore
  <2>4. /\ Script(revision, command.direction)' = script /\ SchemaAt(revision)' = S
        /\ command.step' = 1 /\ schema' = schema /\ crashed' = crashed /\ revision' = revision
    BY <1>4 DEF history
  <2>5. ~Idle'
    BY <1>4 DEF Idle, NoCommand
  <2>6. ASSUME revision = Backfill, NEW t \in LiveTasks'
        PROVE  (Filled(task[t]) /\ ContentFits(task[t]))'
    BY <1>4, <2>6 DEF tables, ContractAllowed, Filled, ContentFits, LiveTasks, Live
  <2> HIDE DEF script, S
  <2>7. ~crashed => schema = S
    BY <1>4 DEF Staged, S
  <2> QED BY <2>2, <2>3, <2>4, <2>5, <2>6, <2>7 DEF Staged
<1>5. CASE StartUpgrade
  <2>1. revision \in {Base, Backfill, Contract} /\ Idle /\ Start("up", UpgradeAllowed)
    BY <1>5 DEF StartUpgrade
  <2>2. CASE UpgradeAllowed /\ command' = [direction |-> "up", step |-> 1]
             /\ UNCHANGED <<revision, schema, tables, outcome, history>>
    <3>1. revision = Backfill => ContractAllowed
      BY ONLY <2>2 DEF UpgradeAllowed, Backfill, Contract
    <3> QED BY <1>4, <2>1, <2>2, <3>1 DEF Runs
  <2> QED BY <1>3, <2>1, <2>2 DEF Start
<1>6. CASE StartDowngrade
  <2>1. revision \in {Expand, Contract, Cleanup} /\ Idle /\ Start("down", DowngradeAllowed)
    BY <1>6 DEF StartDowngrade
  <2>2. CASE DowngradeAllowed /\ command' = [direction |-> "down", step |-> 1]
             /\ UNCHANGED <<revision, schema, tables, outcome, history>>
    <3>1. revision \in {Expand, Contract} /\ revision # Backfill
      BY <2>1, <2>2 DEF DowngradeAllowed, Expand, Backfill, Contract, Cleanup
    <3> QED BY <1>4, <2>1, <2>2, <3>1 DEF Runs
  <2> QED BY <1>3, <2>1, <2>2 DEF Start
<1>7. ASSUME NEW next, Idle, Succeed(next), SchemaAt(revision) = SchemaAt(next)
      PROVE  Staged'
  BY <1>7 DEF Succeed, End, history, Staged, Idle
<1>8. CASE UpgradeToBackfill
  <2>1. Refuse("up") \/ Succeed(Backfill)
    BY <1>8 DEF UpgradeToBackfill
  <2> QED BY <1>3, <1>7, <1>8, <2>1, Schemas DEF UpgradeToBackfill
<1>9. CASE DowngradeFromBackfill
  <2>1. Refuse("down") \/ Succeed(Expand)
    BY <1>9 DEF DowngradeFromBackfill
  <2> QED BY <1>3, <1>7, <1>9, <2>1, Schemas DEF DowngradeFromBackfill
<1>10. CASE RecordRevision
  <2> DEFINE script == Script(revision, command.direction)
             next == IF command.direction = "up" THEN revision + 1 ELSE revision - 1
  <2>1. /\ ~Idle /\ command.step > Len(script) /\ Runs(revision, command.direction)
        /\ command.step \in Nat
    BY <1>10 DEF RecordRevision, IInv, Running, Runs
  <2>2. Sound(script, SchemaAt(revision), SchemaAt(next)) /\ script \in Seq(Statements)
    BY <2>1, ScriptSound
  <2>3. Len(script) \in Nat
    <3> HIDE DEF script, Statements
    <3> QED BY <2>2
  <2>4. Idle' /\ revision' = next /\ schema' = schema /\ crashed' = crashed
    BY <1>10 DEF RecordRevision, Succeed, End, history, Idle
  <2>5. ASSUME ~crashed
        PROVE  schema = SchemaAt(next)
    <3>1. schema = Halfway(script, command.step, SchemaAt(revision)) /\ command.step <= Len(script) + 1
      BY <2>1, <2>5 DEF Staged
    <3> HIDE DEF script, next
    <3>2. command.step = Len(script) + 1
      BY <2>1, <2>3, <3>1
    <3> QED BY <2>2, <3>1, <3>2 DEF Sound
  <2> HIDE DEF next
  <2> QED BY <2>4, <2>5 DEF Staged
<1>11. CASE Crash
  BY <1>11 DEF Crash, Staged
<1>12. CASE Applications
  <2>1. Edit
    BY <1>12, Writes
  <2> QED BY <1>2, <2>1 DEF Edit, Idle
<1>13. CASE UNCHANGED vars
  BY <1>1, <1>13 DEF vars, tables, history
<1> QED BY <1>5, <1>6, <1>8, <1>9, <1>10, <1>11, <1>12, <1>13 DEF Next, Commands

\* The schema follows the scripts as long as no command crashes.
THEOREM StagedInvariance == Spec => []Staged
<1>1. Init => Staged
  BY Schemas DEF Init, InitialCommand, Staged, Idle
<1>2. IInv /\ Staged /\ [Next]_vars => Staged'
  BY StatementStages, OtherStages
<1> QED BY <1>1, <1>2, Invariance, PTL DEF Spec

\* Unless a command crashed, the tables have exactly the schema of the recorded
\* revision whenever none runs: no script of alembic/versions stops half-way by itself.
THEOREM SchemaIsTold == Spec => []RevisionTellsSchema
<1>1. Staged => RevisionTellsSchema
  BY DEF Staged, RevisionTellsSchema
<1> QED BY <1>1, StagedInvariance, PTL

=============================================================================
