-------------------------- MODULE MCTaskTransactions --------------------------
(***************************************************************************)
(* Instances of TaskTransactions for TLC.  Most runs start from a          *)
(* workspace that is already populated, which the requests of Init can     *)
(* build one after another (run "sequential" starts from empty tables).    *)
(***************************************************************************)
EXTENDS TaskTransactions, TLC

RequestSymmetry == Permutations(Requests)

\* No action reads the reply an idle slot still shows.
WithoutReplies ==
  <<creator, role, task, [r \in Requests |-> [req[r] EXCEPT !.reply = "NONE"]]>>

AllEndpoints == Endpoints

\* Workspace w, created by user 1, with user 2 as ADMIN and user 3 as MEMBER.
PopulatedRoles(w) ==
  [u \in Users |-> CASE u = 1 -> "OWNER" [] u = 2 -> "ADMIN" [] OTHER -> "MEMBER"]

PopulatedTask(w, u) ==
  [phase |-> "live", ws |-> w, creator |-> 1,
   assignee |-> u, status |-> "TODO", content |-> CHOOSE c \in Contents : TRUE]

\* Every workspace populated, with the given tasks live; task t belongs to
\* workspace t, or to workspace 1 if there is no such workspace.
PopulatedWith(liveTasks, assignee) ==
  /\ creator = [w \in Workspaces |-> 1]
  /\ role = [w \in Workspaces |-> PopulatedRoles(w)]
  /\ task = [t \in Tasks |->
       IF t \in liveTasks
       THEN PopulatedTask(IF t \in Workspaces THEN t ELSE 1, assignee)
       ELSE NoRow("unused")]
  /\ req = [r \in Requests |-> Idle("NONE")]

FreeTasksSpec == PopulatedWith(Tasks, NoUser) /\ [][Next]_vars
AssignedTasksSpec == PopulatedWith(Tasks, 3) /\ [][Next]_vars
OneTaskSpec == PopulatedWith({1}, 3) /\ [][Next]_vars
FreeTasksFairSpec == FreeTasksSpec /\ Fairness
=============================================================================
