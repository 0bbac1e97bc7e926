----------------------------- MODULE MCMigrations -----------------------------
(***************************************************************************)
(* Instances of Migrations for TLC: which old databases a run starts from. *)
(***************************************************************************)
EXTENDS Migrations

\* Old data of up to two users: user 1 has a workspace with user 2 as its member,
\* the tasks are anybody's, and one may hold content the final schema refuses.
SeededDatabase ==
  /\ Init
  /\ \A w \in Workspaces : creator[w] = IF w = 1 /\ 1 \in users THEN 1 ELSE NoUser
  /\ {1, 2} \subseteq users => role[1][2] = "MEMBER"
  /\ \A t \in Tasks \ {1} : task[t].phase = "live" => task[t].content \in ValidContents

SeededSpec == SeededDatabase /\ [][Next]_vars

\* No users, workspaces or tasks.
EmptyDatabase ==
  /\ users = {}
  /\ creator = [w \in Workspaces |-> NoUser]
  /\ role = [w \in Workspaces |-> NoRoles]
  /\ task = [t \in Tasks |-> Board!EmptyRow("unused")]
  /\ legacy = [t \in Tasks |-> NoLegacy]
  /\ InitialCommand

EmptySpec == EmptyDatabase /\ [][Next]_vars
=============================================================================
