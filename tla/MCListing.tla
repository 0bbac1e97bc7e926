------------------------------- MODULE MCListing -------------------------------
(***************************************************************************)
(* An instance of Listing: user 1 owns two workspaces, user 2 is a member  *)
(* of both, and workspace 1 has all tasks.                                 *)
(***************************************************************************)
EXTENDS Listing

CONSTANT Limits

Plain ==
  [list |-> "tasks", ws |-> 1, status |-> Statuses, priority |-> Priorities,
   assignee |-> Users \cup {NoUser},
   sort_by |-> "id", sort_order |-> "desc", limit |-> 1]

\* Every order of the unfiltered tasks, the filters one at a time in the default
\* order, and the lists that take no filter.
SomeQueries ==
  LET shapes ==
        {[Plain EXCEPT !.sort_by = c, !.sort_order = o] :
           c \in {"id", "priority", "created_at", "updated_at"}, o \in {"asc", "desc"}}
          \cup {[Plain EXCEPT !.status = {"TODO"}], [Plain EXCEPT !.priority = {1}],
                [Plain EXCEPT !.assignee = {2}], [Plain EXCEPT !.assignee = {NoUser}],
                [list |-> "members", ws |-> 1, sort_by |-> "joined_at",
                 sort_order |-> "asc", limit |-> 1],
                [list |-> "workspaces", sort_by |-> "id", sort_order |-> "desc", limit |-> 1]}
  IN  {[q EXCEPT !.limit = n] : q \in shapes, n \in Limits}

\* Two or three tasks, all written in the same moment, assigned to user 2 or free.
PopulatedInit ==
  /\ creator = [w \in Workspaces |-> 1]
  /\ role = [w \in Workspaces |-> [u \in Users |-> IF u = 1 THEN "OWNER" ELSE "MEMBER"]]
  /\ \E present \in {{1, 2}, {1, 2, 3}}, holder \in {NoUser, 2} :
       /\ task = [t \in Tasks |->
            IF t \in present
            THEN [phase |-> "live", ws |-> 1, creator |-> 1, assignee |-> holder,
                  status |-> "TODO", content |-> 1]
            ELSE Board!EmptyRow("unused")]
  /\ created = [t \in Tasks |-> 1]
  /\ updated = [t \in Tasks |-> 1]
  /\ joined = [w \in Workspaces |-> [u \in Users |-> 1]]
  /\ walk = NoWalk
  /\ writes = 0
  /\ steady = {} /\ left = FALSE /\ entered = FALSE

PopulatedSpec == PopulatedInit /\ [][Next]_vars
=============================================================================
