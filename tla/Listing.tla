-------------------------------- MODULE Listing --------------------------------
(***************************************************************************)
(* A client pages through a list while other requests change the tables:   *)
(* GET of tasks, members and workspaces.  A page is one transaction: its   *)
(* first SELECT fixes the snapshot that the membership check, the count    *)
(* and the page itself are read from.  The next page is another one, and   *)
(* whatever TaskBoard allows may be committed in between.                  *)
(*                                                                         *)
(* Operators whose names end in "Slip" are plausible mistakes in the       *)
(* definition that follows them; the specification does not use them.      *)
(***************************************************************************)
EXTENDS Policies, Integers, FiniteSets, Sequences, SequencesExt

CONSTANTS
  Users, Workspaces, Tasks,
  Priorities,  \* what tells the contents of tasks apart here
  Stamps,      \* readings of the clock
  Queries,     \* the lists clients ask for
  MaxWrites    \* bound: commits of other requests

\* A filter is the set of values it admits: one, or all.
Filters(values) == {values} \cup {{x} : x \in values}

TaskQueries ==
  [list : {"tasks"}, ws : Workspaces,
   status : Filters(Statuses), priority : Filters(Priorities),
   assignee : Filters(Users \cup {NoUser}),
   sort_by : {"id", "priority", "created_at", "updated_at"},
   sort_order : {"asc", "desc"}, limit : Nat \ {0}]

MemberQueries ==
  [list : {"members"}, ws : Workspaces,
   sort_by : {"joined_at"}, sort_order : {"asc"}, limit : Nat \ {0}]

WorkspaceQueries ==
  [list : {"workspaces"}, sort_by : {"id"}, sort_order : {"desc"}, limit : Nat \ {0}]

ASSUME ConstantsAssumption ==
  /\ Users \subseteq Nat \ {NoUser}
  /\ Workspaces \subseteq Nat \ {0}
  /\ Tasks \subseteq Nat
  /\ Priorities \subseteq Nat
  /\ Stamps \subseteq Nat
  /\ IsFiniteSet(Users) /\ IsFiniteSet(Workspaces) /\ IsFiniteSet(Tasks)
  /\ Queries \subseteq TaskQueries \cup MemberQueries \cup WorkspaceQueries
  /\ MaxWrites \in Nat

VARIABLES
  creator, role, task,  \* the tables, as in TaskBoard
  created,              \* tasks.created_at
  updated,              \* tasks.updated_at
  joined,               \* workspace_members.joined_at
  walk                  \* the client's progress through the pages

VARIABLES
  writes,    \* history: commits of other requests so far
  steady,    \* history: rows that have been in place on every page so far
  left,      \* history: a row has left the list, or its place, between two pages
  entered    \* history: a row has come to the list, or to another place

tables == <<creator, role, task, created, updated, joined>>
history == <<steady, left, entered>>
vars == <<tables, walk, writes, history>>

-----------------------------------------------------------------------------
(* The other requests.                                                     *)

Board == INSTANCE TaskBoard
  WITH Contents <- Priorities, creator <- creator, role <- role, task <- task

\* A stamp is read before the commit, so those of requests that overlap may come
\* in any order, and be equal.  One removal gives all its tasks the same.
Write ==
  /\ writes < MaxWrites
  /\ writes' = writes + 1
  /\ Board!Next
  /\ \E now \in Stamps :
       /\ created' = [t \in Tasks |->
            IF task[t].phase = "unused" /\ task'[t].phase = "live" THEN now ELSE created[t]]
       /\ updated' = [t \in Tasks |-> IF task'[t] # task[t] THEN now ELSE updated[t]]
       /\ joined' = [w \in Workspaces |-> [u \in Users |->
            IF role[w][u] = NoRole /\ role'[w][u] # NoRole THEN now ELSE joined[w][u]]]
  /\ UNCHANGED <<walk, history>>

-----------------------------------------------------------------------------
(* What a query selects, and in which order.                               *)

\* The conditions of list_tasks; NoUser stands for unassigned=true, which
\* excludes an assignee_id.
Selected(t, q) ==
  /\ task[t].phase = "live" /\ task[t].ws = q.ws
  /\ task[t].status \in q.status
  /\ task[t].content \in q.priority
  /\ task[t].assignee \in q.assignee

TaskKey(t, q) ==
  CASE q.sort_by = "id" -> t
    [] q.sort_by = "priority" -> task[t].content
    [] q.sort_by = "created_at" -> created[t]
    [] OTHER -> updated[t]

\* The rows of the list, with what they are sorted by.
Entries(u, q) ==
  CASE q.list = "tasks" -> {[id |-> t, key |-> TaskKey(t, q)] : t \in {x \in Tasks : Selected(x, q)}}
    [] q.list = "members" ->
         {[id |-> x, key |-> joined[q.ws][x]] : x \in {y \in Users : role[q.ws][y] # NoRole}}
    [] OTHER -> {[id |-> w, key |-> w] : w \in {x \in Workspaces : role[x][u] # NoRole}}

BeforeSlip(a, b, q) == IF q.sort_order = "asc" THEN a.key < b.key ELSE b.key < a.key

\* ORDER BY the sort column, then the id, both in the order asked for.
Before(a, b, q) ==
  LET less(x, y) == x.key < y.key \/ (x.key = y.key /\ x.id < y.id)
  IN  IF q.sort_order = "asc" THEN less(a, b) ELSE less(b, a)

\* Every way to put the rows into that order: MySQL leaves ties open.
Ordered(rows, q) ==
  {s \in SetToSeqs(rows) : \A i, j \in DOMAIN s : i < j => ~Before(s[j], s[i], q)}

\* OFFSET and LIMIT.
Window(s, offset, limit) ==
  SubSeq(s, offset + 1, IF offset + limit < Len(s) THEN offset + limit ELSE Len(s))

-----------------------------------------------------------------------------
(* The client.                                                             *)

NoQuery == [list |-> "none"]
NoWalk ==
  [pc |-> "idle", user |-> NoUser, query |-> NoQuery, offset |-> 0,
   rows |-> {}, total |-> 0, page |-> <<>>, seen |-> <<>>]

\* get_workspace_access; a user's own workspaces need no access.
MayList(u, q) == q.list = "workspaces" \/ role[q.ws][u] # NoRole

\* The first SELECT of a page request fixes what the other two will see.
Open(before) ==
  IF MayList(before.user, before.query)
  THEN [before EXCEPT !.pc = "open", !.rows = Entries(before.user, before.query)]
  ELSE [NoWalk EXCEPT !.pc = "refused"]

FirstPage(u, q) ==
  /\ walk.pc = "idle"
  /\ walk' = Open([NoWalk EXCEPT !.user = u, !.query = q])
  /\ steady' = walk'.rows
  /\ UNCHANGED <<tables, writes, left, entered>>

NextPage ==
  /\ walk.pc = "paging"
  /\ walk' = Open([walk EXCEPT !.offset = @ + walk.query.limit])
  /\ steady' = steady \cap walk'.rows
  /\ left' = (left \/ ~(walk.rows \subseteq walk'.rows))
  /\ entered' = (entered \/ ~(walk'.rows \subseteq walk.rows))
  /\ UNCHANGED <<tables, writes>>

CountRows ==
  /\ walk.pc = "open"
  /\ walk' = [walk EXCEPT !.pc = "counted", !.total = Cardinality(walk.rows)]
  /\ UNCHANGED <<tables, writes, history>>

\* The rows the second statement selects from.
PagedRowsSlip == Entries(walk.user, walk.query)

PagedRows == walk.rows

\* The client goes on until the total it was told is covered.
ReadPage ==
  /\ walk.pc = "counted"
  /\ \E s \in Ordered(PagedRows, walk.query) :
       LET page == Window(s, walk.offset, walk.query.limit)
           more == walk.offset + walk.query.limit < walk.total
       IN  walk' = [walk EXCEPT !.pc = IF more THEN "paging" ELSE "ended",
                                !.page = page, !.seen = @ \o page]
  /\ UNCHANGED <<tables, writes, history>>

-----------------------------------------------------------------------------
(* The specification.                                                      *)

Init ==
  /\ Board!Init
  /\ created = [t \in Tasks |-> 0]
  /\ updated = [t \in Tasks |-> 0]
  /\ joined = [w \in Workspaces |-> [u \in Users |-> 0]]
  /\ walk = NoWalk
  /\ writes = 0
  /\ steady = {} /\ left = FALSE /\ entered = FALSE

Next ==
  \/ Write
  \/ \E u \in Users, q \in Queries : FirstPage(u, q)
  \/ NextPage
  \/ CountRows
  \/ ReadPage

Spec == Init /\ [][Next]_vars

-----------------------------------------------------------------------------
(* Properties.                                                             *)

\* The total of a response and its items are of one moment, although they come
\* from two statements: the page is full unless it is the last one, and empty only
\* if its offset is past the total.
PageFitsTotal ==
  walk.pc \in {"paging", "ended"} =>
    LET rest == walk.total - walk.offset
    IN  Len(walk.page) = IF rest <= 0 THEN 0
                         ELSE IF rest < walk.query.limit THEN rest ELSE walk.query.limit

\* Rows that come to a list while a client pages through it, at any place, hide
\* none that is there all the time: unless one leaves or moves, the pages show all.
AdditionsHideNone ==
  walk.pc = "ended" /\ ~left => steady \subseteq {walk.seen[i] : i \in DOMAIN walk.seen}

\* Rows that leave a list meanwhile make no other appear twice or out of order:
\* unless one comes or moves, the pages joined are in the order asked for.
DeparturesRepeatNone ==
  ~entered =>
    \A i, j \in DOMAIN walk.seen :
      i < j =>
        /\ walk.seen[i].id # walk.seen[j].id
        /\ IF walk.query.sort_order = "asc" THEN walk.seen[i].key <= walk.seen[j].key
           ELSE walk.seen[i].key >= walk.seen[j].key
=============================================================================
