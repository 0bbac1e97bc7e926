----------------------------- MODULE ListingProofs -----------------------------
(***************************************************************************)
(* What a client that pages through a list gets to see, for every list,    *)
(* order and page size, and any number of concurrent writes.               *)
(***************************************************************************)
EXTENDS Listing, FiniteSetTheorems, SequenceTheorems, TLAPS

Item == [id : Nat, key : Nat]

-----------------------------------------------------------------------------
(* The place of a row: how many come before it.                            *)

Earlier(x, S, q) == {y \in S : Before(y, x, q)}
Rank(x, S, q) == Cardinality(Earlier(x, S, q))

\* The order is strict and total, because ties end at the id.
LEMMA BeforeIsTotal ==
  ASSUME NEW q, q.sort_order \in {"asc", "desc"}, NEW x \in Item, NEW y \in Item
  PROVE  /\ ~Before(x, x, q)
         /\ x # y => (Before(x, y, q) <=> ~Before(y, x, q))
         /\ Before(x, y, q) => x # y
         /\ Before(x, y, q) => IF q.sort_order = "asc" THEN x.key <= y.key ELSE x.key >= y.key
<1>1. x # y => x.id # y.id \/ x.key # y.key
  BY DEF Item
<1>2. x.id \in Nat /\ x.key \in Nat /\ y.id \in Nat /\ y.key \in Nat
  BY DEF Item
<1> QED BY <1>1, <1>2 DEF Before

\* It is transitive.
LEMMA BeforeIsTransitive ==
  ASSUME NEW q, q.sort_order \in {"asc", "desc"},
         NEW x \in Item, NEW y \in Item, NEW z \in Item, Before(x, y, q), Before(y, z, q)
  PROVE  Before(x, z, q)
<1>1. /\ x.id \in Nat /\ x.key \in Nat /\ y.id \in Nat /\ y.key \in Nat
      /\ z.id \in Nat /\ z.key \in Nat
  BY DEF Item
<1> QED BY <1>1 DEF Before

\* A rank is a number below the number of rows.
LEMMA RankType ==
  ASSUME NEW q, q.sort_order \in {"asc", "desc"},
         NEW S \in SUBSET Item, IsFiniteSet(S), NEW x \in S
  PROVE  Rank(x, S, q) \in Nat /\ Cardinality(S) \in Nat /\ Rank(x, S, q) < Cardinality(S)
<1>1. Earlier(x, S, q) \subseteq S /\ x \notin Earlier(x, S, q)
  BY BeforeIsTotal DEF Earlier
<1>2. /\ IsFiniteSet(Earlier(x, S, q))
      /\ Cardinality(Earlier(x, S, q)) <= Cardinality(S)
      /\ Cardinality(S) = Cardinality(Earlier(x, S, q)) => S = Earlier(x, S, q)
  BY <1>1, FS_Subset
<1>3. Cardinality(S) \in Nat /\ Cardinality(Earlier(x, S, q)) \in Nat
  BY <1>2, FS_CardinalityType
<1> QED BY <1>1, <1>2, <1>3 DEF Rank

\* More rows push a row back, never forward.
LEMMA RankGrows ==
  ASSUME NEW q, q.sort_order \in {"asc", "desc"}, NEW T \in SUBSET Item, IsFiniteSet(T),
         NEW S \in SUBSET T, NEW x \in S
  PROVE  Rank(x, S, q) <= Rank(x, T, q)
<1>1. Earlier(x, S, q) \subseteq Earlier(x, T, q)
  BY DEF Earlier
<1>2. IsFiniteSet(Earlier(x, T, q))
  BY FS_Subset DEF Earlier
<1> QED BY <1>1, <1>2, FS_Subset DEF Rank

\* In every ordering the row at place i has rank i - 1, and every row has a place.
LEMMA Places ==
  ASSUME NEW q, q.sort_order \in {"asc", "desc"},
         NEW S \in SUBSET Item, IsFiniteSet(S), NEW s \in Ordered(S, q)
  PROVE  /\ Cardinality(S) \in Nat
         /\ s \in Seq(S) /\ Len(s) = Cardinality(S) /\ DOMAIN s = 1..Cardinality(S)
         /\ \A i \in DOMAIN s : Rank(s[i], S, q) = i - 1
         /\ \A x \in S : \E i \in DOMAIN s : s[i] = x
<1> DEFINE n == Cardinality(S)
<1>1. n \in Nat
  BY FS_CardinalityType
<1>2. /\ s \in [1..n -> S]
      /\ \A i, j \in 1..n : i # j => s[i] # s[j]
      /\ \A i, j \in 1..n : i < j => ~Before(s[j], s[i], q)
  BY DEF Ordered, SetToSeqs
<1>3. s \in Seq(S) /\ Len(s) = n /\ DOMAIN s = 1..n
  BY <1>1, <1>2
<1>4. \A x \in S : \E i \in 1..n : s[i] = x
  <2>1. s \in Injection(1..n, S)
    BY <1>2 DEF Injection, IsInjective
  <2>2. IsFiniteSet(1..n) /\ Cardinality(1..n) = n
    BY <1>1, FS_Interval
  <2>3. s \in Surjection(1..n, S)
    BY <2>1, <2>2, FS_Injection
  <2> QED BY <2>3 DEF Surjection
<1>5. ASSUME NEW i \in 1..n
      PROVE  Rank(s[i], S, q) = i - 1
  <2> DEFINE T == Earlier(s[i], S, q)
             f == [k \in 1..(i - 1) |-> s[k]]
  <2>1. \A k \in 1..(i - 1) : k \in 1..n /\ k < i /\ s[k] # s[i] /\ s[k] \in S /\ s[i] \in S
    BY <1>1, <1>2, <1>5
  <2>2. \A k \in 1..(i - 1) : s[k] \in T
    <3> SUFFICES ASSUME NEW k \in 1..(i - 1)
                 PROVE  Before(s[k], s[i], q)
      BY <2>1 DEF Earlier
    <3>1. ~Before(s[i], s[k], q)
      BY <1>2, <2>1
    <3> QED BY <2>1, <3>1, BeforeIsTotal
  <2>3. \A x \in T : \E k \in 1..(i - 1) : s[k] = x
    <3> SUFFICES ASSUME NEW x \in S, Before(x, s[i], q)
                 PROVE  \E k \in 1..(i - 1) : s[k] = x
      BY DEF Earlier
    <3>1. PICK k \in 1..n : s[k] = x
      BY <1>4
    <3>2. x # s[i]
      BY <1>2, <1>5, BeforeIsTotal
    <3>3. ~(i < k) /\ k # i
      BY <1>2, <1>5, <3>1, <3>2
    <3> QED BY <1>1, <3>1, <3>3
  <2>4. f \in Surjection(1..(i - 1), T)
    BY <2>2, <2>3 DEF Surjection
  <2>5. f \in Injection(1..(i - 1), T)
    BY <1>2, <2>1, <2>2 DEF Injection, IsInjective
  <2>6. IsFiniteSet(1..(i - 1)) /\ Cardinality(1..(i - 1)) = i - 1
    <3>1. i \in Nat /\ i - 1 \in Int /\ i >= 1
      BY <1>1, <1>5
    <3>2. /\ IsFiniteSet(1..(i - 1))
          /\ Cardinality(1..(i - 1)) = IF 1 > i - 1 THEN 0 ELSE (i - 1) - 1 + 1
      BY <3>1, FS_Interval
    <3> QED BY <3>1, <3>2
  <2>7. Cardinality(T) = Cardinality(1..(i - 1))
    BY <2>4, <2>5, <2>6, FS_Surjection
  <2> QED BY <2>6, <2>7 DEF Rank
<1> QED BY <1>1, <1>3, <1>4, <1>5

-----------------------------------------------------------------------------
(* The tables and the rows of a list.                                      *)

TaskRows ==
  [phase : {"unused", "live", "deleted"}, ws : Workspaces \cup {0},
   creator : Users \cup {NoUser}, assignee : Users \cup {NoUser},
   status : Statuses, content : Priorities \cup {"none"}]

TablesOK ==
  /\ created \in [Tasks -> Nat] /\ updated \in [Tasks -> Nat]
  /\ joined \in [Workspaces -> [Users -> Nat]]
  /\ task \in [Tasks -> TaskRows]
  /\ \A t \in Tasks : task[t].phase = "live" => task[t].content \in Priorities

\* The other requests keep the tables well formed.
LEMMA WriteTables ==
  ASSUME TablesOK, Write
  PROVE  TablesOK'
<1> USE DEF TablesOK
<1>1. /\ task' \in [Tasks -> TaskRows]
      /\ \A t \in Tasks : task'[t].phase = "live" => task'[t].content \in Priorities
  <2> DEFINE Good(row) == row \in TaskRows /\ (row.phase = "live" => row.content \in Priorities)
  <2>2. ASSUME NEW t \in Tasks, NEW row, Good(row), task' = [task EXCEPT ![t] = row]
        PROVE  task' \in [Tasks -> TaskRows] /\ \A x \in Tasks : Good(task'[x])
    BY <2>2
  <2>3. ASSUME NEW t \in Tasks, NEW w \in Workspaces, NEW a \in Users, NEW c \in Priorities,
               Board!CreateTask(t, w, a, c)
        PROVE  task' \in [Tasks -> TaskRows] /\ \A x \in Tasks : Good(task'[x])
    <3> DEFINE row == [phase |-> "live", ws |-> w, creator |-> a,
                       assignee |-> NoUser, status |-> "TODO", content |-> c]
    <3>1. Good(row)
      BY DEF TaskRows, Statuses
    <3>2. task' = [task EXCEPT ![t] = row]
      BY <2>3 DEF Board!CreateTask, NoUser, Board!NoUser
    <3> HIDE DEF row
    <3> QED BY <2>2, <3>1, <3>2
  <2>4. ASSUME NEW t \in Tasks, NEW c \in Priorities, Board!UpdateTask(t, c)
        PROVE  task' \in [Tasks -> TaskRows] /\ \A x \in Tasks : Good(task'[x])
    <3> DEFINE row == [task[t] EXCEPT !.content = c]
    <3>1. Good(row)
      BY DEF TaskRows
    <3>2. task' = [task EXCEPT ![t] = row]
      BY <2>4 DEF Board!UpdateTask
    <3> HIDE DEF row
    <3> QED BY <2>2, <3>1, <3>2
  <2>5. ASSUME NEW t \in Tasks, Board!DeleteTask(t)
        PROVE  task' \in [Tasks -> TaskRows] /\ \A x \in Tasks : Good(task'[x])
    <3>1. Good(Board!EmptyRow("deleted"))
      BY DEF TaskRows, Statuses, Board!EmptyRow, NoUser, Board!NoUser
    <3> QED BY <2>2, <2>5, <3>1 DEF Board!DeleteTask
  <2>6. ASSUME NEW t \in Tasks, NEW a \in Users, NEW x \in Statuses, Board!UpdateTaskStatus(t, a, x)
        PROVE  task' \in [Tasks -> TaskRows] /\ \A y \in Tasks : Good(task'[y])
    BY <2>6 DEF Board!UpdateTaskStatus, TaskRows
  <2>7. ASSUME NEW t \in Tasks, NEW a \in Users, NEW u \in Users \cup {NoUser},
               Board!UpdateTaskAssignee(t, a, u)
        PROVE  task' \in [Tasks -> TaskRows] /\ \A y \in Tasks : Good(task'[y])
    BY <2>7 DEF Board!UpdateTaskAssignee, TaskRows
  <2>8. ASSUME NEW w \in Workspaces, NEW a \in Users, Board!RemoveMember(w, a)
        PROVE  task' \in [Tasks -> TaskRows] /\ \A y \in Tasks : Good(task'[y])
    <3>1. \A t \in Tasks : Good(task[t]) /\ Good([task[t] EXCEPT !.assignee = NoUser])
      BY DEF TaskRows
    <3>2. /\ task' = [t \in Tasks |-> task'[t]]
          /\ \A t \in Tasks : task'[t] \in {task[t], [task[t] EXCEPT !.assignee = NoUser]}
      BY <2>8 DEF Board!RemoveMember, NoUser, Board!NoUser
    <3>3. \A t \in Tasks : Good(task'[t])
      BY <3>1, <3>2
    <3> HIDE DEF Good
    <3>4. \A t \in Tasks : task'[t] \in TaskRows
      BY <3>3 DEF Good
    <3> QED BY <3>2, <3>3, <3>4
  <2>9. CASE UNCHANGED task
    BY <2>9
  <2>10. ASSUME \E w \in Workspaces, a \in Users :
                  \/ Board!CreateWorkspace(w, a)
                  \/ \E newRole \in Board!AssignableRoles :
                       Board!AddMember(w, a, newRole) \/ Board!UpdateMemberRole(w, a, newRole)
         PROVE  task' \in [Tasks -> TaskRows] /\ \A x \in Tasks : Good(task'[x])
    BY <2>9, <2>10 DEF Board!CreateWorkspace, Board!AddMember, Board!UpdateMemberRole
  <2> HIDE DEF Good
  <2>11. Statuses = Board!Statuses /\ NoUser = Board!NoUser
    BY DEF Statuses, Board!Statuses, NoUser, Board!NoUser
  <2>12. Board!Next
    BY DEF Write
  <2>13. task' \in [Tasks -> TaskRows] /\ \A x \in Tasks : Good(task'[x])
    <3>1. CASE \E t \in Tasks, w \in Workspaces, a \in Users, c \in Priorities :
                 Board!CreateTask(t, w, a, c)
      BY <2>3, <3>1
    <3>2. CASE \E t \in Tasks : Board!DeleteTask(t) \/ \E c \in Priorities : Board!UpdateTask(t, c)
      BY <2>4, <2>5, <3>2
    <3>3. CASE \E t \in Tasks, a \in Users :
                 \/ \E x \in Statuses : Board!UpdateTaskStatus(t, a, x)
                 \/ \E u \in Users \cup {NoUser} : Board!UpdateTaskAssignee(t, a, u)
      BY <2>6, <2>7, <3>3
    <3>4. CASE \E w \in Workspaces, a \in Users : Board!RemoveMember(w, a)
      BY <2>8, <3>4
    <3> QED BY <2>10, <2>11, <2>12, <3>1, <3>2, <3>3, <3>4 DEF Board!Next
  <2> QED BY <2>13 DEF Good
<1>2. PICK now \in Stamps :
        /\ created' = [t \in Tasks |->
             IF task[t].phase = "unused" /\ task'[t].phase = "live" THEN now ELSE created[t]]
        /\ updated' = [t \in Tasks |-> IF task'[t] # task[t] THEN now ELSE updated[t]]
        /\ joined' = [w \in Workspaces |-> [u \in Users |->
             IF role[w][u] = NoRole /\ role'[w][u] # NoRole THEN now ELSE joined[w][u]]]
  BY DEF Write
<1>3. now \in Nat
  BY ConstantsAssumption DEF ConstantsAssumption
<1>4. created' \in [Tasks -> Nat] /\ updated' \in [Tasks -> Nat]
  BY <1>2, <1>3
<1>5. joined' \in [Workspaces -> [Users -> Nat]]
  BY <1>2, <1>3
<1> QED BY <1>1, <1>4, <1>5

\* A query is of one of the three lists, and tells the order and the page size.
LEMMA QueryType ==
  ASSUME NEW q \in Queries
  PROVE  /\ q.list \in {"tasks", "members", "workspaces"}
         /\ q.list = "members" => q.ws \in Workspaces
         /\ q.sort_order \in {"asc", "desc"}
         /\ q.limit \in Nat \ {0}
  BY ConstantsAssumption DEF ConstantsAssumption, TaskQueries, MemberQueries, WorkspaceQueries

\* A list has finitely many rows, one for each id.
LEMMA EntriesType ==
  ASSUME TablesOK, NEW u \in Users, NEW q \in Queries
  PROVE  /\ Entries(u, q) \subseteq Item
         /\ IsFiniteSet(Entries(u, q))
         /\ \A x, y \in Entries(u, q) : x.id = y.id => x = y
<1> DEFINE E == Entries(u, q)
           f == [x \in E |-> x.id]
<1> USE ConstantsAssumption DEF ConstantsAssumption
<1>1. ASSUME NEW S, IsFiniteSet(S), \A x \in E : x.id \in S,
             \A x, y \in E : x.id = y.id => x = y
      PROVE  IsFiniteSet(E)
  <2>1. f \in Injection(E, S)
    BY <1>1 DEF Injection, IsInjective
  <2> QED BY <1>1, <2>1, FS_Injection
<1>2. CASE q.list = "tasks"
  <2>1. E = {[id |-> t, key |-> TaskKey(t, q)] : t \in {x \in Tasks : Selected(x, q)}}
    BY <1>2 DEF Entries
  <2>2. \A t \in Tasks : Selected(t, q) => TaskKey(t, q) \in Nat
    BY DEF TablesOK, Selected, TaskKey
  <2>3. E \subseteq Item
    BY <2>1, <2>2 DEF Item
  <2>4. (\A x \in E : x.id \in Tasks) /\ \A x, y \in E : x.id = y.id => x = y
    BY <2>1
  <2> QED BY <1>1, <2>3, <2>4
<1>3. CASE q.list = "members"
  <2>1. E = {[id |-> x, key |-> joined[q.ws][x]] : x \in {y \in Users : role[q.ws][y] # NoRole}}
    BY <1>3 DEF Entries
  <2>2. E \subseteq Item
    <3>1. q.ws \in Workspaces
      BY <1>3, QueryType
    <3>2. \A x \in Users : x \in Nat /\ joined[q.ws][x] \in Nat
      BY <3>1 DEF TablesOK
    <3> QED BY <2>1, <3>2 DEF Item
  <2>3. (\A x \in E : x.id \in Users) /\ \A x, y \in E : x.id = y.id => x = y
    BY <2>1
  <2> QED BY <1>1, <2>2, <2>3
<1>4. CASE q.list = "workspaces"
  <2>1. E = {[id |-> w, key |-> w] : w \in {x \in Workspaces : role[x][u] # NoRole}}
    BY <1>4 DEF Entries
  <2>2. E \subseteq Item
    BY <2>1 DEF Item
  <2>3. (\A x \in E : x.id \in Workspaces) /\ \A x, y \in E : x.id = y.id => x = y
    BY <2>1
  <2> QED BY <1>1, <2>2, <2>3
<1> QED BY <1>2, <1>3, <1>4, QueryType

-----------------------------------------------------------------------------
(* The client's progress.                                                  *)

Walks ==
  [pc : {"idle", "refused", "open", "counted", "paging", "ended"},
   user : Users \cup {NoUser}, query : Queries \cup {NoQuery}, offset : Nat,
   rows : SUBSET Item, total : Nat, page : Seq(Item), seen : Seq(Item)]

Walking == walk.pc \in {"open", "counted", "paging", "ended"}
Rows == walk.rows
Limit == walk.query.limit

\* How many places of the list the pages read so far have covered.
Reached == IF walk.pc \in {"paging", "ended"} THEN walk.offset + Limit ELSE walk.offset

WalkOK ==
  /\ walk \in Walks
  /\ Walking => walk.query \in Queries /\ walk.user \in Users
  /\ ~Walking => walk.seen = <<>>
  /\ IsFiniteSet(Rows)
  /\ \A x, y \in Rows : x.id = y.id => x = y
  /\ walk.pc \in {"counted", "paging", "ended"} => walk.total = Cardinality(Rows)
  /\ steady \subseteq Rows

\* A row in place all the time is shown, or still ahead.
StillAhead ==
  Walking /\ ~left =>
    \A x \in steady :
      (\E i \in DOMAIN walk.seen : walk.seen[i] = x) \/ Rank(x, Rows, walk.query) >= Reached

Follows(x, y, q) == Before(x, y, q) /\ x.id # y.id

\* What is ahead comes after everything shown.
ShownFirst ==
  Walking /\ ~entered =>
    \A y \in Rows : Rank(y, Rows, walk.query) >= Reached =>
      \A i \in DOMAIN walk.seen : Follows(walk.seen[i], y, walk.query)

InOrder ==
  ~entered =>
    \A i, j \in DOMAIN walk.seen : i < j => Follows(walk.seen[i], walk.seen[j], walk.query)

\* A client ends when the total it was told is covered.
Covered == walk.pc = "ended" => walk.total <= Reached

IInv == TablesOK /\ WalkOK /\ PageFitsTotal /\ Covered /\ StillAhead /\ ShownFirst /\ InOrder

\* A page holds the rows of rank offset, offset + 1, ... up to its limit.
IsPage(page, S, q, offset) ==
  /\ page \in Seq(S)
  /\ Len(page) = IF Cardinality(S) - offset <= 0 THEN 0
                 ELSE IF Cardinality(S) - offset < q.limit THEN Cardinality(S) - offset
                 ELSE q.limit
  /\ \A i \in 1..Len(page) : page[i] \in S /\ Rank(page[i], S, q) = offset + i - 1
  /\ \A x \in S :
       (Rank(x, S, q) >= offset /\ Rank(x, S, q) < offset + q.limit) =>
         \E i \in 1..Len(page) : page[i] = x

\* The rows on a page are the ones whose ranks its window covers.
LEMMA PageRows ==
  ASSUME NEW q, q.sort_order \in {"asc", "desc"}, q.limit \in Nat \ {0},
         NEW S \in SUBSET Item, IsFiniteSet(S), NEW s \in Ordered(S, q), NEW offset \in Nat
  PROVE  IsPage(Window(s, offset, q.limit), S, q, offset)
<1> DEFINE page == Window(s, offset, q.limit)
           n == Cardinality(S)
           last == IF offset + q.limit < n THEN offset + q.limit ELSE n
<1>1. /\ n \in Nat
      /\ s \in Seq(S) /\ Len(s) = n /\ DOMAIN s = 1..n
      /\ \A i \in 1..n : s[i] \in S /\ Rank(s[i], S, q) = i - 1
      /\ \A x \in S : \E i \in 1..n : s[i] = x
  BY Places
<1> HIDE DEF n
<1>2. page = SubSeq(s, offset + 1, last)
  BY <1>1 DEF Window
<1>3. last \in Nat /\ last <= n
  BY <1>1
<1>4. /\ page \in Seq(S)
      /\ Len(page) = IF offset + 1 <= last THEN last - offset ELSE 0
      /\ \A i \in 1..Len(page) : page[i] = s[offset + i]
  <2>1. \A i \in (offset + 1)..last : s[i] \in S
    BY <1>1, <1>3
  <2>2. /\ SubSeq(s, offset + 1, last) \in Seq(S)
        /\ Len(SubSeq(s, offset + 1, last)) =
             IF offset + 1 <= last THEN last - (offset + 1) + 1 ELSE 0
        /\ \A i \in 1..(last - (offset + 1) + 1) :
             SubSeq(s, offset + 1, last)[i] = s[offset + 1 + i - 1]
    <3>1. offset + 1 \in Int /\ last \in Int
      BY <1>3
    <3> HIDE DEF last
    <3> QED BY <2>1, <3>1, SubSeqProperties
  <2> HIDE DEF page, last
  <2>3. page \in Seq(S) /\ Len(page) = IF offset + 1 <= last THEN last - offset ELSE 0
    BY <1>2, <1>3, <2>2
  <2>4. ASSUME NEW i \in 1..Len(page)
        PROVE  page[i] = s[offset + i]
    <3>1. i \in 1..(last - (offset + 1) + 1) /\ offset + 1 + i - 1 = offset + i
      BY <1>3, <2>3
    <3> QED BY <1>2, <2>2, <3>1
  <2> QED BY <2>3, <2>4 DEF last
<1> HIDE DEF page
<1>5. Len(page) = IF n - offset <= 0 THEN 0
                  ELSE IF n - offset < q.limit THEN n - offset ELSE q.limit
  <2>1. q.limit \in Nat /\ q.limit >= 1 /\ n \in Nat /\ offset \in Nat
    BY <1>1
  <2>2. CASE offset + q.limit < n
    BY <1>4, <2>1, <2>2
  <2>3. CASE ~(offset + q.limit < n) /\ offset < n
    BY <1>4, <2>1, <2>3
  <2>4. CASE ~(offset < n)
    BY <1>4, <2>1, <2>4
  <2> QED BY <2>1, <2>2, <2>3, <2>4
<1>6. ASSUME NEW i \in 1..Len(page)
      PROVE  page[i] \in S /\ Rank(page[i], S, q) = offset + i - 1
  <2>1. offset + i \in 1..n
    <3>1. n \in Nat /\ q.limit \in Nat
      BY <1>1
    <3> QED BY <1>5, <3>1
  <2>2. page[i] = s[offset + i]
    BY <1>4
  <2>3. s[offset + i] \in S /\ Rank(s[offset + i], S, q) = (offset + i) - 1
    BY <1>1, <2>1
  <2> QED BY <2>2, <2>3
<1>7. ASSUME NEW x \in S, Rank(x, S, q) >= offset, Rank(x, S, q) < offset + q.limit
      PROVE  \E i \in 1..Len(page) : page[i] = x
  <2>1. PICK k \in 1..n : s[k] = x
    BY <1>1
  <2>2. n \in Nat /\ k \in Nat /\ k <= n /\ q.limit \in Nat
    BY <1>1
  <2>3. k - 1 >= offset /\ k - 1 < offset + q.limit
    BY <1>1, <1>7, <2>1
  <2>4. k - offset >= 1 /\ k - offset <= n - offset /\ k - offset <= q.limit
    BY <2>2, <2>3
  <2>5. Len(page) \in Nat /\ k - offset <= Len(page)
    BY <1>5, <2>2, <2>4
  <2>6. k - offset \in 1..Len(page) /\ offset + (k - offset) = k
    BY <2>2, <2>4, <2>5
  <2> QED BY <1>4, <2>1, <2>6
<1> QED BY <1>4, <1>5, <1>6, <1>7 DEF IsPage, page, n

-----------------------------------------------------------------------------
(* Every step keeps the invariant.                                         *)

\* What a granted page request, and a refused one, leave of the walk.
Opened(before) ==
  /\ walk' \in Walks
  /\ walk'.pc = "open" /\ walk'.rows = Entries(before.user, before.query)
  /\ walk'.user = before.user /\ walk'.query = before.query
  /\ walk'.offset = before.offset /\ walk'.seen = before.seen
  /\ walk'.rows \subseteq Item /\ IsFiniteSet(walk'.rows)
  /\ \A x, y \in walk'.rows : x.id = y.id => x = y

Refused ==
  walk' \in Walks /\ walk'.pc = "refused" /\ walk'.seen = <<>> /\ walk'.rows = {}

\* A page request fixes its snapshot, or is refused and ends the walk.
LEMMA OpenEffect ==
  ASSUME TablesOK, NEW before \in Walks,
         before.user \in Users, before.query \in Queries, walk' = Open(before)
  PROVE  Opened(before) \/ Refused
<1>1. CASE MayList(before.user, before.query)
  <2>1. walk' = [before EXCEPT !.pc = "open", !.rows = Entries(before.user, before.query)]
    BY <1>1 DEF Open
  <2>2. /\ Entries(before.user, before.query) \subseteq Item
        /\ IsFiniteSet(Entries(before.user, before.query))
        /\ \A x, y \in Entries(before.user, before.query) : x.id = y.id => x = y
    BY EntriesType
  <2>3. /\ walk'.pc = "open" /\ walk'.rows = Entries(before.user, before.query)
        /\ walk'.user = before.user /\ walk'.query = before.query
        /\ walk'.offset = before.offset /\ walk'.seen = before.seen
        /\ walk'.total = before.total /\ walk'.page = before.page
    BY <2>1 DEF Walks
  <2>4. walk' \in Walks
    BY <2>1, <2>2 DEF Walks
  <2> QED BY <2>1, <2>2, <2>3, <2>4 DEF Opened
<1>2. CASE ~MayList(before.user, before.query)
  <2>1. walk' = [NoWalk EXCEPT !.pc = "refused"]
    BY <1>2 DEF Open
  <2>2. walk' = [pc |-> "refused", user |-> NoUser, query |-> NoQuery, offset |-> 0,
                 rows |-> {}, total |-> 0, page |-> <<>>, seen |-> <<>>]
    BY <2>1 DEF NoWalk
  <2>3. <<>> \in Seq(Item)
    OBVIOUS
  <2> QED BY <2>2, <2>3 DEF Walks, Refused
<1> QED BY <1>1, <1>2

\* A refused request shows nothing, so there is nothing to keep.
LEMMA RefusedKeeps ==
  ASSUME TablesOK', Refused, steady' = {}
  PROVE  IInv'
<1> USE DEF Refused
<1>1. WalkOK'
  BY FS_EmptySet DEF WalkOK, Walking, Rows
<1>2. PageFitsTotal' /\ Covered' /\ StillAhead' /\ ShownFirst'
  BY DEF PageFitsTotal, Covered, StillAhead, ShownFirst, Walking
<1>3. InOrder'
  BY DEF InOrder
<1> QED BY <1>1, <1>2, <1>3 DEF IInv

\* The first page starts with every row in place and none shown.
LEMMA FirstPageStep ==
  ASSUME IInv, NEW u \in Users, NEW q \in Queries, FirstPage(u, q)
  PROVE  IInv'
<1> DEFINE before == [NoWalk EXCEPT !.user = u, !.query = q]
<1>1. before \in Walks /\ before.user = u /\ before.query = q
  <2>1. <<>> \in Seq(Item)
    OBVIOUS
  <2> QED BY <2>1 DEF NoWalk, Walks
<1>2. before.offset = 0 /\ before.seen = <<>>
  BY DEF NoWalk
<1>3. walk' = Open(before) /\ steady' = walk'.rows /\ UNCHANGED <<tables, left, entered>>
  BY DEF FirstPage
<1>4. TablesOK /\ TablesOK'
  BY <1>3 DEF IInv, TablesOK, tables
<1> HIDE DEF before
<1>5. Opened(before) \/ Refused
  BY <1>1, <1>3, <1>4, OpenEffect
<1>6. CASE Refused
  BY <1>3, <1>4, <1>6, RefusedKeeps DEF Refused
<1>7. CASE Opened(before)
  <2>1. /\ walk' \in Walks /\ walk'.pc = "open" /\ walk'.user = u /\ walk'.query = q
        /\ walk'.offset = 0 /\ walk'.seen = <<>>
        /\ walk'.rows \subseteq Item /\ IsFiniteSet(walk'.rows)
        /\ \A x, y \in walk'.rows : x.id = y.id => x = y
    BY <1>1, <1>2, <1>7 DEF Opened
  <2>2. WalkOK'
    BY <1>3, <2>1 DEF WalkOK, Walking, Rows
  <2>3. \A x \in walk'.rows : Rank(x, walk'.rows, walk'.query) >= 0
    BY <2>1, QueryType, RankType
  <2>4. StillAhead'
    BY <1>3, <2>1, <2>3 DEF StillAhead, Rows, Reached
  <2>5. ShownFirst' /\ InOrder' /\ PageFitsTotal' /\ Covered'
    BY <2>1 DEF ShownFirst, InOrder, PageFitsTotal, Covered
  <2> QED BY <1>4, <2>2, <2>4, <2>5 DEF IInv
<1> QED BY <1>5, <1>6, <1>7

\* The next page: what was ahead of the old rows is ahead of the new ones unless
\* rows left, and what is ahead of the new ones was ahead unless rows came.
LEMMA NextPageStep ==
  ASSUME IInv, NextPage
  PROVE  IInv'
<1> DEFINE before == [walk EXCEPT !.offset = @ + walk.query.limit]
           q == walk.query
<1>1. /\ walk \in Walks /\ walk.pc = "paging" /\ q \in Queries /\ walk.user \in Users
      /\ IsFiniteSet(Rows) /\ Rows \subseteq Item /\ steady \subseteq Rows
  BY DEF NextPage, IInv, WalkOK, Walking, Walks, Rows
<1>2. q.sort_order \in {"asc", "desc"} /\ q.limit \in Nat \ {0}
  BY <1>1, QueryType
<1>3. /\ before \in Walks /\ before.offset = walk.offset + q.limit
      /\ before.user = walk.user /\ before.query = q
      /\ before.rows = Rows /\ before.seen = walk.seen
  <2>1. walk.offset + q.limit \in Nat
    BY <1>1, <1>2 DEF Walks
  <2> QED BY <1>1, <2>1 DEF Walks, Rows
<1>4. /\ walk' = Open(before) /\ steady' = steady \cap walk'.rows
      /\ left' = (left \/ ~(Rows \subseteq walk'.rows))
      /\ entered' = (entered \/ ~(walk'.rows \subseteq Rows))
      /\ UNCHANGED tables
  BY DEF NextPage, Rows
<1>5. TablesOK /\ TablesOK'
  BY <1>4 DEF IInv, TablesOK, tables
<1>6. /\ StillAhead /\ ShownFirst /\ InOrder
      /\ Walking /\ Reached = walk.offset + q.limit
  BY <1>1 DEF IInv, Walking, Reached, Limit
<1>7. Reached \in Nat
  BY <1>1, <1>2, <1>6 DEF Walks
<1> HIDE DEF before, q
<1>8. Opened(before) \/ Refused
  BY <1>1, <1>3, <1>4, <1>5, OpenEffect
<1>9. CASE Refused
  BY <1>4, <1>5, <1>9, RefusedKeeps DEF Refused
<1>10. CASE Opened(before)
  <2>1. /\ walk' \in Walks /\ walk'.pc = "open" /\ walk'.user = walk.user /\ walk'.query = q
        /\ walk'.offset = walk.offset + q.limit /\ walk'.seen = walk.seen
        /\ walk'.rows \subseteq Item /\ IsFiniteSet(walk'.rows)
        /\ \A x, y \in walk'.rows : x.id = y.id => x = y
    BY <1>3, <1>10 DEF Opened
  <2>2. Reached' = Reached
    BY <1>6, <2>1 DEF Reached
  <2>3. WalkOK'
    BY <1>1, <1>4, <2>1 DEF WalkOK, Walking, Rows
  <2>4. StillAhead'
    <3> SUFFICES ASSUME ~left', NEW x \in steady',
                        ~\E i \in DOMAIN walk.seen : walk.seen[i] = x
                 PROVE  Rank(x, walk'.rows, q) >= Reached
      BY <2>1, <2>2 DEF StillAhead, Rows
    <3>1. ~left /\ Rows \subseteq walk'.rows /\ x \in steady /\ x \in Rows
      BY <1>1, <1>4
    <3>2. Rank(x, Rows, q) >= Reached
      BY <1>6, <3>1 DEF StillAhead, q
    <3>3. Rank(x, Rows, q) <= Rank(x, walk'.rows, q)
      BY <1>2, <2>1, <3>1, RankGrows
    <3>4. /\ Rank(x, Rows, q) \in Nat /\ Rank(x, walk'.rows, q) \in Nat
          /\ Reached \in Nat
      BY <1>1, <1>2, <1>7, <2>1, <3>1, RankType
    <3> QED BY <3>2, <3>3, <3>4
  <2>5. ShownFirst'
    <3> SUFFICES ASSUME ~entered', NEW y \in walk'.rows,
                        Rank(y, walk'.rows, q) >= Reached, NEW i \in DOMAIN walk.seen
                 PROVE  Follows(walk.seen[i], y, q)
      BY <2>1, <2>2 DEF ShownFirst, Rows
    <3>1. ~entered /\ walk'.rows \subseteq Rows /\ y \in Rows
      BY <1>4
    <3>2. Rank(y, walk'.rows, q) <= Rank(y, Rows, q)
      BY <1>1, <1>2, <3>1, RankGrows
    <3>3. /\ Rank(y, Rows, q) \in Nat /\ Rank(y, walk'.rows, q) \in Nat
          /\ Reached \in Nat
      BY <1>1, <1>2, <1>7, <2>1, <3>1, RankType
    <3>4. Rank(y, Rows, q) >= Reached
      BY <3>2, <3>3
    <3> QED BY <1>6, <3>1, <3>4 DEF ShownFirst, q
  <2>6. InOrder'
    BY <1>4, <1>6, <2>1 DEF InOrder, q
  <2>7. PageFitsTotal' /\ Covered'
    BY <2>1 DEF PageFitsTotal, Covered
  <2> QED BY <1>5, <2>3, <2>4, <2>5, <2>6, <2>7 DEF IInv
<1> QED BY <1>8, <1>9, <1>10

\* The count reads the rows of the snapshot.
LEMMA CountRowsStep ==
  ASSUME IInv, CountRows
  PROVE  IInv'
<1> USE DEF IInv
<1>1. walk \in Walks /\ walk.pc = "open" /\ IsFiniteSet(Rows)
  BY DEF CountRows, WalkOK
<1>2. Cardinality(Rows) \in Nat
  BY <1>1, FS_CardinalityType
<1>3. /\ walk' \in Walks /\ walk'.pc = "counted" /\ walk'.total = Cardinality(Rows)
      /\ walk'.user = walk.user /\ walk'.query = walk.query /\ walk'.offset = walk.offset
      /\ walk'.rows = Rows /\ walk'.seen = walk.seen
      /\ UNCHANGED <<tables, history>>
  BY <1>1, <1>2 DEF CountRows, Walks, Rows
<1>4. TablesOK'
  BY <1>3 DEF TablesOK, tables
<1>5. WalkOK'
  BY <1>1, <1>3 DEF WalkOK, Walking, Rows, history
<1>6. Reached' = Reached /\ Rows' = Rows /\ Walking /\ Walking'
  BY <1>1, <1>3 DEF Reached, Rows, Walking
<1>7. StillAhead' /\ ShownFirst' /\ InOrder'
  BY <1>3, <1>6 DEF StillAhead, ShownFirst, InOrder, history
<1> QED BY <1>3, <1>4, <1>5, <1>7 DEF PageFitsTotal, Covered

\* Where the elements of two joined sequences are.
LEMMA Appended ==
  ASSUME NEW S, NEW a \in Seq(S), NEW b \in Seq(S)
  PROVE  /\ \A i \in DOMAIN (a \o b) :
              \/ i \in DOMAIN a /\ (a \o b)[i] = a[i]
              \/ \E k \in 1..Len(b) : i = Len(a) + k /\ (a \o b)[i] = b[k]
         /\ \A i \in DOMAIN a : i \in DOMAIN (a \o b) /\ (a \o b)[i] = a[i]
         /\ \A k \in 1..Len(b) : Len(a) + k \in DOMAIN (a \o b) /\ (a \o b)[Len(a) + k] = b[k]
         /\ Len(a) \in Nat /\ DOMAIN a = 1..Len(a)
<1> DEFINE ab == a \o b
<1>1. /\ Len(a) \in Nat /\ Len(b) \in Nat /\ DOMAIN a = 1..Len(a)
      /\ DOMAIN ab = 1..(Len(a) + Len(b))
      /\ \A i \in 1..Len(a) : ab[i] = a[i]
      /\ \A k \in 1..Len(b) : ab[Len(a) + k] = b[k]
  OBVIOUS
<1> HIDE DEF ab
<1>2. ASSUME NEW i \in DOMAIN ab, i \notin DOMAIN a
      PROVE  \E k \in 1..Len(b) : i = Len(a) + k /\ ab[i] = b[k]
  <2>1. i - Len(a) \in 1..Len(b) /\ i = Len(a) + (i - Len(a))
    BY <1>1, <1>2
  <2> QED BY <1>1, <2>1
<1>3. /\ \A i \in DOMAIN a : i \in DOMAIN ab /\ ab[i] = a[i]
      /\ \A k \in 1..Len(b) : Len(a) + k \in DOMAIN ab /\ ab[Len(a) + k] = b[k]
  BY <1>1
<1> QED BY <1>1, <1>2, <1>3 DEF ab

\* A page shows the rows its window covers, after those shown before it.
LEMMA ReadPageStep ==
  ASSUME IInv, ReadPage
  PROVE  IInv'
<1> DEFINE q == walk.query
           n == Cardinality(Rows)
<1>1. /\ walk \in Walks /\ walk.pc = "counted" /\ q \in Queries /\ walk.user \in Users
      /\ IsFiniteSet(Rows) /\ Rows \subseteq Item /\ walk.total = n
      /\ walk.offset \in Nat /\ walk.seen \in Seq(Item)
  BY DEF ReadPage, IInv, WalkOK, Walking, Walks, Rows
<1>2. q.sort_order \in {"asc", "desc"} /\ q.limit \in Nat \ {0} /\ n \in Nat
  BY <1>1, QueryType, FS_CardinalityType
<1>3. /\ TablesOK /\ WalkOK /\ StillAhead /\ ShownFirst /\ InOrder
      /\ Walking /\ Reached = walk.offset
  BY <1>1 DEF IInv, Walking, Reached
<1>4. PICK s \in Ordered(Rows, q) :
        walk' = [walk EXCEPT !.pc = IF walk.offset + q.limit < walk.total
                                    THEN "paging" ELSE "ended",
                             !.page = Window(s, walk.offset, q.limit),
                             !.seen = @ \o Window(s, walk.offset, q.limit)]
  BY DEF ReadPage, PagedRows, Rows
<1> DEFINE page == Window(s, walk.offset, q.limit)
<1>5. UNCHANGED <<tables, history>>
  BY DEF ReadPage
<1> HIDE DEF q, n
<1>6. IsPage(page, Rows, q, walk.offset)
  BY <1>1, <1>2, PageRows
<1> HIDE DEF page
<1>7. /\ page \in Seq(Rows)
      /\ Len(page) = IF n - walk.offset <= 0 THEN 0
                     ELSE IF n - walk.offset < q.limit THEN n - walk.offset ELSE q.limit
      /\ \A i \in 1..Len(page) :
           page[i] \in Rows /\ Rank(page[i], Rows, q) = walk.offset + i - 1
      /\ \A x \in Rows :
           (Rank(x, Rows, q) >= walk.offset /\ Rank(x, Rows, q) < walk.offset + q.limit) =>
             \E i \in 1..Len(page) : page[i] = x
  BY <1>6 DEF IsPage, n
<1>8. page \in Seq(Item) /\ walk.seen \o page \in Seq(Item)
  BY <1>1, <1>7
<1>9. /\ walk' \in Walks /\ walk'.user = walk.user /\ walk'.query = q
      /\ walk'.offset = walk.offset /\ walk'.rows = Rows /\ walk'.total = n
      /\ walk'.page = page /\ walk'.seen = walk.seen \o page
      /\ walk'.pc = IF walk.offset + q.limit < n THEN "paging" ELSE "ended"
  BY <1>1, <1>4, <1>8 DEF Walks, Rows, page, q
<1>10. Reached' = walk.offset + q.limit /\ Rows' = Rows /\ Walking'
  BY <1>9 DEF Reached, Limit, Rows, Walking
<1>11. /\ \A i \in DOMAIN walk'.seen :
            \/ i \in DOMAIN walk.seen /\ walk'.seen[i] = walk.seen[i]
            \/ \E k \in 1..Len(page) : i = Len(walk.seen) + k /\ walk'.seen[i] = page[k]
       /\ \A i \in DOMAIN walk.seen : i \in DOMAIN walk'.seen /\ walk'.seen[i] = walk.seen[i]
       /\ \A k \in 1..Len(page) : Len(walk.seen) + k \in DOMAIN walk'.seen
                                  /\ walk'.seen[Len(walk.seen) + k] = page[k]
       /\ Len(walk.seen) \in Nat /\ DOMAIN walk.seen = 1..Len(walk.seen)
  BY <1>1, <1>8, <1>9, Appended
<1>12. \A k \in 1..Len(page) :
         /\ k \in Nat /\ 1 <= k /\ k <= q.limit
         /\ page[k] \in Rows /\ Rank(page[k], Rows, q) = walk.offset + k - 1
  <2>1. Len(page) \in Nat /\ Len(page) <= q.limit
    BY <1>1, <1>2, <1>7
  <2> QED BY <1>2, <1>7, <2>1
<1>13. TablesOK'
  BY <1>3, <1>5 DEF TablesOK, tables
<1>14. WalkOK'
  BY <1>1, <1>3, <1>5, <1>9, <1>10 DEF WalkOK, history, n
<1>15. PageFitsTotal' /\ Covered'
  <2>1. PageFitsTotal'
    BY <1>7, <1>9 DEF PageFitsTotal
  <2>2. Covered'
    BY <1>1, <1>2, <1>9, <1>10 DEF Covered
  <2> QED BY <2>1, <2>2
<1>16. \A y \in Rows : Rank(y, Rows, q) \in Nat
  BY <1>1, <1>2, RankType
<1>17. StillAhead'
  <2> SUFFICES ASSUME ~left, NEW x \in steady, ~(Rank(x, Rows, q) >= walk.offset + q.limit)
               PROVE  \E i \in DOMAIN walk'.seen : walk'.seen[i] = x
    BY <1>5, <1>9, <1>10 DEF StillAhead, history
  <2>1. x \in Rows
    BY <1>3 DEF WalkOK
  <2>2. CASE \E i \in DOMAIN walk.seen : walk.seen[i] = x
    BY <1>11, <2>2
  <2>3. CASE Rank(x, Rows, q) >= walk.offset
    <3>1. Rank(x, Rows, q) < walk.offset + q.limit
      BY <1>1, <1>2, <1>16, <2>1
    <3>2. PICK i \in 1..Len(page) : page[i] = x
      BY <1>7, <2>1, <2>3, <3>1
    <3>3. Len(walk.seen) + i \in DOMAIN walk'.seen /\ walk'.seen[Len(walk.seen) + i] = x
      BY <1>11, <3>2
    <3> QED BY <3>3
  <2> QED BY <1>3, <2>2, <2>3 DEF StillAhead, q
<1>18. ASSUME NEW i \in 1..Len(page), NEW y \in Rows,
              Rank(page[i], Rows, q) < Rank(y, Rows, q)
       PROVE  Follows(page[i], y, q)
  <2>1. page[i] \in Rows /\ page[i] \in Item /\ y \in Item
    BY <1>1, <1>7
  <2>2. page[i] # y
    BY <1>16, <1>18, <2>1
  <2>3. Before(page[i], y, q)
    <3> SUFFICES ASSUME Before(y, page[i], q)
                 PROVE  FALSE
      BY <1>2, <2>1, <2>2, BeforeIsTotal
    <3>1. Earlier(y, Rows, q) \subseteq Earlier(page[i], Rows, q)
      BY <1>1, <1>2, <2>1, BeforeIsTransitive DEF Earlier
    <3>2. IsFiniteSet(Earlier(page[i], Rows, q))
      BY <1>1, FS_Subset DEF Earlier
    <3>3. Rank(y, Rows, q) <= Rank(page[i], Rows, q)
      BY <3>1, <3>2, FS_Subset DEF Rank
    <3> QED BY <1>16, <1>18, <2>1, <3>3
  <2>4. page[i].id # y.id
    BY <1>3, <2>1, <2>2 DEF WalkOK
  <2> QED BY <2>3, <2>4 DEF Follows
<1>19. ShownFirst'
  <2> SUFFICES ASSUME ~entered, NEW y \in Rows, Rank(y, Rows, q) >= walk.offset + q.limit,
                      NEW i \in DOMAIN walk'.seen
               PROVE  Follows(walk'.seen[i], y, q)
    BY <1>5, <1>9, <1>10 DEF ShownFirst, history
  <2>1. CASE i \in DOMAIN walk.seen /\ walk'.seen[i] = walk.seen[i]
    <3>1. Rank(y, Rows, q) >= walk.offset
      BY <1>1, <1>2, <1>16
    <3> QED BY <1>3, <2>1, <3>1 DEF ShownFirst, q
  <2>2. ASSUME NEW k \in 1..Len(page), walk'.seen[i] = page[k]
        PROVE  Follows(walk'.seen[i], y, q)
    <3>1. k \in Nat /\ k <= q.limit /\ Rank(page[k], Rows, q) = walk.offset + k - 1
      BY <1>12
    <3>2. Rank(page[k], Rows, q) < Rank(y, Rows, q)
      BY <1>1, <1>2, <1>16, <3>1
    <3> QED BY <1>18, <2>2, <3>2
  <2> QED BY <1>11, <2>1, <2>2
<1>20. InOrder'
  <2> SUFFICES ASSUME ~entered, NEW i \in DOMAIN walk'.seen, NEW j \in DOMAIN walk'.seen, i < j
               PROVE  Follows(walk'.seen[i], walk'.seen[j], q)
    BY <1>5, <1>9 DEF InOrder, history
  <2>1. CASE j \in DOMAIN walk.seen
    <3>1. i \in DOMAIN walk.seen
      BY <1>11, <2>1
    <3>2. Follows(walk.seen[i], walk.seen[j], q)
      BY <1>3, <2>1, <3>1 DEF InOrder, q
    <3> QED BY <1>11, <2>1, <3>1, <3>2
  <2>2. ASSUME NEW k \in 1..Len(page), j = Len(walk.seen) + k, walk'.seen[j] = page[k]
        PROVE  Follows(walk'.seen[i], walk'.seen[j], q)
    <3>1. k \in Nat /\ 1 <= k /\ page[k] \in Rows /\ Rank(page[k], Rows, q) = walk.offset + k - 1
      BY <1>12
    <3>2. CASE i \in DOMAIN walk.seen /\ walk'.seen[i] = walk.seen[i]
      <4>1. Rank(page[k], Rows, q) >= walk.offset
        BY <1>1, <3>1
      <4> QED BY <1>3, <2>2, <3>1, <3>2, <4>1 DEF ShownFirst, q
    <3>3. ASSUME NEW m \in 1..Len(page), i = Len(walk.seen) + m, walk'.seen[i] = page[m]
          PROVE  Follows(walk'.seen[i], walk'.seen[j], q)
      <4>1. m \in Nat /\ Rank(page[m], Rows, q) = walk.offset + m - 1
        BY <1>12
      <4>2. m < k
        BY <1>11, <2>2, <3>1, <3>3, <4>1
      <4>3. Rank(page[m], Rows, q) < Rank(page[k], Rows, q)
        BY <1>1, <3>1, <4>1, <4>2
      <4> QED BY <1>18, <2>2, <3>1, <3>3, <4>3
    <3> QED BY <1>11, <3>2, <3>3
  <2> QED BY <1>11, <2>1, <2>2
<1> QED BY <1>13, <1>14, <1>15, <1>17, <1>19, <1>20 DEF IInv

\* Every step, with its stutters, keeps the invariant.
LEMMA StepIInv ==
  ASSUME IInv, [Next]_vars
  PROVE  IInv'
<1>1. CASE Write
  <2>1. TablesOK' /\ UNCHANGED <<walk, history>>
    BY <1>1, WriteTables DEF IInv, Write
  <2> QED BY <2>1 DEF IInv, WalkOK, Walking, Rows, PageFitsTotal, Covered, StillAhead, ShownFirst,
                      InOrder, Reached, Limit, history
<1>2. CASE UNCHANGED vars
  BY <1>2 DEF vars, tables, history, IInv, TablesOK, WalkOK, Walking, Rows, PageFitsTotal,
              Covered, StillAhead, ShownFirst, InOrder, Reached, Limit
<1> QED
  BY <1>1, <1>2, FirstPageStep, NextPageStep, CountRowsStep, ReadPageStep DEF Next

\* Every reachable state satisfies the invariant.
THEOREM Invariance == Spec => []IInv
<1>1. Init => IInv
  <2> SUFFICES ASSUME Init
               PROVE  IInv
    OBVIOUS
  <2>1. TablesOK
    BY DEF Init, TablesOK, Board!Init, TaskRows, Board!EmptyRow, Statuses, NoUser, Board!NoUser
  <2>2. walk = NoWalk /\ steady = {} /\ <<>> \in Seq(Item)
    BY DEF Init
  <2>3. WalkOK
    BY <2>2, FS_EmptySet DEF WalkOK, NoWalk, Walks, Walking, Rows
  <2>4. PageFitsTotal /\ Covered /\ StillAhead /\ ShownFirst /\ InOrder
    BY <2>2 DEF PageFitsTotal, Covered, StillAhead, ShownFirst, InOrder, NoWalk, Walking
  <2> QED BY <2>1, <2>3, <2>4 DEF IInv
<1>2. IInv /\ [Next]_vars => IInv'
  BY StepIInv
<1> QED BY <1>1, <1>2, PTL DEF Spec

-----------------------------------------------------------------------------
(* What the client can rely on.                                            *)

\* The total and the items of a response are of one snapshot (the count and the
\* page of list_tasks and of the other lists), for every offset and limit.
THEOREM PagesFit == Spec => []PageFitsTotal
<1>1. IInv => PageFitsTotal
  BY DEF IInv
<1> QED BY <1>1, Invariance, PTL

\* Rows that come to a list of any length, at any place and any number of them,
\* hide none that stays (ORDER BY the sort column and the id, OFFSET, LIMIT).
THEOREM NoneHidden == Spec => []AdditionsHideNone
<1>1. IInv => AdditionsHideNone
  <2> SUFFICES ASSUME IInv, walk.pc = "ended", ~left, NEW x \in steady
               PROVE  \E i \in DOMAIN walk.seen : walk.seen[i] = x
    BY DEF AdditionsHideNone
  <2> USE DEF IInv
  <2>1. /\ IsFiniteSet(Rows) /\ Rows \subseteq Item /\ x \in Rows
        /\ walk.query \in Queries /\ walk.total = Cardinality(Rows)
        /\ walk.offset \in Nat
    BY DEF WalkOK, Walking, Walks, Rows
  <2>2. Rank(x, Rows, walk.query) \in Nat /\ Rank(x, Rows, walk.query) < walk.total
    BY <2>1, QueryType, RankType
  <2>3. walk.total <= Reached /\ walk.total \in Nat /\ Reached \in Nat
    BY <2>1, QueryType, FS_CardinalityType DEF Covered, Reached, Limit
  <2> QED BY <2>2, <2>3 DEF StillAhead, Walking
<1> QED BY <1>1, Invariance, PTL

\* Rows that leave a list meanwhile make none appear twice or out of order.
THEOREM NoneRepeated == Spec => []DeparturesRepeatNone
<1>1. IInv => DeparturesRepeatNone
  <2> SUFFICES ASSUME IInv, ~entered, NEW i \in DOMAIN walk.seen, NEW j \in DOMAIN walk.seen,
                      i < j
               PROVE  /\ walk.seen[i].id # walk.seen[j].id
                      /\ IF walk.query.sort_order = "asc"
                         THEN walk.seen[i].key <= walk.seen[j].key
                         ELSE walk.seen[i].key >= walk.seen[j].key
    BY DEF DeparturesRepeatNone
  <2>1. Follows(walk.seen[i], walk.seen[j], walk.query)
    BY DEF IInv, InOrder
  <2>2. Walking
    BY DEF IInv, WalkOK
  <2>3. walk.query.sort_order \in {"asc", "desc"}
    BY <2>2, QueryType DEF IInv, WalkOK
  <2>4. walk.seen[i] \in Item /\ walk.seen[j] \in Item
    BY DEF IInv, WalkOK, Walks
  <2> QED BY <2>1, <2>3, <2>4, BeforeIsTotal DEF Follows
<1> QED BY <1>1, Invariance, PTL
=============================================================================
