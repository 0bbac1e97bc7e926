--------------------------- MODULE RefinementProofs ---------------------------
(***************************************************************************)
(* The interleaved requests of TaskTransactions implement the atomic       *)
(* contract of TaskBoard, and what follows for removals, assignments and   *)
(* promotions, for every set of users, workspaces, tasks, contents and     *)
(* request slots.                                                          *)
(***************************************************************************)
EXTENDS TaskTransactionsProofs, Induction

-----------------------------------------------------------------------------
(* What a commit does to a task row.                                       *)

\* The row of t after the commit of request p.
RowAfter(p, t) ==
  IF p.op = "remove_member"
  THEN IF t \in p.unassigned THEN [task[t] EXCEPT !.assignee = NoUser] ELSE task[t]
  ELSE IF p.op \notin TaskEndpoints \/ t # p.task THEN task[t]
  ELSE IF p.op = "create_task" THEN NewTask(p.ws, p.actor, p.value)
  ELSE IF p.op = "delete_task" THEN NoRow("deleted")
  ELSE IF p.op = "update_task" THEN [task[t] EXCEPT !.content = p.value]
  ELSE IF p.op = "update_task_status" THEN [task[t] EXCEPT !.status = p.value]
  ELSE [task[t] EXCEPT !.assignee = p.target]

\* A commit of the code's endpoints writes exactly that row.
LEMMA CommitRow ==
  ASSUME IInv, NEW r \in Requests, Commit(r), NEW t \in Tasks
  PROVE  task'[t] = RowAfter(req[r], t)
<1> DEFINE p == req[r]
<1>1. p.pc = "commit" /\ Handled(p)
  BY CommitEffect DEF IInv, TypeOK
<1>2. p.op \in TaskEndpoints => p.task \in Tasks
  BY <1>1 DEF Handled
<1>3. task \in [Tasks -> TaskRows]
  BY DEF IInv, TypeOK
<1> USE DEF Committed, RowAfter, TaskEndpoints, TaskLocking
<1>4. CASE CommitCreateWorkspace(r)
  BY <1>4 DEF CommitCreateWorkspace
<1>5. CASE CommitCreateTask(r)
  BY <1>2, <1>3, <1>5 DEF CommitCreateTask
<1>6. CASE CommitUpdateTask(r)
  BY <1>2, <1>3, <1>6 DEF CommitUpdateTask
<1>7. CASE CommitDeleteTask(r)
  BY <1>2, <1>3, <1>7 DEF CommitDeleteTask
<1>8. CASE CommitUpdateTaskStatus(r)
  BY <1>2, <1>3, <1>8 DEF CommitUpdateTaskStatus
<1>9. CASE CommitUpdateTaskAssignee(r)
  BY <1>2, <1>3, <1>9 DEF CommitUpdateTaskAssignee
<1>10. CASE CommitAddMember(r)
  BY <1>10 DEF CommitAddMember
<1>11. CASE CommitUpdateMemberRole(r)
  BY <1>11 DEF CommitUpdateMemberRole
<1>12. CASE CommitRemoveMember(r)
  BY <1>12 DEF CommitRemoveMember
<1> QED
  BY <1>4, <1>5, <1>6, <1>7, <1>8, <1>9, <1>10, <1>11, <1>12 DEF Commit

\* The fields of the row after a commit; the row of t is live before it unless
\* the commit creates it.
LEMMA CommitFields ==
  ASSUME IInv, NEW r \in Requests, Commit(r), NEW t \in Tasks, task'[t].phase = "live"
  PROVE  LET p == req[r] IN
         \/ p.op = "create_task" /\ t = p.task /\ task'[t].assignee = NoUser
            /\ task[t].status = "TODO"
         \/ /\ task[t] \in LiveRows /\ task'[t].ws = task[t].ws
            /\ task'[t].status = IF p.op = "update_task_status" /\ t = p.task
                                 THEN p.value ELSE task[t].status
            /\ task'[t].assignee =
                 IF p.op = "update_task_assignee" /\ t = p.task THEN p.target
                 ELSE IF p.op = "remove_member" /\ t \in p.unassigned THEN NoUser
                 ELSE task[t].assignee
<1> DEFINE p == req[r]
<1>1. task'[t] = RowAfter(p, t)
  BY CommitRow
<1>2. task[t] \in TaskRows /\ p.pc = "commit"
  BY CommitEffect DEF IInv, TypeOK
<1>3. CASE p.op = "create_task" /\ t = p.task
  <2>1. task[t].phase = "unused"
    BY <1>2, <1>3 DEF IInv, WritesAreReady
  <2>2. task[t].status = "TODO"
    BY <1>2, <2>1 DEF TaskRows, LiveRows, NoRow
  <2>3. task'[t].assignee = NoUser
    BY <1>1, <1>3 DEF RowAfter, NewTask, TaskEndpoints, TaskLocking
  <2> QED BY <1>3, <2>2, <2>3
<1>4. CASE ~(p.op = "create_task" /\ t = p.task)
  <2>1. ~(p.op = "delete_task" /\ t = p.task)
    BY <1>1 DEF RowAfter, NoRow, TaskEndpoints, TaskLocking
  <2>2. task[t] \in LiveRows
    <3>1. task[t] \in LiveRows \/ task[t] = NoRow("unused") \/ task[t] = NoRow("deleted")
      BY <1>2 DEF TaskRows
    <3>2. ASSUME task[t] = NoRow("unused") \/ task[t] = NoRow("deleted")
          PROVE  FALSE
      BY <1>1, <1>4, <2>1, <3>2 DEF RowAfter, NoRow, TaskEndpoints, TaskLocking
    <3> QED BY <3>1, <3>2
  <2> QED BY <1>1, <1>4, <2>1, <2>2 DEF RowAfter, LiveRows, TaskEndpoints, TaskLocking
<1> QED BY <1>3, <1>4

-----------------------------------------------------------------------------
(* Removals hold what they visit, promotions are the creator's.            *)

\* The tasks a removal has locked are of its workspace, and once its UPDATE is
\* through they are all that are assigned to the leaving member; what it has changed
\* is what it would change now.
RemovalHolds ==
  \A r \in Requests :
    req[r].op = "remove_member" =>
      /\ \A t \in req[r].tlocks : InWorkspace(t, req[r].ws)
      /\ req[r].pc = "commit" =>
           /\ Assigned(req[r]) \subseteq req[r].tlocks
           /\ req[r].unassigned = Unassigned(req[r])

\* Only the creator has a request in flight that makes somebody ADMIN.
PromotionHolds ==
  \A r \in Requests :
    (req[r].op \in {"add_member", "update_member_role"} /\ req[r].value = "ADMIN") =>
      req[r].actor = creator[req[r].ws]

\* A quiet step locks only what is assigned, and ends the UPDATE when all is locked.
LEMMA RemovalHoldsQuiet ==
  ASSUME IInv, TypeOK', RemovalHolds, NEW r \in Requests, NEW q, Quiet(r, q)
  PROVE  RemovalHolds'
<1> DEFINE p == req[r]
<1>1. \A s \in Requests : req'[s] = IF s = r THEN q ELSE req[s]
  BY DEF Quiet, IInv, TypeOK
<1>2. UNCHANGED task
  BY DEF Quiet
<1>3. ASSUME q.op = "remove_member"
      PROVE  /\ \A t \in q.tlocks : InWorkspace(t, q.ws)
             /\ q.pc = "commit" => Assigned(q) \subseteq q.tlocks /\ q.unassigned = Unassigned(q)
  <2>1. CASE Locked(r, q)
    <3>1. /\ q.op = p.op /\ q.ws = p.ws
          /\ q.tlocks \ p.tlocks \subseteq Assigned(q)
          /\ q.pc = "commit" => Assigned(q) \subseteq q.tlocks /\ q.unassigned = Unassigned(q)
      BY <1>3, <2>1 DEF Locked, Idle
    <3>2. \A t \in p.tlocks : InWorkspace(t, q.ws)
      BY <1>3, <3>1 DEF RemovalHolds
    <3> QED BY <3>1, <3>2 DEF Assigned
  <2>2. ASSUME NEW w \in Workspaces, Began(r, q, w)
        PROVE  q.tlocks = {} /\ q.pc # "commit"
    BY <1>3, <2>2 DEF Began, Idle
  <2> QED BY <2>1, <2>2 DEF Quiet
<1> QED BY <1>1, <1>2, <1>3 DEF RemovalHolds, InWorkspace, Assigned, Unassigned

\* No commit assigns a task to a member whose removal has locked the membership:
\* the assignment would hold it too.
LEMMA NoneAssignedBehind ==
  ASSUME IInv, NEW r \in Requests, Commit(r), NEW s \in Requests \ {r},
         req[s].op = "remove_member", req[s].pc \in {"task", "commit"},
         NEW t \in Tasks, task'[t].phase = "live", task'[t].ws = req[s].ws,
         task'[t].assignee = req[s].target
  PROVE  t \in Assigned(req[s])
<1> DEFINE p == req[r]  q == req[s]
<1>1. p.pc = "commit" /\ Handled(p) /\ Handled(q)
  BY CommitEffect DEF IInv, TypeOK
<1>2. q.target \in Users /\ q.mlocks = {q.target}
  BY <1>1 DEF Handled, MemberEndpoints, Wanted
<1>3. q.target # NoUser
  BY <1>2, ConstantsAssumption DEF ConstantsAssumption
<1>4. /\ task[t] \in LiveRows /\ task'[t].ws = task[t].ws
      /\ p.op = "update_task_assignee" /\ t = p.task => task'[t].assignee = p.target
      /\ ~(p.op = "update_task_assignee" /\ t = p.task) => task'[t].assignee = task[t].assignee
  BY <1>3, CommitFields
<1>5. ASSUME p.op = "update_task_assignee", t = p.task
      PROVE  FALSE
  <2>1. p.ws = q.ws
    BY <1>1, <1>4, <1>5 DEF IInv, WritesAreReady, InWorkspace, TaskLocking
  <2>2. q.target \in p.mlocks
    <3>1. p.mlocks = {p.actor, p.target} \ {NoUser}
      BY <1>1, <1>5 DEF Handled, Wanted
    <3> QED BY <1>3, <1>4, <1>5, <3>1
  <2>3. role[q.ws][q.target] = NoRole
    BY <1>2, <2>1, <2>2 DEF IInv, LocksExclude
  <2>4. role[q.ws][q.target] \in AssignableRoles
    BY DEF IInv, WritesAreReady
  <2> QED BY <2>3, <2>4 DEF AssignableRoles, NoRole
<1>6. task[t].phase = "live"
  BY <1>4 DEF LiveRows
<1> QED BY <1>4, <1>5, <1>6 DEF Assigned, InWorkspace

\* A commit leaves the tasks of another removal alone and adds none to them.
LEMMA RemovalHoldsCommit ==
  ASSUME IInv, RemovalHolds, NEW r \in Requests, Commit(r)
  PROVE  RemovalHolds'
<1>1. PICK reply \in Replies : req' = [req EXCEPT ![r] = Idle(reply)]
  BY CommitEffect DEF IInv
<1>2. \A s \in Requests : req'[s] = IF s = r THEN Idle(reply) ELSE req[s]
  BY <1>1 DEF IInv, TypeOK
<1>3. ASSUME NEW s \in Requests \ {r}, req[s].op = "remove_member"
      PROVE  /\ \A t \in req[s].tlocks : InWorkspace(t, req[s].ws)'
             /\ req[s].pc = "commit" => /\ Assigned(req[s])' \subseteq req[s].tlocks
                                       /\ req[s].unassigned = Unassigned(req[s])'
  <2> DEFINE q == req[s]
  <2>1. req'[s] = q
    BY <1>2
  <2>2. ASSUME NEW t \in q.tlocks
        PROVE  task'[t].phase = "live" /\ task'[t].ws = q.ws /\ task'[t] = task[t]
    <3>1. t \in Tasks /\ task[t].phase = "live" /\ task[t].ws = q.ws
      <4>1. q \in RequestStates
        BY DEF IInv, TypeOK
      <4> QED BY <1>3, <4>1 DEF RequestStates, RemovalHolds, InWorkspace
    <3>2. t \notin req[r].tlocks
      BY DEF IInv, LocksExclude
    <3> QED BY <3>1, <3>2, CommitKeepsTask
  <2>3. ASSUME q.pc = "commit", NEW t \in Tasks, task'[t].phase = "live", task'[t].ws = q.ws,
               task'[t].assignee = q.target
        PROVE  t \in q.tlocks
    BY <1>3, <2>3, NoneAssignedBehind DEF RemovalHolds
  <2>4. q.pc = "commit" => q.unassigned = {t \in q.tlocks : task'[t].assignee = q.target
                                                          /\ task'[t].status # "DONE"}
    BY <1>3, <2>2 DEF RemovalHolds, Unassigned
  <2> QED BY <2>1, <2>2, <2>3, <2>4 DEF InWorkspace, Assigned, Unassigned
<1>4. ASSUME NEW s \in Requests, req'[s].op = "remove_member"
      PROVE  s # r /\ req'[s] = req[s] /\ req[s].op = "remove_member"
  BY <1>2, <1>4 DEF Idle
<1> QED BY <1>3, <1>4 DEF RemovalHolds

\* Promotions keep their creator: a request that begins has read the OWNER role
\* of its actor, and a workspace keeps its creator.
LEMMA PromotionHoldsStep ==
  ASSUME IInv, IInv', PromotionHolds, NEW r \in Requests,
         Commit(r) \/ \E q : Quiet(r, q)
  PROVE  PromotionHolds'
<1> DEFINE p == req[r]
<1>1. ASSUME Commit(r)
      PROVE  PromotionHolds'
  <2>1. PICK reply \in Replies : req' = [req EXCEPT ![r] = Idle(reply)]
    BY <1>1, CommitEffect DEF IInv
  <2>2. \A s \in Requests : req'[s] = IF s = r THEN Idle(reply) ELSE req[s]
    BY <2>1 DEF IInv, TypeOK
  <2>3. ASSUME NEW s \in Requests \ {r}, req[s].op \in {"add_member", "update_member_role"}
        PROVE  creator'[req[s].ws] = creator[req[s].ws]
    <3>1. Handled(req[s])
      BY DEF IInv, TypeOK
    <3>2. req[s].pc # "idle" /\ req[s].ws \in Workspaces
      <4>1. req[s].pc # "idle"
        BY <2>3, <3>1 DEF Handled, Idle
      <4> QED BY <3>1, <4>1 DEF Handled
    <3>3. p.pc = "commit" /\ \A w \in Workspaces :
            creator'[w] = IF p.op = "create_workspace" /\ w = p.ws THEN p.actor ELSE creator[w]
      BY <1>1, CommitEffect DEF IInv
    <3>4. ~(p.op = "create_workspace" /\ req[s].ws = p.ws)
      BY <2>3, <3>2, <3>3 DEF IInv, IdsAreKnown
    <3> QED BY <3>2, <3>3, <3>4
  <2> QED BY <2>2, <2>3 DEF PromotionHolds, Idle
<1>2. ASSUME NEW q, Quiet(r, q)
      PROVE  PromotionHolds'
  <2>1. \A s \in Requests : req'[s] = IF s = r THEN q ELSE req[s]
    BY <1>2 DEF Quiet, IInv, TypeOK
  <2>2. UNCHANGED creator
    BY <1>2 DEF Quiet
  <2>3. ASSUME q.op \in {"add_member", "update_member_role"}, q.value = "ADMIN"
        PROVE  q.actor = creator[q.ws]
    <3>1. CASE Locked(r, q)
      BY <2>3, <3>1 DEF Locked, Idle, PromotionHolds
    <3>2. ASSUME NEW w \in Workspaces, Began(r, q, w)
          PROVE  q.actor = creator[q.ws]
      <4>1. q.pc # "idle" /\ q.ws = w /\ role[w][q.actor] = "OWNER"
        BY <2>3, <3>2 DEF Began, Idle
      <4>2. q.actor \in Users
        <5>1. Handled(q)
          BY <2>1 DEF IInv, TypeOK
        <5> QED BY <4>1, <5>1 DEF Handled
      <4> QED BY <4>1, <4>2 DEF IInv, OwnerIsCreator
    <3> QED BY <1>2, <3>1, <3>2 DEF Quiet
  <2> QED BY <2>1, <2>2, <2>3 DEF PromotionHolds
<1> QED BY <1>1, <1>2

\* A request in flight shows no reply.
Unanswered == \A r \in Requests : req[r].pc # "idle" => req[r].reply = "NONE"

\* Replies are written only when a slot becomes idle.
LEMMA UnansweredStep ==
  ASSUME IInv, Unanswered, NEW r \in Requests, Commit(r) \/ \E q : Quiet(r, q)
  PROVE  Unanswered'
<1>1. ASSUME Commit(r)
      PROVE  Unanswered'
  <2>1. PICK reply \in Replies : req' = [req EXCEPT ![r] = Idle(reply)]
    BY <1>1, CommitEffect DEF IInv
  <2> QED BY <2>1 DEF IInv, TypeOK, Unanswered, Idle
<1>2. ASSUME NEW q, Quiet(r, q)
      PROVE  Unanswered'
  <2>1. \A s \in Requests : req'[s] = IF s = r THEN q ELSE req[s]
    BY <1>2 DEF Quiet, IInv, TypeOK
  <2>2. q.pc # "idle" => q.reply = "NONE"
    <3>1. CASE Locked(r, q)
      <4>1. q.pc = "idle" \/ (q.reply = req[r].reply /\ req[r].pc # "idle")
        BY <3>1 DEF Locked, Idle
      <4> QED BY <4>1 DEF Unanswered
    <3>2. ASSUME NEW w \in Workspaces, Began(r, q, w)
          PROVE  q.pc = "idle" \/ q.reply = "NONE"
      BY <3>2 DEF Began, Idle
    <3> QED BY <1>2, <3>1, <3>2 DEF Quiet
  <2> QED BY <2>1, <2>2 DEF Unanswered
<1> QED BY <1>1, <1>2

-----------------------------------------------------------------------------
(* The invariant.                                                          *)

Flights == RemovalHolds /\ PromotionHolds /\ Unanswered

Held == IInv /\ Current /\ Flights

\* Every step keeps what is said of the requests in flight.
LEMMA FlightsStep ==
  ASSUME IInv, Flights, [Next]_vars
  PROVE  Flights'
<1>1. IInv'
  BY StepIInv, ConstantsAssumption
<1>2. CASE UNCHANGED vars
  BY <1>2 DEF vars, Flights, RemovalHolds, PromotionHolds, Unanswered, InWorkspace, Assigned,
    Unassigned
<1>3. ASSUME NEW r \in Requests, Commit(r)
      PROVE  Flights'
  BY <1>1, <1>3, RemovalHoldsCommit, PromotionHoldsStep, UnansweredStep DEF Flights
<1>4. ASSUME NEW r \in Requests, NEW q, Quiet(r, q)
      PROVE  Flights'
  BY <1>1, <1>4, RemovalHoldsQuiet, PromotionHoldsStep, UnansweredStep DEF IInv, Flights
<1> QED BY <1>2, <1>3, <1>4, StepCases DEF IInv

\* Every reachable state satisfies the invariant.
THEOREM HeldInvariance == Spec => []Held
<1>1. Init => Flights
  BY DEF Init, Idle, Flights, RemovalHolds, PromotionHolds, Unanswered
<1>2. IInv /\ Flights /\ [Next]_vars => Flights'
  BY FlightsStep
<1>3. (IInv /\ Current) /\ Flights <=> Held
  BY DEF Held
<1> QED BY <1>1, <1>2, <1>3, CurrentInvariance, PTL DEF Spec

\* When a removal commits, its UPDATE has changed just the unfinished tasks that
\* the leaving member has at that moment (remove_member).
THEOREM RemovalsAreComplete == Spec => []RemovalIsComplete
<1>1. Held => RemovalIsComplete
  <2>1. SUFFICES ASSUME Held, NEW r \in Requests,
                        req[r].op = "remove_member", req[r].pc = "commit"
                 PROVE  req[r].unassigned =
                          {t \in Tasks : /\ InWorkspace(t, req[r].ws)
                                         /\ task[t].assignee = req[r].target
                                         /\ task[t].status # "DONE"}
    BY DEF RemovalIsComplete
  <2>2. /\ \A t \in req[r].tlocks : InWorkspace(t, req[r].ws)
        /\ Assigned(req[r]) \subseteq req[r].tlocks
        /\ req[r].unassigned = Unassigned(req[r])
    BY <2>1 DEF Held, Flights, RemovalHolds
  <2>3. req[r].tlocks \subseteq Tasks
    BY <2>1 DEF Held, IInv, TypeOK, RequestStates
  <2> QED BY <2>2, <2>3 DEF Assigned, Unassigned
<1> QED BY <1>1, HeldInvariance, PTL

-----------------------------------------------------------------------------
(* Nobody waits in a circle.                                               *)

\* Behind the absence of deadlocks: a request locks memberships in ascending
\* order, has one to go as long as it locks memberships, and a removal locks tasks
\* in ascending order, of a set that only shrinks meanwhile.
LocksAscend ==
  \A r \in Requests :
    /\ req[r].pc = "members" =>
         /\ Wanted(req[r]) # req[r].mlocks
         /\ \A u \in req[r].mlocks, v \in Wanted(req[r]) \ req[r].mlocks : u < v
    /\ (req[r].pc = "task" /\ req[r].op = "remove_member") =>
         \A t \in req[r].tlocks, v \in Assigned(req[r]) \ req[r].tlocks : t < v

\* The slots that serve a request.
Busy == {r \in Requests : req[r].pc # "idle"}

Queues == LocksAscend /\ IsFiniteSet(Busy)

\* What a request in a state of its own says of its locks.
LEMMA OneAscends ==
  ASSUME TypeOK, LocksAscend, NEW r \in Requests, NEW q, UNCHANGED task,
         req' = [req EXCEPT ![r] = q],
         q.pc = "members" => /\ Wanted(q) # q.mlocks
                             /\ \A u \in q.mlocks, v \in Wanted(q) \ q.mlocks : u < v,
         (q.pc = "task" /\ q.op = "remove_member") =>
           \A t \in q.tlocks, v \in Assigned(q) \ q.tlocks : t < v
  PROVE  LocksAscend'
<1>1. \A s \in Requests : req'[s] = IF s = r THEN q ELSE req[s]
  BY DEF TypeOK
<1> QED BY <1>1 DEF LocksAscend, Assigned, InWorkspace

\* Lock steps take the first of what is wanted.
LEMMA LockAscends ==
  ASSUME TypeOK, LocksAscend, NEW r \in Requests, LockStep(r)
  PROVE  LocksAscend'
<1> DEFINE p == req[r]
<1>0. p \in RequestStates /\ Handled(p)
  BY DEF TypeOK
<1>1. ASSUME NEW u \in Users, LockMembership(r, u)
      PROVE  LocksAscend'
  <2> DEFINE q == [p EXCEPT !.mlocks = @ \cup {u}, !.seen = Refreshed(p, u)]
             n == IF Wanted(q) # q.mlocks THEN q
                  ELSE IF MembershipCheck(q) = Proceed THEN [q EXCEPT !.pc = "task"]
                  ELSE Idle(MembershipCheck(q))
  <2>1. /\ p.pc = "members" /\ u \in Wanted(p) \ p.mlocks
        /\ \A v \in Wanted(p) \ p.mlocks : u <= v
        /\ UNCHANGED task /\ req' = [req EXCEPT ![r] = n]
    BY <1>1 DEF LockMembership, CanLockMembership, FirstInOrder, tables
  <2>2. /\ q.pc = "members" /\ q.op = p.op /\ q.mlocks = p.mlocks \cup {u} /\ q.tlocks = {}
        /\ Wanted(q) = Wanted(p)
    BY <1>0, <2>1 DEF RequestStates, Handled, Wanted
  <2>3. Wanted(p) \subseteq Nat
    BY <1>0, <2>1, ConstantsAssumption
    DEF Wanted, RequestStates, Handled, ConstantsAssumption, NoUser, MemberEndpoints
  <2>4. \A x \in q.mlocks, v \in Wanted(q) \ q.mlocks : x < v
    <3>1. ASSUME NEW v \in Wanted(q) \ q.mlocks
          PROVE  u < v
      <4>1. u \in Nat /\ v \in Nat /\ u <= v /\ u # v
        BY <2>1, <2>2, <2>3
      <4> QED BY <4>1
    <3>2. \A x \in p.mlocks, v \in Wanted(p) \ p.mlocks : x < v
      BY <2>1 DEF LocksAscend
    <3> QED BY <2>2, <3>1, <3>2
  <2>5. /\ n.pc = "members" => n = q /\ Wanted(q) # q.mlocks
        /\ n.pc = "task" => n.tlocks = {}
    <3>1. CASE Wanted(q) # q.mlocks
      BY <2>2, <3>1
    <3>2. CASE Wanted(q) = q.mlocks /\ MembershipCheck(q) = Proceed
      <4>1. n = [q EXCEPT !.pc = "task"] /\ n.pc = "task" /\ n.tlocks = q.tlocks
        BY <1>0, <3>2 DEF RequestStates
      <4> QED BY <2>2, <4>1
    <3>3. CASE Wanted(q) = q.mlocks /\ MembershipCheck(q) # Proceed
      BY <3>3 DEF Idle
    <3> QED BY <3>1, <3>2, <3>3
  <2> HIDE DEF q, n
  <2> QED BY <2>1, <2>4, <2>5, OneAscends
<1>2. ASSUME NEW q, UNCHANGED task, req' = [req EXCEPT ![r] = q], q.pc \in {"idle", "commit"}
      PROVE  LocksAscend'
  BY <1>2, OneAscends
<1>3. \A x : Idle(x).pc = "idle" /\ [p EXCEPT !.mlocks = x, !.pc = "commit"].pc = "commit"
             /\ [p EXCEPT !.tlocks = x, !.pc = "commit"].pc = "commit"
  BY <1>0 DEF Idle, RequestStates
<1>4. ASSUME NEW u \in Users, InsertMembership(r, u) \/ UpdateMembership(r, u)
      PROVE  LocksAscend'
  <2>1. PICK allowed, error : WriteMembership(r, u, allowed, error)
    BY <1>4 DEF InsertMembership, UpdateMembership
  <2> QED BY <1>2, <1>3, <2>1 DEF WriteMembership, CanLockMembership, tables
<1>5. ASSUME NEW t \in Tasks, LockTask(r, t)
      PROVE  LocksAscend'
  BY <1>2, <1>3, <1>5 DEF LockTask, tables
<1>6. ASSUME NEW t \in Tasks, LockAssignedTask(r, t)
      PROVE  LocksAscend'
  <2> DEFINE q == [p EXCEPT !.tlocks = @ \cup {t}]
  <2>1. /\ p.pc = "task" /\ p.op = "remove_member" /\ UNCHANGED task
        /\ t \in Assigned(p) \ p.tlocks /\ \A v \in Assigned(p) \ p.tlocks : t <= v
        /\ req' = [req EXCEPT ![r] = q]
    BY <1>6 DEF LockAssignedTask, FirstInOrder, tables
  <2>2. q.pc = "task" /\ q.tlocks = p.tlocks \cup {t} /\ Assigned(q) = Assigned(p)
    BY <1>0, <2>1 DEF RequestStates, Assigned
  <2>3. Assigned(p) \subseteq Nat
    BY ConstantsAssumption DEF Assigned, ConstantsAssumption
  <2>4. \A x \in q.tlocks, v \in Assigned(q) \ q.tlocks : x < v
    <3>1. ASSUME NEW v \in Assigned(q) \ q.tlocks
          PROVE  t < v
      <4>1. t \in Nat /\ v \in Nat /\ t <= v /\ t # v
        BY <2>1, <2>2, <2>3
      <4> QED BY <4>1
    <3>2. \A x \in p.tlocks, v \in Assigned(p) \ p.tlocks : x < v
      BY <2>1 DEF LocksAscend
    <3> QED BY <2>2, <3>1, <3>2
  <2> HIDE DEF q
  <2> QED BY <2>1, <2>2, <2>4, OneAscends
<1> QED BY <1>1, <1>4, <1>5, <1>6 DEF LockStep

\* Every step keeps the order of locks.
LEMMA LocksAscendStep ==
  ASSUME IInv, LocksAscend, [Next]_vars
  PROVE  LocksAscend'
<1>0. TypeOK /\ TypeOK'
  BY StepIInv, ConstantsAssumption DEF IInv
<1>1. CASE UNCHANGED vars
  BY <1>1 DEF vars, LocksAscend, Assigned, InWorkspace
<1>2. ASSUME NEW r \in Requests, LockStep(r)
      PROVE  LocksAscend'
  BY <1>0, <1>2, LockAscends
<1>3. ASSUME NEW r \in Requests, FinishUnassign(r)
      PROVE  LocksAscend'
  <2> DEFINE q == [req[r] EXCEPT !.pc = "commit", !.unassigned = Unassigned(req[r])]
  <2>1. q.pc = "commit" /\ req' = [req EXCEPT ![r] = q]
    BY <1>0, <1>3 DEF TypeOK, RequestStates, FinishUnassign
  <2> HIDE DEF q
  <2> QED BY <1>0, <1>3, <2>1, OneAscends DEF FinishUnassign, tables
<1>4. ASSUME NEW r \in Requests, Fail(r)
      PROVE  LocksAscend'
  <2>1. Idle(Failed).pc = "idle"
    BY DEF Idle
  <2> QED BY <1>0, <1>4, <2>1, OneAscends DEF Fail, Answer, tables
<1>5. ASSUME NEW r \in Requests, NEW a \in Users, NEW w \in Workspaces,
             BeginOnWorkspace(r, a, w) \/ \E t \in Tasks : BeginOnTask(r, a, w, t)
      PROVE  LocksAscend'
  <2>1. PICK q : UNCHANGED task /\ req' = [req EXCEPT ![r] = q] /\ \E v \in Workspaces : Began(r, q, v)
    BY <1>0, <1>5, BeginEffect
  <2>2. PICK v \in Workspaces : req' = [req EXCEPT ![r] = q] /\ Began(r, q, v)
    BY <2>1
  <2>3. Handled(q)
    <3>1. req'[r] = q
      BY <1>0, <2>2 DEF TypeOK
    <3> QED BY <1>0, <3>1 DEF TypeOK
  <2>4. CASE q.pc = "idle"
    BY <1>0, <2>1, <2>2, <2>4, OneAscends
  <2>5. CASE q.pc # "idle"
    <3>1. q.mlocks = {} /\ q.tlocks = {} /\ q.actor \in Users /\ q.actor # NoUser
      BY <2>2, <2>3, <2>5, ConstantsAssumption DEF Began, Handled, Idle, ConstantsAssumption
    <3>2. q.pc = "members" => Wanted(q) # {}
      BY <2>3, <3>1 DEF Handled, Wanted, LockingReads
    <3> QED BY <1>0, <2>1, <2>2, <3>1, <3>2, OneAscends
  <2> QED BY <2>4, <2>5
<1>6. ASSUME NEW r \in Requests, Commit(r)
      PROVE  LocksAscend'
  <2>1. PICK reply \in Replies : req' = [req EXCEPT ![r] = Idle(reply)]
    BY <1>6, CommitEffect DEF IInv
  <2>2. \A s \in Requests : req'[s] = IF s = r THEN Idle(reply) ELSE req[s]
    BY <1>0, <2>1 DEF TypeOK
  <2>3. ASSUME NEW s \in Requests \ {r}, req[s].op = "remove_member", req[s].pc = "task"
        PROVE  Assigned(req[s])' \subseteq Assigned(req[s])
    <3>1. req'[s] = req[s]
      BY <2>2
    <3>2. \A t \in Assigned(req[s])' : t \in Assigned(req[s])
      BY <1>6, <2>3, <3>1, NoneAssignedBehind DEF Assigned, InWorkspace
    <3> QED BY <3>2
  <2>4. ASSUME NEW s \in Requests, req'[s].pc # "idle"
        PROVE  s # r /\ req'[s] = req[s]
    BY <2>2, <2>4 DEF Idle
  <2> QED BY <2>3, <2>4 DEF LocksAscend
<1> QED BY <1>1, <1>2, <1>3, <1>4, <1>5, <1>6 DEF Next

\* A step makes at most one slot busy.
LEMMA BusyStep ==
  ASSUME IInv, IsFiniteSet(Busy), [Next]_vars
  PROVE  IsFiniteSet(Busy')
<1>1. ASSUME NEW r \in Requests, \E q : req' = [req EXCEPT ![r] = q]
      PROVE  IsFiniteSet(Busy')
  <2>1. \A s \in Requests \ {r} : req'[s] = req[s]
    BY <1>1 DEF IInv, TypeOK
  <2>2. Busy' \in SUBSET (Busy \cup {r})
    BY <2>1 DEF Busy
  <2>3. IsFiniteSet(Busy \cup {r})
    BY FS_AddElement
  <2> QED BY <2>2, <2>3, FS_Subset
<1>2. CASE UNCHANGED vars
  BY <1>2 DEF vars, Busy
<1>3. ASSUME NEW r \in Requests, Commit(r)
      PROVE  IsFiniteSet(Busy')
  BY <1>1, <1>3, CommitEffect DEF IInv
<1>4. ASSUME NEW r \in Requests, NEW q, Quiet(r, q)
      PROVE  IsFiniteSet(Busy')
  BY <1>1, <1>4 DEF Quiet
<1> QED BY <1>2, <1>3, <1>4, StepCases DEF IInv

\* Every reachable state: finitely many requests are in flight, in order.
THEOREM QueuesInvariance == Spec => []Queues
<1>1. Init => Queues
  <2> SUFFICES ASSUME Init PROVE Queues
    OBVIOUS
  <2>1. \A r \in Requests : req[r].pc = "idle"
    BY DEF Init, Idle
  <2>2. Busy = {}
    BY <2>1 DEF Busy
  <2> QED BY <2>1, <2>2, FS_EmptySet DEF Queues, LocksAscend
<1>2. IInv /\ Queues /\ [Next]_vars => Queues'
  BY LocksAscendStep, BusyStep DEF Queues
<1> QED BY <1>1, <1>2, Invariance, PTL DEF Spec

\* A set of naturals that is not empty has a first element in the order of locks.
LEMMA FirstExists ==
  ASSUME NEW S \in SUBSET Nat, S # {}
  PROVE  \E x \in S : FirstInOrder(x, S)
BY Least DEF FirstInOrder

\* Of requests that wait for each other's locks none waits for a task: the one
\* that waits for the greatest waits for one behind which nobody waits.
LEMMA NoneWaitsForTask ==
  ASSUME IInv, Queues, NEW S \in SUBSET Requests, StuckTogether(S), NEW r \in S
  PROVE  req[r].pc # "task"
<1> DEFINE R == {s \in S : req[s].pc = "task" /\ req[s].op = "remove_member"}
           next == [s \in R |-> CHOOSE t \in Tasks :
                                  FirstInOrder(t, Assigned(req[s]) \ req[s].tlocks)]
<1>0. \A s \in S : Handled(req[s]) /\ req[s] \in RequestStates
  BY DEF IInv, TypeOK
<1>1. ASSUME NEW s \in S, NEW x \in Requests, NEW t, x \in TaskBlockers(s, t) \cap S
      PROVE  x \in R /\ t \in req[x].tlocks
  <2>1. x \in S /\ t \in req[x].tlocks
    BY <1>1 DEF TaskBlockers, HeldTasks
  <2>2. req[x].pc \in {"members", "task"}
    BY <2>1 DEF StuckTogether
  <2> QED BY <1>0, <2>1, <2>2 DEF Handled
<1>2. ASSUME NEW s \in R
      PROVE  /\ next[s] \in Tasks \ req[s].tlocks /\ next[s] \in Assigned(req[s])
             /\ \E x \in R : next[s] \in req[x].tlocks
  <2>1. /\ ~(Assigned(req[s]) \subseteq req[s].tlocks)
        /\ \A t \in Tasks : FirstInOrder(t, Assigned(req[s]) \ req[s].tlocks)
                               => TaskBlockers(s, t) \cap S # {}
    BY DEF StuckTogether
  <2>2. Assigned(req[s]) \ req[s].tlocks \in SUBSET Nat
        /\ Assigned(req[s]) \ req[s].tlocks \subseteq Tasks
    BY ConstantsAssumption DEF Assigned, ConstantsAssumption
  <2>3. \E t \in Tasks : FirstInOrder(t, Assigned(req[s]) \ req[s].tlocks)
    BY <2>1, <2>2, FirstExists
  <2>4. next[s] \in Tasks /\ FirstInOrder(next[s], Assigned(req[s]) \ req[s].tlocks)
    BY <2>3
  <2>5. PICK x \in Requests : x \in TaskBlockers(s, next[s]) \cap S
    BY <2>1, <2>4 DEF TaskBlockers
  <2>6. x \in R /\ next[s] \in req[x].tlocks
    BY <1>1, <2>5
  <2> QED BY <2>4, <2>6 DEF FirstInOrder
<1>3. R = {}
  <2> SUFFICES ASSUME R # {} PROVE FALSE
    OBVIOUS
  <2>1. IsFiniteSet(R)
    <3>1. R \in SUBSET Busy
      BY DEF Busy
    <3> QED BY <3>1, FS_Subset DEF Queues
  <2>2. next \in [R -> Nat]
    <3>1. \A s \in R : next[s] \in Tasks
      BY <1>2
    <3>2. \A s \in R : next[s] \in Nat
      BY <3>1, ConstantsAssumption DEF ConstantsAssumption
    <3> HIDE DEF R
    <3> QED BY <3>2
  <2> HIDE DEF next
  <2>3. PICK s \in R : \A x \in R : next[x] <= next[s]
    BY <2>1, <2>2, Greatest
  <2>4. PICK x \in R : next[s] \in req[x].tlocks
    BY <1>2
  <2>5. next[s] < next[x]
    <3>1. next[x] \in Assigned(req[x]) \ req[x].tlocks
      BY <1>2
    <3> QED BY <2>4, <3>1 DEF Queues, LocksAscend
  <2> QED BY <2>2, <2>3, <2>5
<1>4. ASSUME req[r].pc = "task" /\ req[r].op # "remove_member"
      PROVE  FALSE
  <2>1. TaskBlockers(r, req[r].task) \cap S # {}
    BY <1>4 DEF StuckTogether
  <2>2. PICK x \in Requests : x \in TaskBlockers(r, req[r].task) \cap S
    BY <2>1 DEF TaskBlockers
  <2> QED BY <1>1, <1>3, <2>2
<1> QED BY <1>3, <1>4

\* No deadlock: for any number of users, tasks and request slots, no requests wait
\* for each other's memberships and tasks in a circle.
THEOREM NoDeadlock == Spec => []NoWaitCycle
<1>1. ASSUME IInv, Queues, NEW S \in SUBSET Requests, S # {}, StuckTogether(S)
      PROVE  FALSE
  <2> DEFINE next == [s \in S |-> CHOOSE u \in Users :
                                    FirstInOrder(u, Wanted(req[s]) \ req[s].mlocks)]
  <2>1. \A s \in S : req[s].pc = "members"
    BY <1>1, NoneWaitsForTask DEF StuckTogether
  <2>2. ASSUME NEW s \in S
        PROVE  /\ next[s] \in Users /\ next[s] \in Wanted(req[s]) \ req[s].mlocks
               /\ \E x \in S : next[s] \in req[x].mlocks
    <3>1. req[s] \in RequestStates /\ Handled(req[s]) /\ req[s].pc = "members"
      BY <1>1, <2>1 DEF IInv, TypeOK
    <3>2. Wanted(req[s]) \ req[s].mlocks \subseteq Users
      BY <3>1 DEF Wanted, RequestStates, Handled, MemberEndpoints
    <3>3. Wanted(req[s]) \ req[s].mlocks # {}
      <4>1. req[s].mlocks \subseteq Wanted(req[s])
        BY <3>1 DEF Handled
      <4>2. Wanted(req[s]) # req[s].mlocks
        BY <1>1, <3>1 DEF Queues, LocksAscend
      <4> QED BY <4>1, <4>2
    <3>4. Wanted(req[s]) \ req[s].mlocks \in SUBSET Nat
      BY <3>2, ConstantsAssumption DEF ConstantsAssumption
    <3>5. \E u \in Users : FirstInOrder(u, Wanted(req[s]) \ req[s].mlocks)
      BY <3>2, <3>3, <3>4, FirstExists
    <3>6. next[s] \in Users /\ FirstInOrder(next[s], Wanted(req[s]) \ req[s].mlocks)
      BY <3>5
    <3>7. MemberBlockers(s, next[s]) \cap S # {}
      BY <1>1, <3>1, <3>6 DEF StuckTogether
    <3>8. \E x \in S : next[s] \in req[x].mlocks
      BY <3>7 DEF MemberBlockers, HeldMembers
    <3> QED BY <3>6, <3>8 DEF FirstInOrder
  <2>3. IsFiniteSet(S)
    <3>1. S \in SUBSET Busy
      BY <2>1 DEF Busy
    <3> QED BY <1>1, <3>1, FS_Subset DEF Queues
  <2>4. next \in [S -> Nat]
    BY <2>2, ConstantsAssumption DEF ConstantsAssumption
  <2> HIDE DEF next
  <2>5. PICK s \in S : \A x \in S : next[x] <= next[s]
    BY <1>1, <2>3, <2>4, Greatest
  <2>6. PICK x \in S : next[s] \in req[x].mlocks
    BY <2>2
  <2>7. next[s] < next[x]
    <3>1. next[x] \in Wanted(req[x]) \ req[x].mlocks /\ req[x].pc = "members"
      BY <2>1, <2>2
    <3> QED BY <1>1, <2>6, <3>1 DEF Queues, LocksAscend
  <2> QED BY <2>4, <2>5, <2>7
<1>2. IInv /\ Queues => NoWaitCycle
  BY <1>1 DEF NoWaitCycle
<1> QED BY <1>2, Invariance, QueuesInvariance, PTL

-----------------------------------------------------------------------------
(* What steps do to the tables.                                            *)

\* A step of a reachable state commits or leaves the tables alone.
LEMMA TablesChangeByCommit ==
  ASSUME IInv, [Next]_vars
  PROVE  UNCHANGED <<creator, role, task>> \/ \E r \in Requests : Commit(r)
BY StepCases DEF IInv, Quiet, vars

\* What a commit does to the roles, and to its own request.
LEMMA CommitRoles ==
  ASSUME IInv, NEW r \in Requests, Commit(r), NEW w \in Workspaces, NEW u \in Users
  PROVE  /\ role'[w][u] = RoleAfter(req[r], w, u)
         /\ req[r].pc = "commit" /\ req'[r].pc = "idle"
         /\ req[r].ws \in Workspaces
         /\ req[r].op \in {"add_member", "update_member_role"} =>
              req[r].value \in AssignableRoles
         /\ req[r].op = "create_workspace" /\ w = req[r].ws => role[w][u] = NoRole
<1> DEFINE p == req[r]
<1>1. /\ p.pc = "commit"
      /\ \E reply \in Replies : req' = [req EXCEPT ![r] = Idle(reply)]
      /\ role'[w][u] = RoleAfter(p, w, u)
  BY CommitEffect DEF IInv
<1>2. req'[r].pc = "idle"
  BY <1>1 DEF IInv, TypeOK, Idle
<1>3. p.ws \in Workspaces /\ p.value \in ValuesOf(p.op)
  BY <1>1 DEF IInv, TypeOK, Handled
<1>4. p.op \in {"add_member", "update_member_role"} => p.value \in AssignableRoles
  BY <1>3 DEF ValuesOf
<1>5. p.op = "create_workspace" /\ w = p.ws => role[w][u] = NoRole
  BY <1>1 DEF IInv, IdsAreKnown
<1> QED BY <1>1, <1>2, <1>3, <1>4, <1>5

\* What the commits know of their request.
LEMMA CommitFacts ==
  ASSUME Held, NEW r \in Requests, req[r].pc = "commit"
  PROVE  LET p == req[r] IN
         /\ p.op \in Endpoints /\ p.actor \in Users /\ p.ws \in Workspaces
         /\ p.target \in Users \cup {NoUser}
         /\ p.op \in TaskEndpoints => p.task \in Tasks
         /\ p.op \in MemberEndpoints => p.target \in Users
         /\ p.op \in {"create_task", "update_task"} => p.value \in Contents
         /\ p.op = "update_task_status" => p.value \in Statuses
         /\ p.op \in {"add_member", "update_member_role"} => p.value \in AssignableRoles
         /\ p.op # "create_workspace" => creator[p.ws] # NoUser
         /\ p.op = "create_workspace" => creator[p.ws] = NoUser
         /\ p.op \in TaskLocking => InWorkspace(p.task, p.ws)
<1> DEFINE p == req[r]
<1>1. Handled(p) /\ p \in RequestStates
  BY DEF Held, IInv, TypeOK
<1>2. p.value \in ValuesOf(p.op)
  BY <1>1 DEF Handled
<1>3. /\ p.op \in {"create_task", "update_task"} => p.value \in Contents
      /\ p.op = "update_task_status" => p.value \in Statuses
      /\ p.op \in {"add_member", "update_member_role"} => p.value \in AssignableRoles
  BY <1>2 DEF ValuesOf
<1>4. /\ p.op \in Endpoints /\ p.actor \in Users /\ p.ws \in Workspaces
      /\ p.op \in TaskEndpoints => p.task \in Tasks
      /\ p.op \in MemberEndpoints => p.target \in Users
  BY <1>1 DEF Handled
<1>5. p.target \in Users \cup {NoUser}
  BY <1>1 DEF RequestStates
<1>6. p.op # "create_workspace" => creator[p.ws] # NoUser
  BY DEF Held, IInv, IdsAreKnown
<1>7. p.op = "create_workspace" => creator[p.ws] = NoUser
  BY DEF Held, IInv, IdsAreKnown
<1>8. p.op \in TaskLocking => InWorkspace(p.task, p.ws)
  BY DEF Held, IInv, WritesAreReady
<1> QED BY <1>3, <1>4, <1>5, <1>6, <1>7, <1>8

\* What the UPDATE of a removal has changed, seen from its commit.
LEMMA UnassignedAtCommit ==
  ASSUME Held, NEW r \in Requests, Commit(r), req[r].op = "remove_member", NEW t \in Tasks
  PROVE  t \in req[r].unassigned <=> /\ InWorkspace(t, req[r].ws)
                                     /\ task[t].assignee = req[r].target
                                     /\ task[t].status # "DONE"
<1>1. req[r].pc = "commit"
  BY CommitEffect DEF Held, IInv
<1>2. /\ \A x \in req[r].tlocks : InWorkspace(x, req[r].ws)
      /\ Assigned(req[r]) \subseteq req[r].tlocks
      /\ req[r].unassigned = Unassigned(req[r])
  BY <1>1 DEF Held, Flights, RemovalHolds
<1> QED BY <1>2 DEF Assigned, Unassigned

\* Only removals take a membership away.
LEMMA OnlyRemovalsEnd ==
  ASSUME IInv, NEW r \in Requests, Commit(r), NEW w \in Workspaces, NEW u \in Users,
         role[w][u] # NoRole, role'[w][u] = NoRole
  PROVE  req[r].op = "remove_member" /\ w = req[r].ws /\ u = req[r].target
<1>1. /\ RoleAfter(req[r], w, u) = NoRole
      /\ req[r].op \in {"add_member", "update_member_role"} =>
           req[r].value \in AssignableRoles
  BY CommitRoles
<1> QED BY <1>1 DEF RoleAfter, AssignableRoles, NoRole

\* A removal changes only tasks of the workspace that the member leaves
\* (the WHERE of the UPDATE in remove_member).
THEOREM RemovalsStayInWorkspace == Spec => RemovalStaysInWorkspace
<1> DEFINE Stays ==
      \A w \in Workspaces, u \in Users :
        (role[w][u] # NoRole /\ role'[w][u] = NoRole) =>
          \A t \in Tasks : task[t].ws # w => task'[t] = task[t]
<1>1. Held /\ [Next]_vars => [Stays]_vars
  <2>1. SUFFICES ASSUME Held, NEW r \in Requests, Commit(r),
                        NEW w \in Workspaces, NEW u \in Users,
                        role[w][u] # NoRole, role'[w][u] = NoRole,
                        NEW t \in Tasks, task[t].ws # w
                 PROVE  task'[t] = task[t]
    BY TablesChangeByCommit DEF Held
  <2>2. req[r].op = "remove_member" /\ w = req[r].ws
    BY <2>1, OnlyRemovalsEnd DEF Held
  <2>3. t \notin req[r].unassigned
    BY <2>1, <2>2, UnassignedAtCommit DEF InWorkspace
  <2> QED BY <2>1, <2>2, <2>3, CommitRow DEF Held, RowAfter
<1> QED BY <1>1, HeldInvariance, PTL DEF Spec, RemovalStaysInWorkspace

\* Nobody becomes ADMIN except by a request of the workspace's creator: the
\* role an ADMIN may hand out (can_add_member) is checked before the INSERT.
THEOREM AdminsAreMadeByOwner == Spec => AdminMadeByOwner
<1> DEFINE Made ==
      \A w \in Workspaces, u \in Users :
        (role[w][u] # "ADMIN" /\ role'[w][u] = "ADMIN") =>
          \E r \in Requests :
            /\ req[r].pc = "commit" /\ req'[r].pc = "idle"
            /\ req[r].actor = creator[w]
<1>1. Held /\ [Next]_vars => [Made]_vars
  <2>1. SUFFICES ASSUME Held, NEW r \in Requests, Commit(r),
                        NEW w \in Workspaces, NEW u \in Users,
                        role[w][u] # "ADMIN", role'[w][u] = "ADMIN"
                 PROVE  req[r].pc = "commit" /\ req'[r].pc = "idle" /\ req[r].actor = creator[w]
    BY TablesChangeByCommit DEF Held
  <2>2. RoleAfter(req[r], w, u) = "ADMIN" /\ req[r].pc = "commit" /\ req'[r].pc = "idle"
    BY <2>1, CommitRoles DEF Held
  <2>3. /\ w = req[r].ws /\ req[r].op \in {"add_member", "update_member_role"}
        /\ req[r].value = "ADMIN"
    BY <2>1, <2>2 DEF RoleAfter, NoRole
  <2> QED BY <2>1, <2>2, <2>3 DEF Held, Flights, PromotionHolds
<1> QED BY <1>1, HeldInvariance, PTL DEF Spec, AdminMadeByOwner

\* A membership that exists changes its role only by update_member_role: an INSERT
\* that lost the race answers 409 and writes nothing (add_member).
THEOREM JoinsNeverOverwrite == Spec => JoinNeverOverwrites
<1> DEFINE Kept ==
      \A w \in Workspaces, u \in Users :
        (role[w][u] # NoRole /\ role'[w][u] \notin {NoRole, role[w][u]}) =>
          \E r \in Requests :
            /\ req[r].op = "update_member_role" /\ req[r].target = u
            /\ req[r].pc = "commit" /\ req'[r].pc = "idle"
<1>1. Held /\ [Next]_vars => [Kept]_vars
  <2>1. SUFFICES ASSUME Held, NEW r \in Requests, Commit(r),
                        NEW w \in Workspaces, NEW u \in Users,
                        role[w][u] # NoRole, role'[w][u] \notin {NoRole, role[w][u]}
                 PROVE  /\ req[r].op = "update_member_role" /\ req[r].target = u
                        /\ req[r].pc = "commit" /\ req'[r].pc = "idle"
    BY TablesChangeByCommit DEF Held
  <2>2. /\ RoleAfter(req[r], w, u) = role'[w][u]
        /\ req[r].pc = "commit" /\ req'[r].pc = "idle"
        /\ req[r].op = "create_workspace" => w # req[r].ws
    BY <2>1, CommitRoles DEF Held
  <2>3. w = req[r].ws /\ u = req[r].target /\ req[r].op \in {"add_member", "update_member_role"}
    BY <2>1, <2>2 DEF RoleAfter
  <2>4. req[r].op # "add_member"
    BY <2>1, <2>2, <2>3 DEF Held, IInv, WritesAreReady
  <2> QED BY <2>2, <2>3, <2>4
<1> QED BY <1>1, HeldInvariance, PTL DEF Spec, JoinNeverOverwrites

\* Assignments are decided as AssignmentIsCurrent says.
LEMMA HeldAssignments ==
  ASSUME Held, NEW r \in Requests, req[r].pc = "commit", req[r].op = "update_task_assignee"
  PROVE  /\ InWorkspace(req[r].task, req[r].ws)
         /\ task[req[r].task].status # "DONE"
         /\ req[r].target # NoUser => role[req[r].ws][req[r].target] # NoRole
BY CommitAssignment DEF Held, Target

\* The assignee of a DONE task stays: assignments are refused (update_task_assignee)
\* and removals skip it (remove_member).
THEOREM DoneTasksKeepAssignee == Spec => DoneKeepsAssignee
<1> DEFINE Keeps ==
      \A t \in Tasks :
        (task[t].status = "DONE" /\ task'[t].phase = "live") =>
          task'[t].assignee = task[t].assignee
<1>1. Held /\ [Next]_vars => [Keeps]_vars
  <2>1. SUFFICES ASSUME Held, NEW r \in Requests, Commit(r), NEW t \in Tasks,
                        task[t].status = "DONE", task'[t].phase = "live"
                 PROVE  task'[t].assignee = task[t].assignee
    BY TablesChangeByCommit DEF Held
  <2>2. req[r].op = "remove_member" => t \notin req[r].unassigned
    BY <2>1, UnassignedAtCommit
  <2>3. req[r].pc = "commit"
    BY <2>1, CommitEffect DEF Held, IInv
  <2>4. ~(req[r].op = "update_task_assignee" /\ t = req[r].task)
    BY <2>1, <2>3, HeldAssignments
  <2> QED BY <2>1, <2>2, <2>4, CommitFields DEF Held
<1> QED BY <1>1, HeldInvariance, PTL DEF Spec, DoneKeepsAssignee

\* A task leaves its assignee with the assignee's membership or by a request for
\* that task: a removal that fails after its UPDATE leaves everything as it was
\* (remove_member, update_task_assignee).
THEOREM TasksStayWithMembers == Spec => MembersKeepTasks
<1> DEFINE Keep ==
      \A t \in Tasks, u \in Users :
        (task[t].assignee = u /\ task'[t].phase = "live" /\ task'[t].assignee # u) =>
          \/ /\ role[task[t].ws][u] # NoRole /\ role'[task[t].ws][u] = NoRole
             /\ task'[t].assignee = NoUser
          \/ \E r \in Requests :
               /\ req[r].op = "update_task_assignee" /\ req[r].task = t
               /\ req[r].pc = "commit" /\ req'[r].pc = "idle"
<1>1. Held /\ [Next]_vars => [Keep]_vars
  <2>1. SUFFICES ASSUME Held, NEW r \in Requests, Commit(r), NEW t \in Tasks, NEW u \in Users,
                        task[t].assignee = u, task'[t].phase = "live", task'[t].assignee # u
                 PROVE  \/ /\ role[task[t].ws][u] # NoRole /\ role'[task[t].ws][u] = NoRole
                           /\ task'[t].assignee = NoUser
                        \/ /\ req[r].op = "update_task_assignee" /\ req[r].task = t
                           /\ req[r].pc = "commit" /\ req'[r].pc = "idle"
    BY TablesChangeByCommit DEF Held
  <2> DEFINE p == req[r]
  <2>2. p.pc = "commit" /\ req'[r].pc = "idle"
    <3>1. /\ req[r].pc = "commit"
          /\ \E reply \in Replies : req' = [req EXCEPT ![r] = Idle(reply)]
          /\ req \in [Requests -> RequestStates]
      BY <2>1, CommitEffect DEF Held, IInv, TypeOK
    <3> QED BY <3>1 DEF Idle
  <2>3. task[t].assignee # NoUser
    BY <2>1, ConstantsAssumption DEF ConstantsAssumption
  <2>4. CASE p.op = "update_task_assignee" /\ t = p.task
    BY <2>2, <2>4
  <2>5. CASE ~(p.op = "update_task_assignee" /\ t = p.task)
    <3>1. ~(p.op = "create_task" /\ t = p.task)
      <4>1. ASSUME p.op = "create_task", t = p.task
            PROVE  FALSE
        <5>1. task[t].phase = "unused" /\ task[t] \in TaskRows
          BY <2>1, <2>2, <4>1 DEF Held, IInv, WritesAreReady, TypeOK
        <5> QED BY <2>3, <5>1 DEF TaskRows, LiveRows, NoRow
      <4> QED BY <4>1
    <3>2. p.op = "remove_member" /\ t \in p.unassigned /\ task'[t].assignee = NoUser
      BY <2>1, <2>5, <3>1, CommitFields DEF Held
    <3>3. task[t].ws = p.ws /\ task[t].assignee = p.target
      BY <2>1, <3>2, UnassignedAtCommit DEF InWorkspace
    <3>4. /\ p.ws \in Workspaces /\ p.target \in Users
          /\ role[p.ws][p.target] \in AssignableRoles
      BY <2>1, <2>2, <3>2, CommitFacts DEF Held, IInv, WritesAreReady, MemberEndpoints
    <3>5. role'[p.ws][p.target] = NoRole
      BY <2>1, <3>2, <3>4, CommitEffect DEF Held, IInv, RoleAfter
    <3> QED BY <2>1, <3>2, <3>3, <3>4, <3>5 DEF AssignableRoles, NoRole
  <2> QED BY <2>4, <2>5
<1> QED BY <1>1, HeldInvariance, PTL DEF Spec, MembersKeepTasks

\* No interleaving of assignments, removals and role changes leaves an unfinished
\* task with somebody who is no member; reopening a DONE task is the only way.
THEOREM OrphansByReopeningOnly == Spec => OrphanOnlyByReopening
<1> DEFINE Only ==
      \A t \in Tasks :
        (~Orphaned(t) /\ Orphaned(t)') =>
          /\ task[t].status = "DONE"
          /\ task'[t].assignee = task[t].assignee
          /\ UNCHANGED role
<1>1. Held /\ [Next]_vars => [Only]_vars
  <2>1. SUFFICES ASSUME Held, NEW r \in Requests, Commit(r), NEW t \in Tasks,
                        ~Orphaned(t), Orphaned(t)'
                 PROVE  /\ task[t].status = "DONE"
                        /\ task'[t].assignee = task[t].assignee
                        /\ UNCHANGED role
    <3>1. ASSUME UNCHANGED <<creator, role, task>>, NEW t \in Tasks
          PROVE  Orphaned(t)' <=> Orphaned(t)
      BY <3>1 DEF Orphaned
    <3> QED BY <3>1, TablesChangeByCommit DEF Held
  <2> DEFINE p == req[r]  w == task'[t].ws  u == task'[t].assignee
  <2>2. /\ task'[t].phase = "live" /\ task'[t].status # "DONE" /\ u # NoUser
        /\ role'[w][u] = NoRole
    BY <2>1 DEF Orphaned
  <2>3. /\ task[t] \in LiveRows /\ task[t].ws = w /\ p.pc = "commit"
        /\ task'[t].status = IF p.op = "update_task_status" /\ t = p.task
                             THEN p.value ELSE task[t].status
        /\ u = IF p.op = "update_task_assignee" /\ t = p.task THEN p.target
               ELSE task[t].assignee
        /\ t \notin p.unassigned \/ p.op # "remove_member"
    <3>1. p.pc = "commit"
      BY <2>1, CommitEffect DEF Held, IInv
    <3> QED BY <2>1, <2>2, <3>1, CommitFields DEF Held
  <2>4. w \in Workspaces /\ u \in Users
    <3>1. Handled(p) /\ p \in RequestStates
      BY <2>1 DEF Held, IInv, TypeOK
    <3> QED BY <2>2, <2>3, <3>1 DEF LiveRows, RequestStates
  <2>5. role[w][u] # NoRole => p.op = "remove_member" /\ w = p.ws /\ u = p.target
    BY <2>1, <2>2, <2>4, OnlyRemovalsEnd DEF Held
  <2>6. ~(p.op = "update_task_assignee" /\ t = p.task)
    BY <2>1, <2>2, <2>3, <2>5, HeldAssignments DEF InWorkspace
  <2>7. u = task[t].assignee
    BY <2>3, <2>6
  <2>8. role[w][u] = NoRole
    <3>1. ASSUME p.op = "remove_member", w = p.ws, u = p.target
          PROVE  FALSE
      <4>1. task[t].phase = "live" /\ task[t].status # "DONE"
        BY <2>2, <2>3, <3>1 DEF LiveRows
      <4> QED BY <2>1, <2>3, <2>7, <3>1, <4>1, UnassignedAtCommit DEF InWorkspace
    <3> QED BY <2>5, <3>1
  <2>9. task[t].status = "DONE"
    BY <2>1, <2>2, <2>3, <2>7, <2>8 DEF Orphaned, LiveRows
  <2>10. p.op = "update_task_status"
    BY <2>2, <2>3, <2>9
  <2>11. UNCHANGED role
    BY <2>1, <2>10 DEF Commit, Committed, CommitCreateWorkspace, CommitCreateTask,
      CommitUpdateTask, CommitDeleteTask, CommitUpdateTaskStatus, CommitUpdateTaskAssignee,
      CommitAddMember, CommitUpdateMemberRole, CommitRemoveMember
  <2> QED BY <2>7, <2>9, <2>11
<1> QED BY <1>1, HeldInvariance, PTL DEF Spec, OrphanOnlyByReopening

\* What a request asks for is in the tables after its commit.
LEMMA CommitAchieves ==
  ASSUME Held, NEW r \in Requests, Commit(r)
  PROVE  \E q \in {req[r]} : Achieved(q)'
<1> DEFINE p == req[r]
<1>0. p.pc = "commit"
  BY CommitEffect DEF Held, IInv
<1>1. /\ p.op \in Endpoints /\ p.ws \in Workspaces
      /\ p.op \in TaskEndpoints => p.task \in Tasks
      /\ p.op \in MemberEndpoints => p.target \in Users
      /\ p.op \in TaskLocking => InWorkspace(p.task, p.ws)
  BY <1>0, CommitFacts
<1>2. /\ \A u \in Users : role'[p.ws][u] = RoleAfter(p, p.ws, u)
      /\ creator'[p.ws] = IF p.op = "create_workspace" THEN p.actor ELSE creator[p.ws]
  BY <1>1, CommitEffect DEF Held, IInv
<1>3. p.op \in MemberEndpoints =>
        role'[p.ws][p.target] = IF p.op = "remove_member" THEN NoRole ELSE p.value
  BY <1>1, <1>2 DEF RoleAfter, MemberEndpoints
<1>4. p.op \in TaskEndpoints => task'[p.task] = RowAfter(p, p.task)
  BY <1>1, CommitRow DEF Held
<1>5. p.op \in TaskLocking => task[p.task] \in LiveRows /\ task[p.task].ws = p.ws
  <2>1. p.op \in TaskLocking => task[p.task] \in TaskRows
    BY <1>1 DEF Held, IInv, TypeOK, TaskEndpoints
  <2> QED BY <1>1, <2>1 DEF TaskRows, NoRow, InWorkspace
<1>6. SUFFICES ASSUME NEW q \in {p}
               PROVE  Achieved(q)'
  OBVIOUS
<1>7. CASE p.op \in MemberEndpoints
  BY <1>3, <1>6, <1>7 DEF Achieved, MemberEndpoints
<1>8. CASE p.op = "create_workspace"
  BY <1>2, <1>6, <1>8 DEF Achieved
<1>9. CASE p.op = "create_task"
  <2>1. task'[p.task] = NewTask(p.ws, p.actor, p.value)
    BY <1>4, <1>9 DEF RowAfter, TaskEndpoints
  <2> QED BY <1>6, <1>9, <2>1 DEF Achieved, InWorkspace, NewTask
<1>10. CASE p.op \in TaskLocking
  BY <1>4, <1>5, <1>6, <1>10 DEF RowAfter, TaskEndpoints, TaskLocking, Achieved, InWorkspace,
    LiveRows, NoRow
<1> QED BY <1>1, <1>7, <1>8, <1>9, <1>10 DEF Endpoints, MemberEndpoints, TaskLocking

\* A request that waited for locks answers OK only if what it asked for is in the
\* tables at that moment, also when it found nothing left to write, or its row gone.
THEOREM AcknowledgementsAreTrue == Spec => AcknowledgedMeansDone
<1> DEFINE Earned ==
      \A r \in Requests :
        (req[r].pc # "idle" /\ req'[r].reply = "OK") => \E q \in {req[r]} : Achieved(q)'
<1>1. Held /\ [Next]_vars => [Earned]_vars
  <2>1. SUFFICES ASSUME Held, Next, NEW r \in Requests, req[r].pc # "idle",
                        req'[r].reply = "OK", ~UNCHANGED vars
                 PROVE  \E q \in {req[r]} : Achieved(q)'
    BY DEF vars
  <2>2. req[r].reply = "NONE"
    BY <2>1 DEF Held, Flights, Unanswered
  <2>3. ASSUME NEW s \in Requests, Commit(s)
        PROVE  \E q \in {req[r]} : Achieved(q)'
    <3>1. s = r
      <4>1. PICK reply \in Replies : req' = [req EXCEPT ![s] = Idle(reply)]
        BY <2>1, <2>3, CommitEffect DEF Held, IInv
      <4> QED BY <2>1, <2>2, <4>1
    <3> QED BY <2>1, <2>3, <3>1, CommitAchieves
  <2>4. ASSUME NEW s \in Requests, NEW p, Quiet(s, p)
        PROVE  \E q \in {req[r]} : Achieved(q)'
    <3>1. \A v \in Requests : req'[v] = IF v = s THEN p ELSE req[v]
      BY <2>1, <2>4 DEF Quiet, Held, IInv, TypeOK
    <3>2. s = r /\ p.reply = "OK"
      BY <2>1, <2>2, <3>1
    <3>3. Locked(r, p)
      BY <2>1, <2>4, <3>2 DEF Quiet
    <3>4. Achieved(req[r])
      BY <2>2, <3>2, <3>3 DEF Locked, Idle
    <3>5. UNCHANGED <<creator, role, task>>
      BY <2>4 DEF Quiet
    <3> QED BY <3>4, <3>5 DEF Achieved, InWorkspace
  <2> QED BY <2>1, <2>3, <2>4, StepCases DEF Held, IInv
<1> QED BY <1>1, HeldInvariance, PTL DEF Spec, AcknowledgedMeansDone

-----------------------------------------------------------------------------
(* The refinement: each commit is one step of TaskBoard.                   *)

\* TaskBoard's copy of the policies is the policies.
LEMMA SamePolicies ==
  /\ Board!NoUser = NoUser /\ Board!NoRole = NoRole
  /\ Board!AssignableRoles = AssignableRoles /\ Board!Statuses = Statuses
  /\ \A x, a, u : Board!CanChangeTaskStatus(x, a, u) <=> CanChangeTaskStatus(x, a, u)
  /\ \A x, old, new :
       Board!IsValidStatusTransition(x, old, new) <=> IsValidStatusTransition(x, old, new)
  /\ \A x : Board!CanChangeTaskAssignee(x) <=> CanChangeTaskAssignee(x)
  /\ \A x, a, u, v : Board!CanSelfClaimTask(x, a, u, v) <=> CanSelfClaimTask(x, a, u, v)
  /\ \A x, a, u, v : Board!CanSelfReleaseTask(x, a, u, v) <=> CanSelfReleaseTask(x, a, u, v)
<1> USE DEF NoUser, Board!NoUser, NoRole, Board!NoRole, Managers, Board!Managers
<1>1. Board!NoUser = NoUser /\ Board!NoRole = NoRole
  OBVIOUS
<1>2. Board!AssignableRoles = AssignableRoles /\ Board!Statuses = Statuses
  BY DEF AssignableRoles, Board!AssignableRoles, Statuses, Board!Statuses
<1>3. \A x, a, u : Board!CanChangeTaskStatus(x, a, u) <=> CanChangeTaskStatus(x, a, u)
  BY DEF CanChangeTaskStatus, Board!CanChangeTaskStatus
<1>4. \A x, old, new :
        Board!IsValidStatusTransition(x, old, new) <=> IsValidStatusTransition(x, old, new)
  BY DEF IsValidStatusTransition, Board!IsValidStatusTransition
<1>5. \A x : Board!CanChangeTaskAssignee(x) <=> CanChangeTaskAssignee(x)
  BY DEF CanChangeTaskAssignee, Board!CanChangeTaskAssignee
<1>6. \A x, a, u, v : Board!CanSelfClaimTask(x, a, u, v) <=> CanSelfClaimTask(x, a, u, v)
  BY DEF CanSelfClaimTask, Board!CanSelfClaimTask
<1>7. \A x, a, u, v : Board!CanSelfReleaseTask(x, a, u, v) <=> CanSelfReleaseTask(x, a, u, v)
  BY DEF CanSelfReleaseTask, Board!CanSelfReleaseTask
<1> QED BY <1>1, <1>2, <1>3, <1>4, <1>5, <1>6, <1>7

\* A step of the requests is a step of the board, or leaves the tables alone.
LEMMA CommitIsBoardStep ==
  ASSUME Held, NEW r \in Requests, Commit(r)
  PROVE  Board!Next
<1> DEFINE p == req[r]
<1>0. p.pc = "commit"
  BY CommitEffect DEF Held, IInv
<1>1. /\ creator \in [Workspaces -> Users \cup {NoUser}]
      /\ role \in [Workspaces -> [Users -> RolesOrNone]]
      /\ task \in [Tasks -> TaskRows]
  BY DEF Held, IInv, TypeOK
<1>2. /\ p.op \in Endpoints /\ p.actor \in Users /\ p.ws \in Workspaces
      /\ p.target \in Users \cup {NoUser}
      /\ p.op \in TaskEndpoints => p.task \in Tasks
      /\ p.op \in MemberEndpoints => p.target \in Users
      /\ p.op \in {"create_task", "update_task"} => p.value \in Contents
      /\ p.op = "update_task_status" => p.value \in Statuses
      /\ p.op \in {"add_member", "update_member_role"} => p.value \in AssignableRoles
      /\ p.op # "create_workspace" => creator[p.ws] # NoUser
      /\ p.op = "create_workspace" => creator[p.ws] = NoUser
      /\ p.op \in TaskLocking => InWorkspace(p.task, p.ws)
  BY <1>0, CommitFacts
<1> USE SamePolicies DEF Committed
<1>3. CASE CommitCreateWorkspace(r)
  <2>1. p.op = "create_workspace" /\ role' = [role EXCEPT ![p.ws][p.actor] = "OWNER"]
        /\ creator' = [creator EXCEPT ![p.ws] = p.actor] /\ task' = task
    BY <1>3 DEF CommitCreateWorkspace
  <2>2. \A u \in Users : role[p.ws][u] = NoRole
    BY <1>2, <2>1 DEF Held, IInv, IdsAreKnown
  <2>3. role[p.ws] = [u \in Users |-> NoRole]
    BY <1>1, <1>2, <2>2
  <2>4. [role[p.ws] EXCEPT ![p.actor] = "OWNER"] =
          [u \in Users |-> IF u = p.actor THEN "OWNER" ELSE NoRole]
    BY <2>3
  <2>5. role' = [role EXCEPT ![p.ws] = [u \in Users |-> IF u = p.actor THEN "OWNER" ELSE NoRole]]
    BY <1>1, <1>2, <2>1, <2>4
  <2>6. Board!CreateWorkspace(p.ws, p.actor)
    BY <1>2, <2>1, <2>5 DEF Board!CreateWorkspace
  <2> QED BY <1>2, <2>6 DEF Board!Next
<1>4. CASE CommitCreateTask(r)
  <2>1. p.op = "create_task"
    BY <1>4 DEF CommitCreateTask
  <2>2. task[p.task].phase = "unused" /\ p.task \in Tasks
    BY <1>0, <1>2, <2>1 DEF Held, IInv, WritesAreReady, TaskEndpoints
  <2>3. Board!CreateTask(p.task, p.ws, p.actor, p.value)
    BY <1>2, <1>4, <2>1, <2>2 DEF CommitCreateTask, Board!CreateTask, NewTask
  <2> QED BY <1>2, <2>1, <2>2, <2>3 DEF Board!Next
<1>5. CASE CommitUpdateTask(r)
  <2>1. p.op = "update_task" /\ p.task \in Tasks /\ task[p.task].phase = "live"
    BY <1>2, <1>5 DEF CommitUpdateTask, TaskLocking, TaskEndpoints, InWorkspace
  <2>2. Board!UpdateTask(p.task, p.value)
    BY <1>5, <2>1 DEF CommitUpdateTask, Board!UpdateTask, Board!Live
  <2> QED BY <1>2, <2>1, <2>2 DEF Board!Next
<1>6. CASE CommitDeleteTask(r)
  <2>1. p.op = "delete_task" /\ p.task \in Tasks /\ task[p.task].phase = "live"
    BY <1>2, <1>6 DEF CommitDeleteTask, TaskLocking, TaskEndpoints, InWorkspace
  <2>2. Board!DeleteTask(p.task)
    BY <1>6, <2>1 DEF CommitDeleteTask, Board!DeleteTask, Board!Live, NoRow, Board!EmptyRow,
      NoWorkspace, NoContent
  <2> QED BY <2>1, <2>2 DEF Board!Next
<1>7. CASE CommitUpdateTaskStatus(r)
  <2>1. p.op = "update_task_status" /\ p.task \in Tasks
    BY <1>2, <1>7 DEF CommitUpdateTaskStatus, TaskLocking, TaskEndpoints
  <2>2. /\ task[p.task].phase = "live" /\ task[p.task].ws = p.ws
        /\ CanChangeTaskStatus(role[p.ws][p.actor], p.actor, task[p.task].assignee)
        /\ IsValidStatusTransition(role[p.ws][p.actor], task[p.task].status, p.value)
    BY <1>0, <2>1, CommitStatusChange DEF Held, InWorkspace, ActorRole, Target
  <2>3. Board!UpdateTaskStatus(p.task, p.actor, p.value)
    BY <1>7, <2>2 DEF CommitUpdateTaskStatus, Board!UpdateTaskStatus, Board!Live
  <2> QED BY <1>2, <2>1, <2>3 DEF Board!Next
<1>8. CASE CommitUpdateTaskAssignee(r)
  <2>1. p.op = "update_task_assignee" /\ p.task \in Tasks
    BY <1>2, <1>8 DEF CommitUpdateTaskAssignee, TaskLocking, TaskEndpoints
  <2>2. /\ task[p.task].phase = "live" /\ task[p.task].ws = p.ws
        /\ task[p.task].status # "DONE"
        /\ p.target # NoUser => role[p.ws][p.target] # NoRole
        /\ \/ CanChangeTaskAssignee(role[p.ws][p.actor])
           \/ CanSelfClaimTask(role[p.ws][p.actor], p.actor, task[p.task].assignee, p.target)
           \/ CanSelfReleaseTask(role[p.ws][p.actor], p.actor, task[p.task].assignee, p.target)
    BY <1>0, <2>1, CommitAssignment DEF Held, InWorkspace, ActorRole, Target
  <2>3. Board!UpdateTaskAssignee(p.task, p.actor, p.target)
    BY <1>8, <2>2 DEF CommitUpdateTaskAssignee, Board!UpdateTaskAssignee, Board!Live,
      Board!IsMember
  <2> QED BY <1>2, <2>1, <2>3 DEF Board!Next
<1>9. CASE CommitAddMember(r)
  <2>1. p.op = "add_member" /\ p.target \in Users /\ role[p.ws][p.target] = NoRole
    BY <1>0, <1>2, <1>9 DEF CommitAddMember, MemberEndpoints, Held, IInv, WritesAreReady
  <2>2. Board!AddMember(p.ws, p.target, p.value)
    BY <1>2, <1>9, <2>1 DEF CommitAddMember, Board!AddMember, Board!IsMember
  <2> QED BY <1>2, <2>1, <2>2 DEF Board!Next
<1>10. CASE CommitUpdateMemberRole(r)
  <2>1. /\ p.op = "update_member_role" /\ p.target \in Users
        /\ role[p.ws][p.target] \in AssignableRoles
    BY <1>0, <1>2, <1>10 DEF CommitUpdateMemberRole, MemberEndpoints, Held, IInv, WritesAreReady
  <2>2. Board!UpdateMemberRole(p.ws, p.target, p.value)
    BY <1>10, <2>1 DEF CommitUpdateMemberRole, Board!UpdateMemberRole
  <2> QED BY <1>2, <2>1, <2>2 DEF Board!Next
<1>11. CASE CommitRemoveMember(r)
  <2>1. /\ p.op = "remove_member" /\ p.target \in Users
        /\ role[p.ws][p.target] \in AssignableRoles
    BY <1>0, <1>2, <1>11 DEF CommitRemoveMember, MemberEndpoints, Held, IInv, WritesAreReady
  <2>2. \A t \in Tasks :
          t \in p.unassigned <=> /\ Board!Live(t) /\ task[t].ws = p.ws
                                 /\ task[t].assignee = p.target /\ task[t].status # "DONE"
    BY <1>11, <2>1, UnassignedAtCommit DEF Commit, InWorkspace, Board!Live
  <2>3. task' = [t \in Tasks |->
                   IF t \in p.unassigned THEN [task[t] EXCEPT !.assignee = NoUser] ELSE task[t]]
    BY <1>11 DEF CommitRemoveMember
  <2>4. task' = [t \in Tasks |->
                   IF /\ Board!Live(t) /\ task[t].ws = p.ws
                      /\ task[t].assignee = p.target /\ task[t].status # "DONE"
                   THEN [task[t] EXCEPT !.assignee = NoUser] ELSE task[t]]
    BY <2>2, <2>3, Zenon
  <2>5. Board!RemoveMember(p.ws, p.target)
    BY <1>11, <2>1, <2>4 DEF CommitRemoveMember, Board!RemoveMember
  <2> QED BY <1>2, <2>1, <2>5 DEF Board!Next
<1> QED
  BY <1>3, <1>4, <1>5, <1>6, <1>7, <1>8, <1>9, <1>10, <1>11 DEF Commit

\* Every step of the interleaved requests is one step of the atomic contract or
\* leaves the tables alone.
THEOREM BoardStepsOnly == Spec => BoardSteps
<1>1. Held /\ [Next]_vars => [Board!Next]_tables
  BY CommitIsBoardStep, TablesChangeByCommit DEF Held, tables
<1> QED BY <1>1, HeldInvariance, PTL DEF Spec, BoardSteps

\* From empty tables the requests implement the contract of TaskBoard.
THEOREM Refinement == Spec => BoardSpec
<1>1. Init => Board!Init
  BY SamePolicies DEF Init, Board!Init, NoRow, Board!EmptyRow, NoWorkspace, NoContent
<1>2. Held /\ [Next]_vars => [Board!Next]_(Board!vars)
  BY CommitIsBoardStep, TablesChangeByCommit DEF Held, Board!vars
<1> QED BY <1>1, <1>2, HeldInvariance, PTL DEF Spec, BoardSpec, Board!Spec
=============================================================================
