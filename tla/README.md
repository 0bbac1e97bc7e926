# Verification of the collaborative task platform

TLA+ models of the workspace, membership and task requests, of paged lists,
accounts and the Redis rate limiter in `src/app`, and of the migrations in
`src/alembic` that turn single-user tasks into collaborative ones; TLC runs over
small instances, and TLAPS proofs for every instance. Paths below are relative to
`src/`.

## 1. Inventory

The program is a FastAPI application over MySQL 8 (SQLAlchemy sessions, InnoDB,
REPEATABLE READ) and Redis. Handlers run in worker threads, possibly in several
processes; they share nothing but the database and Redis.

| Component | State | Operations | Interacts with |
|---|---|---|---|
| Policies (`app/policies.py`, `app/enums.py`) | none | pure predicates: who may add, promote, remove, edit, move, assign, claim, release | called by services with facts they supply |
| Authorization dependencies (`app/dependencies.py`) | what the session has read | current user, workspace access, task access, role gates | read MySQL before the service does |
| Workspaces (`app/services/workspace_service.py`) | `workspaces`, and the owner's `workspace_members` row | create with owner, list, get | one transaction per request |
| Memberships (`app/services/workspace_member_service.py`) | `workspace_members` | add, change role, remove (unassigns tasks), list | writes `tasks` when a member leaves |
| Tasks (`app/services/task_service.py`) | `tasks` | create, edit, delete, change status, change assignee, list, get | lock `workspace_members`, then `tasks` |
| Rate limiter (`app/rate_limiter.py`) | counters with expiry in Redis | one Lua script per limited request; failure policies | runs before registration, login and writes |
| Accounts (`app/services/user_service.py`, `app/security.py`) | `users`; JWTs | register, log in, authenticate | every request starts here |
| Lists (`list_tasks`, `list_members`, `list_workspaces`) | none; a client holds pages and an offset | one page: membership, count, rows | read what all other requests write in between |
| Migrations (`alembic/versions`) | the schema, `alembic_version`, a mapping table | the move of personal tasks to workspaces in four revisions, up and down | run while the application is stopped, on tables that two versions of it write before and after |
| HTTP layer (`app/routers`, `app/schemas.py`, `app/main.py`, `app/exceptions.py`, logging, settings) | none | routing, validation, error codes | wraps the services |

What is hard:

- **Stale reads.** Dependencies read roles and tasks from a snapshot, with plain
  SELECTs; services decide later, some after locking and rereading
  (`with_for_update` with `populate_existing`), some on the snapshot.
- **Interleavings.** Two claims of one task; an assignment against the removal of
  its assignee; a promotion against a removal; two joins of one user; an edit
  against a deletion.
- **Lock order.** Assignments lock two memberships and a task, removals a
  membership and many tasks; a different order anywhere would deadlock.
- **Registration races.** Two clients want one username, in one or two spellings.
- **Partial failure.** A transaction can be rolled back at any statement, a removal
  between its UPDATE of tasks and its DELETE of the membership; a commit can be applied
  while the client is told 500.
- **Pages.** A page is one transaction, the next page another: rows come, leave and
  move in between, and many tie on a priority or on a timestamp.
- **Migrations.** MySQL commits every DDL statement: a crash leaves half a revision.
  Downgrades meet data that users have worked on since, or that no mapping knows.
- **Limits.** Windows that should not be prolonged by refused calls, a counter
  without expiry, lost answers, a Redis that is down or restarts.

What makes each component correct:

- Policies: the predicates are those of the code; what matters is that the facts
  they are given are current (next lines).
- Workspaces and memberships: one OWNER, who is the creator, always; only the owner
  makes ADMINs; an ADMIN never removes an ADMIN; joining never overwrites a role;
  a removal unassigns exactly the member's unfinished tasks of that workspace.
- Tasks: a status change or an assignment is allowed by the roles and the row of
  the moment it commits; no second claim succeeds; an unfinished task is never
  assigned to a non-member by any interleaving; the assignee of a DONE task stays;
  OK means that what was asked for is so; no deadlock; every request is answered.
- Rate limiter: at most `2*Limit - 1` logins pass in any interval of a window's
  length, and `Limit` more for each restart of Redis in it; no write is refused that has not earned it, Retry-After is honest, nobody
  is refused for ever.
- Accounts: a username is registered once, for the client who was told so or whose answer
  was lost after the commit; a token keeps meaning the user it was issued to.
- Lists: total and items of a page are of one moment; while a client pages, rows that
  come hide none, and rows that leave repeat none.
- Migrations: whose a task is and whether it is done can be read at every moment,
  between any two statements; the recorded revision tells the schema; a sound
  database is not refused; no command undoes users' work; the application finds
  tables it can serve.

`PROJECT.json` lists the hazards line by line with the properties that cover them.

## 2. Modules

| Module | What it is |
|---|---|
| `Policies` | the predicates of `app/policies.py` |
| `TaskBoard` | the contract: every write request as one atomic step on the three tables |
| `TaskTransactions` | the nine writing endpoints as interleaved transactions; its properties |
| `MCTaskTransactions` | populated initial states, symmetry and view for TLC |
| `TaskTransactionsProofs` | types, locks, prepared writes, ids, the owner; what requests decide on is current at their commit |
| `RateLimiter` | the Lua script, the failure policies, Redis and the clock |
| `RateLimiterProofs` | types, the promise of Retry-After, the boundary burst, what a refusal is earned by |
| `RefinementProofs` | the other invariants and step properties, that nobody waits in a circle, and that the transactions implement `TaskBoard` |
| `Induction` | induction over naturals and greatest elements, stated without operators as parameters |
| `Accounts`, `MCAccounts` | registration, login and what tokens resolve to |
| `AccountsProofs` | one account per name; answers that are true |
| `Listing`, `MCListing` | a client that pages through a list while others write |
| `ListingProofs` | what the pages may hide or repeat, for lists of any length |
| `Migrations`, `MCMigrations` | the four collaboration revisions, and the applications around them |
| `MigrationsProofs` | no migration loses a fact or users' work; the revision tells the schema |
| `MigratedTablesProofs` | the types of the tables, what the application finds in them, what a refusal is about |

`TaskTransactions` extends `Policies` and instantiates `TaskBoard` as its
abstraction: the three tables are shared, `req` is hidden. `Listing` and `Migrations`
instantiate `TaskBoard` as well: for the first it is what other requests commit
between two pages (which `Refinement` justifies), for the second the writes of the
application of this commit. The limiter runs before
the services and shares no state with them (a 429 leaves the tables alone), so
`RateLimiter` is checked by itself.

Operators named `...Slip` are plausible mistakes in the definition that follows
them, unused by the specifications. Replacing the definition by its slip must make
TLC find the property violated that `PROJECT.json` pairs with it.

### TaskTransactions and the code

State: `creator`, `role`, `task` are the committed tables; `req[r]` is the request a
slot serves, with its session's identity map for membership rows (`seen`), its row
locks (`mlocks`, `tlocks`), the rows a removal's UPDATE has changed (`unassigned`) and how
far its handler is (`pc`). MySQL is modelled by
what the code relies on:

- All plain SELECTs of a transaction see the snapshot taken by its first one. All
  of them come before the first lock or write, so **Begin** reads them in one
  step; nothing depends on a snapshot that a plain SELECT would reread later.
- `SELECT ... FOR UPDATE`, UPDATE, DELETE and INSERT see the latest committed row and
  hold it until the end. Taking one row and reading it is one step, so two
  requests interleave between any two rows: `LockMembership`, `InsertMembership`,
  `UpdateMembership`, `LockTask`, `LockAssignedTask`.
- A lock on an absent membership is a gap lock: shared between readers, it excludes
  only an insertion (`MemberBlockers`).
- Writes become visible at the commit, all together. The UPDATE of tasks and the DELETE of
  the membership in `remove_member` are two steps: `FinishUnassign` keeps what the UPDATE
  has changed in `unassigned`, which no other request sees, `CommitRemoveMember` deletes
  the membership and makes both visible, and a `Fail` in between forgets them. Other
  requests act between the two. A handler's response is built
  before its commit from the row it holds, hence the reply is decided by the
  commit: OK, or 500 when the acknowledgement is lost although it was applied.
- `Fail`: a deadlock victim, a lock wait timeout, a lost connection or a killed
  process rolls back at any point; the locks go with the transaction.

| Endpoint | Actions |
|---|---|
| POST `/workspaces` | `BeginCreateWorkspace`, `CommitCreateWorkspace` |
| POST/PATCH/DELETE `.../members` | `BeginAddMember`, `InsertMembership`, `CommitAddMember`; `BeginUpdateMemberRole`, `UpdateMembership`, `CommitUpdateMemberRole`; `BeginRemoveMember`, `LockMembership`, `LockAssignedTask`*, `FinishUnassign`, `CommitRemoveMember` |
| POST/PATCH/DELETE `.../tasks` | `BeginCreateTask`, `CommitCreateTask`; `BeginUpdateTask`, `LockTask`, `CommitUpdateTask`; `BeginDeleteTask`, `LockTask`, `CommitDeleteTask` |
| PATCH `.../status`, `.../assignee` | `Begin...`, `LockMembership` (actor; actor and target), `LockTask`, `Commit...` |

Checks are chained with `Then` in the order of the code, so an error code is the one
the code answers first. A request that finds nothing to change (same content, same
role, same status, same assignee) answers OK without a commit, and writing nothing
is what SQLAlchemy does there.

An UPDATE by primary key that matches no row raises `StaleDataError` (500); a
DELETE that matches none only warns. `update_member_role` and `update_task` write
rows they never locked before and rely on exactly this.

### RateLimiter and the code

`count` and `ttl` are the Redis key; `Script` is `FIXED_WINDOW_LUA`, atomic as Redis
runs it. `Answered`, `Unanswered` and `Unreachable` are the three outcomes of
`check_key` with what the enforcing dependencies make of them: 503 for
authentication (closed), proceed for writes (open). `LoseExpiry` is the counter
without TTL of `tests/test_rate_limiter.py`. `Restart` forgets all counters, as a Redis
does that keeps nothing on disk (`compose.yml`). `passed`, `restarted` and `due` are
history: what was let through and how often Redis restarted, by age within the last
window, and what a refused client was told. A restart leaves `passed` as it is: what went
through before it counts in every interval that spans it. A tick is half a second,
because TTL answers in rounded seconds.

### Accounts and the code

`users` is the committed table. A registration looks the name up (`BeginRegister`),
inserts (`Insert`: waits for an uncommitted equal name, then fails with 1062 or holds
the index entry), commits, and reads its row back (`Refresh`) before it answers 201.
`Fail` after the commit is the 500 for an account that exists. Names are spellings,
compared by `KeyOf`: the column's collation decides what is equal, in the lookup and in
the unique index alike. `Login` writes nothing and reads one immutable row, so it is
one step; its token carries the stored spelling, which `get_current_user` looks up.
`tokens`, `created` and `lost` are history: tokens issued, and what clients sent who were
told 201, or 500 after the commit. `RateLimiter` runs before both endpoints.

### Listing and the code

`walk` is the client: the query it repeats, its offset, and the page request in
progress. A page request is one transaction of three plain SELECTs (membership, COUNT,
page), all of the snapshot that the first one takes: `FirstPage` and `NextPage` take
it, `CountRows` and `ReadPage` read from it, with `Write` (any step of `TaskBoard`)
between any two. `Selected` is the WHERE, `Before` the ORDER BY of `list_tasks`
(`app/services/task_service.py`, lines 111 to 125):
the sort column, then the id, in the same direction. MySQL returns ties in any
order, so `ReadPage` takes any sequence that respects `Before`; that there is only one is
what the id is for. Stamps are read before the commit: two requests may commit in
the other order, or carry the same, and one removal stamps all its tasks alike.
`steady`, `left` and `entered` are history: the rows that every page found in place, and
whether one has left or come (a row that moves does both).

### Migrations and the code

`revision` is `alembic_version`, `schema` what the revisions add and drop (columns, NOT
NULLs, keys, checks, indexes, the mapping table), `task` and `legacy` the new and the old
columns of a task's row. `pristine` are the tasks whose timestamps are still the
backfill's. `meant` is history: whose a task is and whether it is done, as users last
made it.

| Revision | Actions |
|---|---|
| 9f4c2a7b1d30, d4b6e8f1a203, e5a1c7d9b302 | `StartUpgrade`, `StartDowngrade` (the validations), `RunStatement`* (`ExpandUp`, `ExpandDown`, `ContractUp`, `ContractDown`, `CleanupUp`), `RecordRevision` |
| c1e8d5a4b762 (DML only, one transaction) | `UpgradeToBackfill`, `DowngradeFromBackfill` |
| any | `Crash` between two statements |

`Executable` is what MySQL refuses: a duplicate or missing object, a NOT NULL or CHECK
that a row violates. Dropping a column empties it (`Drop`); the UPDATE of the contract's
downgrade is committed by the ALTER TABLE after it. After a crash or a refusal, anybody may
run any command again, and the new application serves only on the final schema, the
old one (`owner_id`, `completed`) up to the contract. Between commands both write:
`NewAppWrites` is any step of `TaskBoard`, `CreateOldTask`, `SetCompleted` and
`DeleteOldTask` are the old one's, which also creates workspaces and memberships.
During a command nobody writes, as `docs/database-migrations.md` demands.

## 3. Runs

| Run | Instance | Shows |
|---|---|---|
| `assignment` | 3 users (OWNER, ADMIN, MEMBER), 1 task, 2 requests, 4 endpoints | `StatusChangeIsCurrent`, `AssignmentIsCurrent`, `RemovalIsComplete`, `LockedReadsHold`, `OrphanOnlyByReopening`, `DoneKeepsAssignee`, `MembersKeepTasks`, and `BoardSteps` |
| `roles` | 3 users, 3 concurrent requests on memberships | `OwnerIsCreator`, `RemovalRespectsRank`, `LocksExclude`, `WritesAreReady`, `AdminMadeByOwner`, `JoinNeverOverwrites` |
| `lifecycle` | 2 users, 2 task ids, 2 contents, 2 requests | `BoardSteps` for edits and deletions, `AcknowledgedMeansDone` |
| `deadlock` | 2 users, 2 tasks, 3 requests | `NoWaitCycle` |
| `liveness` | 3 users, 1 task, 2 requests | `EveryRequestIsAnswered` |
| `sequential` | all endpoints, 2 workspaces, from empty tables, 1 request at a time | `TypeOK`, `RemovalStaysInWorkspace`, the refinement `BoardSpec` |
| `reopening` | 3 users, 1 task, 1 request | violation of `UnfinishedAssigneeIsMember` (finding) |
| `ratelimit` | a login key and a write key, limit 2, one-second window, one lost expiry, one restart in a window | `TypeOK`, `BoundaryBurst`, `RefusalIsEarned`, `PromiseKept`, `BlockedKeysRecover` |
| `accounts` | 3 names of which 2 compare equal, 2 passwords, 2 requests | `TypeOK`, `CreatedIsTheAccount`, `TokensKeepTheirUser`, `LostAnswersStand`, `EveryRegistrationIsAnswered` |
| `listing` | 2 users, 2 workspaces, 3 tasks, pages of 1 and 2, 2 writes | `PageFitsTotal`, `AdditionsHideNone`, `DeparturesRepeatNone` |
| `migrations` | old databases of up to 2 users and 2 tasks, 3 workspace ids, 2 writes of the applications | `TypeOK`, `NoFactLost`, `RevisionTellsSchema`, `RefusalsAreEarned`, `MigratedTablesAreABoard`, `CommandsKeepUsersWork` |
| `rollback` | an empty database, 1 user, 1 workspace, 1 task, 3 writes | violation of `DowngradesKeepUsersWork` (finding) |

Bounds. Conflicts in this code are between two requests over one or two rows, and
every role relation needs at most an OWNER, an ADMIN and a MEMBER; hence three users,
one or two tasks and two requests, three where a third party can complete a circle
(`deadlock`) or slip between two others (`roles`). A circle needs two rows of a kind or
one of each; the instance has two memberships and two tasks. Request slots are
reused for ever, so histories are not bounded. Ids of tasks and workspaces are used
up: a run ends up with few of them left, and stays interesting because memberships,
statuses and assignees keep changing. `RequestSymmetry` is used only where no liveness
is checked; the view drops the reply of an idle slot, which no action reads
(`AcknowledgedMeansDone` reads the next state's, which a step still shows).
Populated initial states are reachable by the requests of `Init`; they save TLC the
way there.

In `RateLimiter`, `Many` caps the tally of requests per tick at `(2 + MaxRestarts)*Limit` for
login keys and `Limit` for write keys, which is enough to violate what the properties
compare the sums with; `count` stops at `Limit + 1`, beyond which all counters act alike;
`MaxLosses` bounds lost expiries, `MaxRestarts` the restarts that fall into one window (one
in the run, any number in the proofs); after a window Redis may restart again, for ever.

In `Listing`, two writes are enough for a row to come and another to leave between two
pages, or for one to move away and back. The queries are every order without a filter,
and each filter in the default order, members, workspaces; a filter only decides which
rows there are. The tasks start with one stamp, so every sort by time begins with a tie.

In `Migrations`, three workspace ids are the seeded one and two generated ones, or one
that users create; two users and two tasks let mapped and unmapped users, and tasks
of one or of two owners, meet. `MaxEdits` = 2 bounds the writes of the applications,
not the commands: up, down, crash and repetition are unbounded. `rollback` needs three
writes: a registration, a workspace, a task.

What the runs say of the code, as far as it is worth remembering:

- The workflow endpoints and removals decide on current facts because they lock,
  with `populate_existing`, everything they decide on. `update_member_role` does
  not, and is still safe: nobody ever becomes or stops being OWNER, so what it
  checked in its snapshot cannot matter, and an UPDATE without its row fails.
- Ascending order within memberships and within tasks, and memberships before
  tasks, excludes circles.
- `reopening`: `docs/architecture.md:164` says that after a removal no unfinished task
  keeps a valid assignment to a non-member. Finish a task, remove its assignee,
  let a manager reopen it: the task is unfinished and assigned to a user without a
  membership. `OrphanOnlyByReopening` shows that this is the only way there.

- `ratelimit`: "nearly twice the configured limit" is the bound between restarts only. Redis
  keeps nothing on disk, so each restart lets up to `Limit` more through in the window
  around it, and `BoundaryBurst` says that this is all a restart can do.
- Pages are as good as OFFSET and LIMIT can be, and only because every order ends at
  the id: without it equal priorities or stamps suffice to hide a row or show it twice
  although nothing changes. What they cannot give is what the two properties except: a
  row that leaves pulls the next ones over a page border, where the client skips them.
- `migrations`: the order of the scripts is what keeps the facts. The contract drops the
  old columns only after it has compared them with the new; its downgrade fills the old
  ones before anything goes; and a crash between two statements may leave a schema
  that no command accepts, which then needs the repair that the document describes,
  but never a row whose owner or state is gone.
- `rollback`: `docs/database-migrations.md:74` says that the backfill's downgrade refuses
  as soon as it finds later business changes, so that no collaboration data is
  deleted by mistake. `_validate_downgrade` of c1e8d5a4b762 looks at the rows of the mapping
  only. A user who registers on the contracted schema is not in it: three downgrades
  are accepted, and the last drops `workspace_id`, `assignee_id` and `status` of this user's
  tasks with the data in them.

### The contract

`TaskBoard` gives each request as one atomic change of the tables. Status changes
and assignments must be allowed by the roles of the very state they start in. The
other steps only say what may happen to the tables: their authorization is older
(`docs/architecture.md`, "in-flight requests": a revocation does not stop a request
that has already been authorized). `BoardSteps` is the step half of the refinement
from populated states with concurrent requests, `BoardSpec` all of it from `Init`.

### Fairness

- `SF_vars(LockStep(r))`: InnoDB queues the waiters of a row and grants in order, so
  a lock that is released again and again is eventually granted to each. Weak
  fairness would allow a waiter to be overtaken for ever, which a queue does not.
- `WF_vars(FinishUnassign(r))`, `WF_vars(Commit(r))`: nothing blocks these; the worker
  thread runs on.
- None for Begin (clients need not call) and none for `Fail`: requests are answered
  without the lock wait timeout and without deadlock detection.
- `Accounts!FairSpec`: `SF_vars(Insert(r))` for the queue of an index entry, WF for the rest
  of the handler; none for `Fail`.
- `RetryingSpec`: the clock ticks, and a client keeps calling and reaches Redis; no
  fairness for losses, restarts or failures.
- None in `Listing` and `Migrations`: clients may stop paging, and operators may stop
  anywhere; what matters there is safety.

## 4. Proofs

The theorems about requests hold for any sets of users, workspaces, tasks, contents
and request slots, of any size, under `ConstantsAssumption` (ids are positive numbers, as
AUTO_INCREMENT gives them, and no content is the one of an empty row); those of the
limiter for any limit and window of at least 1 under `RateLimiterAssumption`; those of the
migrations for any old database, under the `ConstantsAssumption` of `Migrations`, which
adds that there are finitely many task ids (they are INTEGER columns): the backfill
records the number and the greatest of them. Every invariant and every property of steps
that a passing run checks is also a theorem.

**TaskTransactionsProofs.** The inductive invariant is
`IInv == TypeOK /\ LocksExclude /\ WritesAreReady /\ IdsAreKnown /\ OwnerIsCreator`,
where `IdsAreKnown` is defined beside the proofs: requests in flight speak of workspaces
that exist, and the id an INSERT drew is its own.
None of the five is inductive alone: a commit keeps the rows well formed only if the
row it writes is still there (`WritesAreReady`); that holds because whoever could
take the row away must hold it too (`LocksExclude`); and the owner stays because a
role change or removal is never about an OWNER at its commit (`WritesAreReady`) and a
workspace's first membership is its creator's (`IdsAreKnown`). The argument is cut in
three: `BeginEffect`, `LockEffect` and `CommitEffect` say what a step does,
`StepCases` says that a step is quiet (one request changes, no table) or a commit, and
each conjunct is then kept by quiet steps and by commits.
Theorems: `TypeCorrect`, `OneOwner`, `MutualExclusion`, `CheckedRowsStay`.

Its second part is about what requests decide on. On top of `IInv`,
`Current == LockedReadsHold /\ ChecksHold /\ RankHolds` is inductive: a commit of one
request changes no membership another has read FOR UPDATE (`CommitKeepsLockedRole`)
and no live task it does not hold (`CommitKeepsTask`), so the outcome of the checks a
handler made on its locked rows is the outcome they would have at its commit.
Theorems: `ReadsHold`, `StatusChangesAreCurrent`, `AssignmentsAreCurrent`,
`RemovalsRespectRank`.

**RefinementProofs.** `Held == IInv /\ Current /\ Flights` adds what is true of requests
in flight: a removal's locked tasks are of its workspace and, once its UPDATE is
through, are all that are assigned to the leaving member (an assignment to that
member would hold the membership that the removal holds, `NoneAssignedBehind`), so that at
its commit the tasks its UPDATE has changed are exactly the unfinished ones among them
(`UnassignedAtCommit`); whoever
makes an ADMIN is the creator; and a request has no reply yet. `CommitRow` and
`CommitRoles` say what a commit writes, so a property of steps is read off the commit:
`RemovalsAreComplete`, `RemovalsStayInWorkspace`, `AdminsAreMadeByOwner`,
`JoinsNeverOverwrite`, `DoneTasksKeepAssignee`, `TasksStayWithMembers`,
`OrphansByReopeningOnly`, `AcknowledgementsAreTrue`.

`NoDeadlock` is about circles of any length. `Queues` says that a request locks the
memberships it wants in ascending order and has one to go while it waits (`LocksAscend`),
and that finitely many slots are busy. A request that holds a task and still
waits is a removal, which takes its tasks in ascending order; whoever waits for a task in a
circle waits for such a removal, and the one of them that waits for the greatest id
waits for a task behind which nobody waits (`NoneWaitsForTask`). So a circle is one of
requests that wait for memberships. Take the one that waits for the greatest user id
(`Greatest`): whoever holds that row waits for a greater one. Contradiction.

`BoardStepsOnly` maps each commit to the step of
`TaskBoard` with the same name, whose guards `Current` supplies, and every other step to
a stutter; `Refinement` is `Spec => BoardSpec`.

**RateLimiterProofs.** `IInv == TypeOK /\ Promises`, where `Promises` adds to
`PromiseKept` that a promise is only outstanding for a counter that exists and expires:
without that a counter without expiry would break the promise at its repair.
The tallies of the last window are summed by the recursive function `Totals`; that a sum
is monotone, shifts with the clock and grows by what a call adds are lemmas by induction
over the age. `Bursts`: over the last ticks, however few, earlier counters let through
less than `Limit`, and `Limit` more for each restart since (`Forgotten`: a restart turns what
the present counter has granted into something an earlier one has let through); and the
first call of the present counter is as old as its expiry says, so that it has left the
window when the next counter begins. The present counter grants `Limit` at most, which
makes `2 * Limit - 1`, and `Limit` for each restart in the window.
`Earned`: a counter that kept its expiry has let through, since it began, as many as it
counts, up to `Limit`.
Theorems: `TypeCorrect`, `RetryAfterIsKept`, `BurstIsBounded`, `RefusalsAreEarned`.

**AccountsProofs.** For every collation, `IInv` says that rows have distinct names,
that an inserted row is alone with its name, committed or not (`InsertedAlone`, which is
what makes its commit safe), and that what was confirmed or got a token is in the
table. `Apart`, on top of it, is about lost answers: the account of one stands, is that of
no registration still in flight, and no name that was confirmed equals it. A commit
cannot make a second account of that name (`InsertedAlone`), whoever looked it up when.
Assumption: `EmptyValuesAssumption`, that no real name, password or id is the one of an
idle slot. Theorems: `TypeCorrect`, `OneAccount`, `TokensResolve`,
`LostAnswersHold`.

**ListingProofs.** The argument is about ranks: the rank of a row is the number of rows
before it. `Before` is a strict total order, so in the one sequence that respects it the
row at place *i* has rank *i - 1* (`Places`) and a page holds the ranks from its offset up to
its limit. While no row leaves, ranks only grow: a steady row that has not been
shown yet stays ahead of the client (`StillAhead`). While no row comes, ranks only
shrink: what is ahead comes after everything shown (`ShownFirst`, `InOrder`). Assumption:
the tables are finite. Theorems: `PagesFit`, `NoneHidden`, `NoneRepeated`.

**MigrationsProofs.** `IInv == Rows /\ Facts /\ Columned /\ Running`. `Facts`: what a row says is
true where it says anything; before the contract the old columns that exist say all;
from the contract on, and while its upgrade runs or has been interrupted after it
dropped one, the new columns say all. The last case is why `NoFactLost` is not inductive.
`Columned`: a column that is not there is empty. `Running`: how far the contract's
downgrade is, whose last part must have filled the old columns. The scripts are
sequences of statements of a few kinds (`ExpandUpAdds`, `ExpandDownDrops`,
`ContractUpStatements`, `ContractDownStatements`), and each kind keeps the facts:
`FactsAreKept`. From the backfill on no statement touches a row but the UPDATE that fills
the old columns (`LateStatement`), and the backfill's downgrade empties only rows that
its checks have found as the backfill left them (`UndoKeepsWork`): `UsersKeepTheirWork`.

What a script does to the schema is said by `Halfway(s, k, S)`, the schema after *k - 1* of its
statements. A script is `Sound(s, S, T)` when each statement finds the object it drops, or
misses the one it adds, in the schema that its predecessors leave, nothing comes back
that was dropped, and the end is T. Adding, dropping and joining sequences keep
soundness (`AddingSound`, `DroppingSound`, `JoinedSound`), so `ScriptsSound` follows from
which objects the revisions name, each once (`Parts`). With the invariant `Staged`, that
the schema is `Halfway` where the running command is and that rows fit what a running
contract still adds, no statement is refused (`NoneRefused`): `SchemaIsTold`.

**MigratedTablesProofs.** Four invariants on top of each other:

- `Typed`, row by row; with `IInv` it gives `TypesHold`.
- `Owners /\ GoodRows`: from the start of the contract on every live row is one of an existing
  workspace, creator, status and valid content. The contract's checks establish it
  (`ContractChecks`), the writes of the application keep it, and the downgrade to
  the backfill ends the time it is about: `BoardsAreFound`.
- `Linked`: members, creators, assignees and owners are accounts, and whoever is mapped made
  the workspace of the mapping. No downgrade but the backfill's removes a workspace or a
  mapping, and that one removes both.
- `Untouched`: while nobody writes and nothing crashes, the rows are as the backfill filled
  them, the mapping counts exactly them, and a mapped user is alone in the mapped
  workspace. The contract's downgrade restores what the backfill had read.

`RefusalsHaveReasons` then goes through the ways to be refused. The cleanup finds what it
looks for after any writes, because it compares the mapping only with accounts and
workspaces (`CleanupPossible`, from `Linked` and `GoodRows`); the contract and the
backfill's downgrade find it when nobody wrote (`ContractPossible`, `UndoPossible`, from
`Untouched`); the backfill passes its own checks (`BackfillPossible`); statements are never refused.

Only model-checked: liveness (`EveryRequestIsAnswered`, `BlockedKeysRecover`,
`EveryRegistrationIsAnswered`), which is out of the prover's reach. The two `violation` runs
check properties that do not hold; what does hold in their place is proved
(`OrphansByReopeningOnly` and `UsersKeepTheirWork`).

## 5. Not modelled, and why

- **Secondary index locks.** InnoDB also locks entries of `ix_tasks_assignee_id` and the
  like, gaps wider than one key, and foreign key parents. They only make requests wait
  or fail more; a deadlock they cause is a `Fail`. `NoWaitCycle` is therefore about the
  rows the code locks, not about every lock InnoDB takes.
- **Id reuse.** AUTO_INCREMENT ids are not used twice; a rolled back insert gives its id
  back in the model, which no request can observe.
- **Adding an unknown user** (`USER_NOT_FOUND`) and wrong ids: `Users` are registered
  and never deleted by any endpoint; a workspace or task id that does not exist answers
  like one the caller cannot see.
- **429 and 401** before a service runs: they leave the tables alone.
- **Tokens' signatures and expiry**, which refuse a request before it reads anything.
- **Reading one task or workspace**: one snapshot, one row; what it may show is what
  the dependencies decide for every other request.
- **Baseline revisions** (b8e33b316aab, 8c5960f0109e, 3a1d4e6f8b20, 6c2f9a4d7e31): they
  create the tables that `Migrations` starts from, and have no data to keep.
- **Writes during a migration**, which `docs/database-migrations.md` forbids, and Alembic's
  offline mode, which prints SQL and changes nothing.
- **Workspace names and timestamps of workspaces and memberships** in the checks of
  the backfill's downgrade: no request changes the row of a workspace, and a membership
  that was written to is refused for its role already.
- **IN_PROGRESS after a downgrade of the contract**: its validation accepts it as
  `completed = false`, but the checks of the contract and of the backfill's downgrade
  refuse the row until somebody repairs it, as the integration test acknowledges; the
  model refuses it in both, and the recount of NULLs in that downgrade is the NOT NULL
  statements that follow it.
- **HTTP layer**: validation messages, log lines, settings; schemas bound the values
  requests carry, routers are the Begin actions.

## 6. Plan

1. Sharper properties where the present ones leave room: what a crash in the middle of a
   script leaves behind (which objects exist, and that a repair by hand can always reach
   one of two schemas), and that a backfill after its downgrade reproduces its tables.
2. `Accounts` as a refinement of an abstract registry (one atomic claim of a name), as
   `TaskTransactions` is of `TaskBoard`.
3. Token signatures and expiry in `Accounts`, once a refresh or revocation of tokens
   exists that could race with them.
