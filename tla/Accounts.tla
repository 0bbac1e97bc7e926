------------------------------- MODULE Accounts -------------------------------
(***************************************************************************)
(* Registration and login: app/services/user_service.py behind the routes  *)
(* of app/routers/users.py, with the passwords and tokens of               *)
(* app/security.py and the authentication of app/dependencies.py.          *)
(*                                                                         *)
(* A registration looks the name up in its snapshot, inserts the row,      *)
(* commits, and only then reads the row back.  The unique index on         *)
(* username decides who wins: an INSERT waits for the transaction that has *)
(* inserted an equal name and not committed it.                            *)
(*                                                                         *)
(* Operators whose names end in "Slip" are plausible mistakes in the       *)
(* definition that follows them; the specification does not use them.      *)
(***************************************************************************)
EXTENDS Naturals

CONSTANTS
  Names,      \* spellings of usernames that clients use
  KeyOf,      \* spelling -> what the column's collation compares it by
  Passwords,
  Ids,        \* user ids; one that a rollback gives up may be drawn again
  Requests    \* request slots: a slot serves one request after another

ASSUME AccountsAssumption == KeyOf \in [Names -> {KeyOf[n] : n \in Names}]

NoName == "none"
NoPassword == "none"
NoId == 0

ASSUME EmptyValuesAssumption ==
  NoName \notin Names /\ NoPassword \notin Passwords /\ NoId \notin Ids

VARIABLES
  users,    \* the rows of the users table
  tokens,   \* the tokens issued so far, with the user who logged in
  created,  \* history: what was sent by clients who were told 201
  lost,     \* history: what was sent by clients who were told 500 after the commit
  req       \* request slot -> the registration it serves

vars == <<users, tokens, created, lost, req>>

-----------------------------------------------------------------------------
(* Passwords and rows.                                                     *)

Hash(plain) == [hash |-> plain]
Verify(plain, hashed) == hashed = Hash(plain)

UserRows == [id : Ids, username : Names, hashed_password : {Hash(p) : p \in Passwords}]

\* User.username == name
Matches(row, name) == KeyOf[row.username] = KeyOf[name]
Taken(name) == \E row \in users : Matches(row, name)

-----------------------------------------------------------------------------
(* Requests.                                                               *)

PC == {"idle", "insert", "inserted", "refresh"}
Replies == {"NONE", "CREATED", "USERNAME_ALREADY_EXISTS", "INTERNAL_SERVER_ERROR"}

Idle(reply) ==
  [pc |-> "idle", name |-> NoName, password |-> NoPassword, id |-> NoId, reply |-> reply]

Looked(n, p) ==
  [pc |-> "insert", name |-> n, password |-> p, id |-> NoId, reply |-> "NONE"]

Sent(q) == [name |-> q.name, password |-> q.password]

NewUser(q) ==
  [id |-> q.id, username |-> q.name, hashed_password |-> Hash(q.password)]

Answer(r, reply) == req' = [req EXCEPT ![r] = Idle(reply)]

\* get_user_by_username before anything is written.
BeginRegister(r, n, p) ==
  /\ req[r].pc = "idle"
  /\ req' = [req EXCEPT ![r] = IF Taken(n) THEN Idle("USERNAME_ALREADY_EXISTS") ELSE Looked(n, p)]
  /\ UNCHANGED <<users, tokens, created, lost>>

\* The others whose INSERT of an equal name is not committed yet.
HoldersSlip(r) == {}

\* As if the lookup locked the absent name: every INSERT waits for the other's gap.
HoldersGapSlip(r) ==
  {s \in Requests \ {r} :
     req[s].pc \in {"insert", "inserted"} /\ KeyOf[req[s].name] = KeyOf[req[r].name]}

Holders(r) ==
  {s \in Requests \ {r} : req[s].pc = "inserted" /\ KeyOf[req[s].name] = KeyOf[req[r].name]}

\* IntegrityError, which create_user takes for a name that is taken.
DuplicateSlip(r) == \E row \in users : row.username = req[r].name

Duplicate(r) == Taken(req[r].name)

FreeIds == Ids \ ({row.id : row \in users} \cup {req[s].id : s \in Requests})

InsertedSlip(q, i) == [q EXCEPT !.pc = "inserted"]

Inserted(q, i) == [q EXCEPT !.pc = "inserted", !.id = i]

Insert(r) ==
  /\ req[r].pc = "insert"
  /\ Holders(r) = {}
  /\ \/ Duplicate(r) /\ Answer(r, "USERNAME_ALREADY_EXISTS")
     \/ ~Duplicate(r) /\ \E i \in FreeIds : req' = [req EXCEPT ![r] = Inserted(req[r], i)]
  /\ UNCHANGED <<users, tokens, created, lost>>

\* The commit is applied; its acknowledgement may be lost.
Commit(r) ==
  /\ req[r].pc = "inserted"
  /\ users' = users \cup {NewUser(req[r])}
  /\ \/ req' = [req EXCEPT ![r].pc = "refresh"] /\ UNCHANGED lost
     \/ Answer(r, "INTERNAL_SERVER_ERROR") /\ lost' = lost \cup {Sent(req[r])}
  /\ UNCHANGED <<tokens, created>>

\* db.refresh finds the row in a new transaction, and the client is told 201.
Refresh(r) ==
  /\ req[r].pc = "refresh"
  /\ NewUser(req[r]) \in users
  /\ created' = created \cup {Sent(req[r])}
  /\ Answer(r, "CREATED")
  /\ UNCHANGED <<users, tokens, lost>>

\* A database error or a killed process at any point; after the commit the row stays.
Fail(r) ==
  /\ req[r].pc # "idle"
  /\ lost' = IF req[r].pc = "refresh" THEN lost \cup {Sent(req[r])} ELSE lost
  /\ Answer(r, "INTERNAL_SERVER_ERROR")
  /\ UNCHANGED <<users, tokens, created>>

\* authenticate_user and create_access_token: the token names the stored spelling.
Login(n, p) ==
  /\ \E row \in users :
       /\ Matches(row, n)
       /\ Verify(p, row.hashed_password)
       /\ tokens' = tokens \cup {[sub |-> row.username, user |-> row.id]}
  /\ UNCHANGED <<users, created, lost, req>>

\* get_current_user: the users a token may be taken for.
CurrentUsers(token) == {row.id : row \in {x \in users : Matches(x, token.sub)}}

-----------------------------------------------------------------------------
Init ==
  /\ users = {} /\ tokens = {} /\ created = {} /\ lost = {}
  /\ req = [r \in Requests |-> Idle("NONE")]

Next ==
  \/ \E r \in Requests :
       \/ \E n \in Names, p \in Passwords : BeginRegister(r, n, p)
       \/ Insert(r)
       \/ Commit(r)
       \/ Refresh(r)
       \/ Fail(r)
  \/ \E n \in Names, p \in Passwords : Login(n, p)

Spec == Init /\ [][Next]_vars

\* InnoDB serves the waiters of an index entry in turn; a worker thread runs on.
FairSpec ==
  /\ Spec
  /\ \A r \in Requests : SF_vars(Insert(r)) /\ WF_vars(Commit(r)) /\ WF_vars(Refresh(r))

-----------------------------------------------------------------------------
(* Properties.                                                             *)

\* Rows, tokens and requests are well formed.
TypeOK ==
  /\ users \subseteq UserRows
  /\ tokens \subseteq [sub : Names, user : Ids]
  /\ created \subseteq [name : Names, password : Passwords]
  /\ lost \subseteq [name : Names, password : Passwords]
  /\ req \in [Requests -> [pc : PC, name : Names \cup {NoName},
                           password : Passwords \cup {NoPassword},
                           id : Ids \cup {NoId}, reply : Replies]]
  /\ \A r \in Requests :
       /\ req[r].pc = "idle" <=> req[r].name = NoName
       /\ req[r].pc = "idle" <=> req[r].password = NoPassword
       /\ req[r].pc \in {"inserted", "refresh"} <=> req[r].id # NoId

\* Of any number of racing registrations of one name, in whatever spelling, one is
\* told 201 at most, and the account is that client's: nobody else's password is on it.
CreatedIsTheAccount ==
  \A c \in created :
    \E account \in users :
      /\ account.username = c.name
      /\ Verify(c.password, account.hashed_password)
      /\ \A row \in users : Matches(row, c.name) => row = account

\* A token means the same user for as long as it is used, although it carries a
\* name and not an id.
TokensKeepTheirUser == \A t \in tokens : CurrentUsers(t) = {t.user}

\* A registration whose client was told 500 after the commit stands: what the client
\* sent logs it in, and neither a repetition nor anybody else is ever told 201 for
\* that name, in whatever spelling and however late the other's lookup was.
LostAnswersStand ==
  \A l \in lost :
    /\ \E account \in users :
         account.username = l.name /\ Verify(l.password, account.hashed_password)
    /\ \A c \in created : KeyOf[c.name] # KeyOf[l.name]

\* Every registration is answered although it waits for others of the same name.
EveryRegistrationIsAnswered ==
  \A r \in Requests : req[r].pc # "idle" ~> req[r].pc = "idle"
=============================================================================
