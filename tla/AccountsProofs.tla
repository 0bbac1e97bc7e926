---------------------------- MODULE AccountsProofs ----------------------------
(***************************************************************************)
(* One account per name, for every collation, set of names, passwords and  *)
(* ids, and any number of concurrent registrations.                        *)
(***************************************************************************)
EXTENDS Accounts, TLAPS

\* No two rows have equal names.
OneRowPerName ==
  \A x, y \in users : KeyOf[x.username] = KeyOf[y.username] => x = y

\* An inserted row is the only one of its name, committed or not.
InsertedAlone ==
  \A r \in Requests :
    req[r].pc = "inserted" =>
      /\ ~Taken(req[r].name)
      /\ \A s \in Requests \ {r} :
           req[s].pc = "inserted" => KeyOf[req[s].name] # KeyOf[req[r].name]

\* What is read back, was confirmed, or got a token is in the table.
RowsStay ==
  /\ \A r \in Requests : req[r].pc = "refresh" => NewUser(req[r]) \in users
  /\ \A c \in created : \E row \in users :
       row.username = c.name /\ row.hashed_password = Hash(c.password)
  /\ \A t \in tokens : \E row \in users : row.username = t.sub /\ row.id = t.user

IInv == TypeOK /\ OneRowPerName /\ InsertedAlone /\ RowsStay

\* Every step keeps the types.
LEMMA TypeStep ==
  ASSUME EmptyValuesAssumption, TypeOK, Next
  PROVE  TypeOK'
<1> DEFINE State == [pc : PC, name : Names \cup {NoName}, password : Passwords \cup {NoPassword},
                     id : Ids \cup {NoId}, reply : Replies]
           Fits(q) == /\ q \in State
                      /\ q.pc = "idle" <=> q.name = NoName
                      /\ q.pc = "idle" <=> q.password = NoPassword
                      /\ q.pc \in {"inserted", "refresh"} <=> q.id # NoId
<1>1. \A s \in Requests : Fits(req[s])
  BY DEF TypeOK
<1>2. \A reply \in Replies : Fits(Idle(reply))
  BY DEF Idle, PC
<1>3. ASSUME NEW r \in Requests, NEW q, Fits(q), req' = [req EXCEPT ![r] = q]
      PROVE  /\ req' \in [Requests -> State]
             /\ \A s \in Requests : Fits(req'[s])
  <2>1. \A s \in Requests : req'[s] = IF s = r THEN q ELSE req[s]
    BY <1>3 DEF TypeOK
  <2> QED BY <1>1, <1>3, <2>1 DEF TypeOK
<1>11. ASSUME NEW r \in Requests, req[r].pc # "idle"
       PROVE  Sent(req[r]) \in [name : Names, password : Passwords]
  <2>1. req[r].name \in Names /\ req[r].password \in Passwords
    BY <1>1, <1>11
  <2> QED BY <2>1 DEF Sent
<1>4. ASSUME NEW r \in Requests, NEW n \in Names, NEW p \in Passwords, BeginRegister(r, n, p)
      PROVE  TypeOK'
  <2> DEFINE q == IF Taken(n) THEN Idle("USERNAME_ALREADY_EXISTS") ELSE Looked(n, p)
  <2>1. Fits(Looked(n, p))
    BY EmptyValuesAssumption DEF Looked, PC, Replies, EmptyValuesAssumption
  <2>2. Fits(q) /\ req' = [req EXCEPT ![r] = q] /\ UNCHANGED <<users, tokens, created, lost>>
    BY <1>2, <1>4, <2>1 DEF BeginRegister, Replies
  <2> QED BY <1>3, <2>2 DEF TypeOK
<1>5. ASSUME NEW r \in Requests, NEW reply \in Replies, Answer(r, reply)
      PROVE  /\ req' \in [Requests -> State]
             /\ \A s \in Requests : Fits(req'[s])
  BY <1>2, <1>3, <1>5 DEF Answer
<1>6. ASSUME NEW r \in Requests, Insert(r)
      PROVE  TypeOK'
  <2>1. CASE Answer(r, "USERNAME_ALREADY_EXISTS")
    BY <1>5, <1>6, <2>1 DEF Insert, TypeOK, Replies
  <2>2. CASE \E i \in FreeIds : req' = [req EXCEPT ![r] = Inserted(req[r], i)]
    <3>1. PICK i \in FreeIds : req' = [req EXCEPT ![r] = Inserted(req[r], i)]
      BY <2>2
    <3>2. Fits(Inserted(req[r], i))
      BY <1>1, <1>6 DEF Insert, Inserted, FreeIds, PC, EmptyValuesAssumption
    <3> QED BY <1>3, <1>6, <3>1, <3>2 DEF Insert, TypeOK
  <2> QED BY <1>6, <2>1, <2>2 DEF Insert
<1>7. ASSUME NEW r \in Requests, Commit(r)
      PROVE  TypeOK'
  <2>1. NewUser(req[r]) \in UserRows
    <3>1. Fits(req[r]) /\ req[r].pc = "inserted"
      BY <1>1, <1>7 DEF Commit
    <3>2. req[r].id \in Ids /\ req[r].name \in Names /\ req[r].password \in Passwords
      BY <3>1
    <3> QED BY <3>2 DEF NewUser, UserRows
  <2>4. Sent(req[r]) \in [name : Names, password : Passwords]
    BY <1>7, <1>11 DEF Commit
  <2>2. CASE Answer(r, "INTERNAL_SERVER_ERROR") /\ lost' = lost \cup {Sent(req[r])}
    BY <1>5, <1>7, <2>1, <2>2, <2>4 DEF Commit, TypeOK, Replies
  <2>3. CASE req' = [req EXCEPT ![r].pc = "refresh"] /\ UNCHANGED lost
    <3> DEFINE q == [req[r] EXCEPT !.pc = "refresh"]
    <3>1. Fits(q)
      BY <1>1, <1>7 DEF Commit, PC
    <3>2. req' = [req EXCEPT ![r] = q]
      BY <2>3 DEF TypeOK
    <3> HIDE DEF q
    <3> QED BY <1>3, <1>7, <2>1, <2>3, <3>1, <3>2 DEF Commit, TypeOK
  <2> QED BY <1>7, <2>2, <2>3 DEF Commit
<1>8. ASSUME NEW r \in Requests, Refresh(r)
      PROVE  TypeOK'
  <2>1. Sent(req[r]) \in [name : Names, password : Passwords]
    BY <1>8, <1>11 DEF Refresh
  <2> QED BY <1>5, <1>8, <2>1 DEF Refresh, TypeOK, Replies
<1>9. ASSUME NEW r \in Requests, Fail(r)
      PROVE  TypeOK'
  BY <1>5, <1>9, <1>11 DEF Fail, TypeOK, Replies
<1>10. ASSUME NEW n \in Names, NEW p \in Passwords, Login(n, p)
       PROVE  TypeOK'
  BY <1>10 DEF Login, TypeOK, UserRows
<1> QED BY <1>4, <1>6, <1>7, <1>8, <1>9, <1>10 DEF Next

\* A commit adds the only row of its name.
LEMMA CommitAddsOneRow ==
  ASSUME IInv, NEW r \in Requests, Commit(r)
  PROVE  OneRowPerName'
<1>1. \A row \in users : KeyOf[row.username] # KeyOf[req[r].name]
  BY DEF IInv, InsertedAlone, Commit, Taken, Matches
<1>2. users' = users \cup {NewUser(req[r])} /\ NewUser(req[r]).username = req[r].name
  BY DEF Commit, NewUser
<1> QED BY <1>1, <1>2 DEF IInv, OneRowPerName

\* An insertion is the only one of its name, and stays so until its end.
LEMMA InsertedAloneStep ==
  ASSUME IInv, Next
  PROVE  InsertedAlone'
<1> USE DEF IInv, TypeOK
<1> DEFINE Quiet(r, q) == req' = [req EXCEPT ![r] = q] /\ UNCHANGED users
<1>1. ASSUME NEW r \in Requests, NEW q, q.pc # "inserted", Quiet(r, q)
      PROVE  InsertedAlone'
  <2>1. \A s \in Requests : req'[s] = IF s = r THEN q ELSE req[s]
    BY <1>1
  <2> QED BY <1>1, <2>1 DEF InsertedAlone, Taken, Matches
<1>2. ASSUME NEW r \in Requests, NEW reply, Answer(r, reply), UNCHANGED users
      PROVE  InsertedAlone'
  BY <1>1, <1>2 DEF Answer, Idle
<1>3. ASSUME NEW r \in Requests, NEW n \in Names, NEW p \in Passwords, BeginRegister(r, n, p)
      PROVE  InsertedAlone'
  BY <1>1, <1>3 DEF BeginRegister, Idle, Looked
<1>4. ASSUME NEW r \in Requests, Insert(r)
      PROVE  InsertedAlone'
  <2>1. CASE Answer(r, "USERNAME_ALREADY_EXISTS")
    BY <1>2, <1>4, <2>1 DEF Insert
  <2>2. CASE ~Duplicate(r) /\ \E i \in FreeIds : req' = [req EXCEPT ![r] = Inserted(req[r], i)]
    <3>1. PICK i \in FreeIds : req' = [req EXCEPT ![r] = Inserted(req[r], i)]
      BY <2>2
    <3>2. Inserted(req[r], i).name = req[r].name
      BY DEF Inserted
    <3>3. \A s \in Requests : req'[s] = IF s = r THEN Inserted(req[r], i) ELSE req[s]
      BY <3>1
    <3>4. \A s \in Requests : req'[s].name = req[s].name
      BY <3>2, <3>3
    <3>5. \A s \in Requests : s # r => req'[s].pc = req[s].pc
      BY <3>3
    <3>6. /\ ~Taken(req[r].name)
          /\ \A s \in Requests \ {r} :
               req[s].pc = "inserted" => KeyOf[req[s].name] # KeyOf[req[r].name]
      BY <1>4, <2>2 DEF Insert, Holders, Duplicate
    <3> QED BY <1>4, <3>4, <3>5, <3>6 DEF InsertedAlone, Insert, Taken, Matches
  <2> QED BY <1>4, <2>1, <2>2 DEF Insert
<1>5. ASSUME NEW r \in Requests, Commit(r)
      PROVE  InsertedAlone'
  <2>1. \A s \in Requests : s # r => req'[s] = req[s]
    BY <1>5 DEF Commit, Answer
  <2>2. req'[r].pc # "inserted" /\ req[r].pc = "inserted"
    BY <1>5 DEF Commit, Answer, Idle
  <2>3. users' = users \cup {NewUser(req[r])} /\ NewUser(req[r]).username = req[r].name
    BY <1>5 DEF Commit, NewUser
  <2> QED BY <2>1, <2>2, <2>3 DEF InsertedAlone, Taken, Matches
<1>6. ASSUME NEW r \in Requests, Refresh(r) \/ Fail(r)
      PROVE  InsertedAlone'
  BY <1>2, <1>6 DEF Refresh, Fail
<1>7. ASSUME NEW n \in Names, NEW p \in Passwords, Login(n, p)
      PROVE  InsertedAlone'
  BY <1>7 DEF Login, InsertedAlone, Taken, Matches
<1> QED BY <1>3, <1>4, <1>5, <1>6, <1>7 DEF Next

\* Rows are never removed, and only a committed row is confirmed or gets a token.
LEMMA RowsStayStep ==
  ASSUME IInv, Next
  PROVE  RowsStay'
<1> USE DEF IInv, TypeOK
<1>1. users \subseteq users'
  BY DEF Next, BeginRegister, Insert, Commit, Refresh, Fail, Login
<1>2. ASSUME NEW r \in Requests, NEW q, req' = [req EXCEPT ![r] = q],
             q.pc = "refresh" => NewUser(q) \in users', UNCHANGED <<tokens, created>>
      PROVE  RowsStay'
  <2>1. \A s \in Requests : req'[s] = IF s = r THEN q ELSE req[s]
    BY <1>2
  <2> QED BY <1>1, <1>2, <2>1 DEF RowsStay, NewUser
<1>3. ASSUME NEW r \in Requests, NEW reply, Answer(r, reply), UNCHANGED <<tokens, created>>
      PROVE  RowsStay'
  BY <1>2, <1>3 DEF Answer, Idle
<1>4. ASSUME NEW r \in Requests, NEW n \in Names, NEW p \in Passwords, BeginRegister(r, n, p)
      PROVE  RowsStay'
  BY <1>2, <1>4 DEF BeginRegister, Idle, Looked
<1>5. ASSUME NEW r \in Requests, Insert(r)
      PROVE  RowsStay'
  <2>1. \A i : Inserted(req[r], i).pc = "inserted"
    BY DEF Inserted
  <2> QED BY <1>2, <1>3, <1>5, <2>1 DEF Insert
<1>6. ASSUME NEW r \in Requests, Commit(r)
      PROVE  RowsStay'
  <2>1. CASE req' = [req EXCEPT ![r].pc = "refresh"]
    <3> DEFINE q == [req[r] EXCEPT !.pc = "refresh"]
    <3>1. req' = [req EXCEPT ![r] = q] /\ NewUser(q) = NewUser(req[r])
      BY <2>1 DEF NewUser
    <3> QED BY <1>2, <1>6, <3>1 DEF Commit
  <2> QED BY <1>3, <1>6, <2>1 DEF Commit
<1>7. ASSUME NEW r \in Requests, Refresh(r)
      PROVE  RowsStay'
  <2>1. NewUser(req[r]) \in users
    BY <1>7 DEF Refresh, RowsStay
  <2>2. \E row \in users : row.username = req[r].name /\ row.hashed_password = Hash(req[r].password)
    BY <2>1 DEF NewUser
  <2>3. \A s \in Requests : req'[s].pc = "refresh" => req'[s] = req[s]
    BY <1>7 DEF Refresh, Answer, Idle
  <2> QED BY <1>7, <2>2, <2>3 DEF Refresh, RowsStay, Sent
<1>8. ASSUME NEW r \in Requests, Fail(r)
      PROVE  RowsStay'
  BY <1>3, <1>8 DEF Fail
<1>9. ASSUME NEW n \in Names, NEW p \in Passwords, Login(n, p)
      PROVE  RowsStay'
  BY <1>9 DEF Login, RowsStay
<1> QED BY <1>4, <1>5, <1>6, <1>7, <1>8, <1>9 DEF Next

\* Every step, with its stutters, keeps the inductive invariant.
LEMMA StepIInv ==
  ASSUME EmptyValuesAssumption, IInv, [Next]_vars
  PROVE  IInv'
<1>1. CASE UNCHANGED vars
  BY <1>1 DEF vars, IInv, TypeOK, OneRowPerName, InsertedAlone, RowsStay, Taken, Matches
<1>2. CASE Next
  <2>1. OneRowPerName'
    <3>1. CASE UNCHANGED users
      BY <3>1 DEF IInv, OneRowPerName
    <3> QED
      BY <1>2, <3>1, CommitAddsOneRow DEF Next, BeginRegister, Insert, Refresh, Fail, Login
  <2> QED BY <1>2, <2>1, TypeStep, InsertedAloneStep, RowsStayStep DEF IInv
<1> QED BY <1>1, <1>2

\* Every reachable state satisfies the inductive invariant.
THEOREM Invariance == Spec => []IInv
<1>1. Init => IInv
  BY EmptyValuesAssumption
  DEF Init, IInv, TypeOK, OneRowPerName, InsertedAlone, RowsStay, Idle, PC, Replies
<1>2. IInv /\ [Next]_vars => IInv'
  BY StepIInv, EmptyValuesAssumption
<1> QED BY <1>1, <1>2, PTL DEF Spec

\* The client that is told 201 has the only account of its name, under its own
\* password, however many registrations of the name race (create_user).
THEOREM OneAccount == Spec => []CreatedIsTheAccount
<1>1. IInv => CreatedIsTheAccount
  BY DEF IInv, RowsStay, OneRowPerName, CreatedIsTheAccount, Verify, Matches
<1> QED BY <1>1, Invariance, PTL

\* The name in a token resolves to the user it was issued to (get_current_user).
THEOREM TokensResolve == Spec => []TokensKeepTheirUser
<1>1. IInv => TokensKeepTheirUser
  BY DEF IInv, RowsStay, OneRowPerName, TokensKeepTheirUser, CurrentUsers, Matches
<1> QED BY <1>1, Invariance, PTL
\* Rows, tokens and requests stay well formed (user_service, security).
THEOREM TypeCorrect == Spec => []TypeOK
<1>1. IInv => TypeOK
  BY DEF IInv
<1> QED BY <1>1, Invariance, PTL


\* Registrations in flight after their commit, confirmed ones and lost ones are of
\* different names, and a lost one is in the table.
Apart ==
  /\ \A l \in lost : \E row \in users :
       row.username = l.name /\ row.hashed_password = Hash(l.password)
  /\ \A l \in lost, c \in created : KeyOf[c.name] # KeyOf[l.name]
  /\ \A r \in Requests :
       req[r].pc = "refresh" =>
         /\ \A x \in created \cup lost : KeyOf[x.name] # KeyOf[req[r].name]
         /\ \A s \in Requests \ {r} :
              req[s].pc = "refresh" => KeyOf[req[s].name] # KeyOf[req[r].name]

\* An answer leaves the others apart, if what it answers was itself apart.
LEMMA AnswerApart ==
  ASSUME TypeOK, Apart, NEW r \in Requests, NEW reply, Answer(r, reply), users \subseteq users',
         \/ UNCHANGED <<created, lost>>
         \/ req[r].pc = "refresh" /\ created' = created \cup {Sent(req[r])} /\ UNCHANGED lost
         \/ /\ req[r].pc = "refresh" /\ NewUser(req[r]) \in users
            /\ lost' = lost \cup {Sent(req[r])} /\ UNCHANGED created
  PROVE  Apart'
<1>1. \A s \in Requests : req'[s] = IF s = r THEN Idle(reply) ELSE req[s]
  BY DEF Answer, TypeOK
<1>2. \A s \in Requests : req'[s].pc = "refresh" => s # r /\ req'[s] = req[s]
  BY <1>1 DEF Idle
<1>3. Sent(req[r]).name = req[r].name /\ Sent(req[r]).password = req[r].password
  BY DEF Sent
<1>4. NewUser(req[r]).username = req[r].name
      /\ NewUser(req[r]).hashed_password = Hash(req[r].password)
  BY DEF NewUser
<1>5. \A l \in lost' : \E row \in users' :
        row.username = l.name /\ row.hashed_password = Hash(l.password)
  BY <1>3, <1>4 DEF Apart
<1>6. \A l \in lost', c \in created' : KeyOf[c.name] # KeyOf[l.name]
  BY <1>3 DEF Apart
<1>7. ASSUME NEW s \in Requests, req'[s].pc = "refresh"
      PROVE  /\ \A x \in created' \cup lost' : KeyOf[x.name] # KeyOf[req'[s].name]
             /\ \A t \in Requests \ {s} :
                  req'[t].pc = "refresh" => KeyOf[req'[t].name] # KeyOf[req'[s].name]
  BY <1>2, <1>3, <1>7 DEF Apart
<1> QED BY <1>5, <1>6, <1>7 DEF Apart

\* A registration that is about to commit shares its name with no earlier one.
LEMMA CommitApart ==
  ASSUME IInv, Apart, NEW r \in Requests, Commit(r)
  PROVE  Apart'
<1>1. \A row \in users : KeyOf[row.username] # KeyOf[req[r].name]
  BY DEF IInv, InsertedAlone, Commit, Taken, Matches
<1>2. \A x \in created \cup lost : KeyOf[x.name] # KeyOf[req[r].name]
  BY <1>1 DEF IInv, RowsStay, Apart
<1>3. ASSUME NEW s \in Requests, req[s].pc = "refresh"
      PROVE  KeyOf[req[s].name] # KeyOf[req[r].name]
  BY <1>1, <1>3 DEF IInv, RowsStay, NewUser
<1>4. /\ users' = users \cup {NewUser(req[r])} /\ NewUser(req[r]).username = req[r].name
      /\ NewUser(req[r]).hashed_password = Hash(req[r].password)
      /\ UNCHANGED created
  BY DEF Commit, NewUser
<1>5. Sent(req[r]).name = req[r].name /\ Sent(req[r]).password = req[r].password
  BY DEF Sent
<1>6. CASE req' = [req EXCEPT ![r].pc = "refresh"] /\ UNCHANGED lost
  <2>1. \A s \in Requests : /\ req'[s].name = req[s].name
                            /\ s # r => req'[s].pc = req[s].pc
    BY <1>6 DEF IInv, TypeOK
  <2> QED BY <1>2, <1>3, <1>4, <1>6, <2>1 DEF Apart
<1>7. CASE Answer(r, "INTERNAL_SERVER_ERROR") /\ lost' = lost \cup {Sent(req[r])}
  <2>1. \A s \in Requests : req'[s].pc = "refresh" => req'[s] = req[s]
    BY <1>7 DEF IInv, TypeOK, Answer, Idle
  <2>2. \A l \in lost' : \E row \in users' :
          row.username = l.name /\ row.hashed_password = Hash(l.password)
    BY <1>4, <1>5, <1>7 DEF Apart
  <2>3. \A l \in lost', c \in created' : KeyOf[c.name] # KeyOf[l.name]
    BY <1>2, <1>4, <1>5, <1>7 DEF Apart
  <2>4. \A s \in Requests, x \in created' \cup lost' :
          req'[s].pc = "refresh" => KeyOf[x.name] # KeyOf[req'[s].name]
    BY <1>3, <1>4, <1>5, <1>7, <2>1 DEF Apart
  <2>5. \A s \in Requests : \A t \in Requests \ {s} :
          req'[s].pc = "refresh" /\ req'[t].pc = "refresh" => KeyOf[req'[t].name] # KeyOf[req'[s].name]
    BY <2>1 DEF Apart
  <2> QED BY <2>2, <2>3, <2>4, <2>5 DEF Apart
<1> QED BY <1>6, <1>7 DEF Commit

\* Every step keeps them apart.
LEMMA ApartStep ==
  ASSUME IInv, Apart, [Next]_vars
  PROVE  Apart'
<1>1. ASSUME NEW r \in Requests, NEW q, q.pc # "refresh", req' = [req EXCEPT ![r] = q],
             UNCHANGED <<users, created, lost>>
      PROVE  Apart'
  <2>1. \A s \in Requests : req'[s].pc = "refresh" => req'[s] = req[s]
    BY <1>1 DEF IInv, TypeOK
  <2> QED BY <1>1, <2>1 DEF Apart
<1>2. ASSUME NEW r \in Requests, NEW n \in Names, NEW p \in Passwords, BeginRegister(r, n, p)
      PROVE  Apart'
  BY <1>1, <1>2 DEF BeginRegister, Idle, Looked
<1>3. ASSUME NEW r \in Requests, Insert(r)
      PROVE  Apart'
  BY <1>1, <1>3 DEF Insert, Inserted, Answer, Idle, IInv, TypeOK
<1>4. ASSUME NEW r \in Requests, Refresh(r)
      PROVE  Apart'
  BY <1>4, AnswerApart DEF Refresh, IInv
<1>5. ASSUME NEW r \in Requests, Fail(r)
      PROVE  Apart'
  BY <1>5, AnswerApart DEF Fail, IInv, RowsStay
<1>6. ASSUME NEW n \in Names, NEW p \in Passwords, Login(n, p)
      PROVE  Apart'
  BY <1>6 DEF Login, Apart
<1>7. CASE UNCHANGED vars
  BY <1>7 DEF vars, Apart
<1> QED BY <1>2, <1>3, <1>4, <1>5, <1>6, <1>7, CommitApart DEF Next

\* A registration answered 500 after its commit is the account of its name, and no
\* repetition or rival is ever told 201, for every collation and any number of
\* racing registrations (create_user).
THEOREM LostAnswersHold == Spec => []LostAnswersStand
<1>1. Init => Apart
  BY DEF Init, Apart, Idle
<1>2. IInv /\ Apart /\ [Next]_vars => Apart'
  BY ApartStep
<1>3. Apart => LostAnswersStand
  BY DEF Apart, LostAnswersStand, Verify
<1> QED BY <1>1, <1>2, <1>3, Invariance, PTL DEF Spec
=============================================================================
