------------------------ MODULE StaffAccounts_proofs ------------------------
(***************************************************************************)
(* Proofs about StaffAccounts, for every set of accounts and passwords,    *)
(* every limit of failures and every bound: types with any overlap, and,   *)
(* when requests do not overlap, what a token, a lockout and the rule of   *)
(* the last administrator promise.                                         *)
(***************************************************************************)
EXTENDS StaffAccounts, TLAPS

-----------------------------------------------------------------------------
(* Types *)

\* Whoever is about to get a token has given a password.
Signs(t) ==
  /\ t.pc = "committed" => t.kind \in { "login", "password" }
  /\ t.pc \in { "decided", "committed" } /\ t.kind \in { "login", "password" } =>
       t.new.password \in Passwords

Typed == TypeOK /\ \A w \in Workers : Signs(req[w])

-----------------------------------------------------------------------------
(* The invariant of requests that do not overlap *)

\* No two requests are in flight together.
OneWorker == \A v, w \in Workers : v = w

\* Who has no account yet has no failures and no past.
Unborn == \A u \in Users : ~ Exists(u) => accounts[u] = NoAccount

\* The guesses since the last lock or login are among the failures counted, and
\* these are too few to lock.
Counted ==
  \A u \in Users : guesses[u] <= accounts[u].failed /\ accounts[u].failed < MaxFailures

\* A token is not newer than its account, and of the two that agree the holder
\* knew the password, in service or not.
Earned(t) ==
  /\ Exists(t.user) /\ t.version <= accounts[t.user].version
  /\ t.version = accounts[t.user].version => t.password = accounts[t.user].password

TablesSound == Unborn /\ Counted /\ \A t \in tokens : Earned(t)

\* Rows that differ only in what the clock may change.
SameButLock(a, b) ==
  /\ a.role = b.role /\ a.active = b.active /\ a.password = b.password
  /\ a.failed = b.failed /\ a.version = b.version

\* A change of password or service revokes, and no version comes back.
Revokes(old, new) ==
  /\ old.version <= new.version
  /\ new.password # old.password \/ new.active # old.active => old.version < new.version

\* The failures the request leaves cover the guesses there will be.
Covers(kind, old, new) ==
  /\ new.failed < MaxFailures
  /\ \A n \in Nat : n <= old.failed => Guessed(kind, new, n) <= new.failed

\* The request does not take the last administrator.
AdminKept(u, old, new) ==
  old.role = "admin" /\ old.active => (new.role = "admin" /\ new.active) \/ OtherAdmin(u)

Decided(t) ==
  /\ t.kind = "create" <=> t.old.role = Null
  /\ t.new.role # Null
  /\ t.kind # "create" => Revokes(t.old, t.new)
  /\ Covers(t.kind, t.old, t.new)
  /\ AdminKept(t.target, t.old, t.new)

\* The row a request loaded is the committed one, and what it decided is right.
Fresh(t) ==
  /\ t.pc \in { "loaded", "decided" } => SameButLock(t.old, accounts[t.target])
  /\ t.pc = "loaded" =>
       /\ t.kind \in { "login", "logout", "password", "create", "update" }
       /\ t.kind \in { "logout", "password", "update" } => t.old.role # Null
  /\ t.pc = "decided" => Decided(t)
  /\ t.pc = "committed" => Exists(t.target) /\ accounts[t.target].password = t.new.password

SInv == TablesSound /\ \A w \in Workers : Fresh(req[w])

-----------------------------------------------------------------------------
(* Types of rows and requests *)

Kinds == { "login", "failure", "logout", "password", "create", "update" }

LEMMA NullApart == Null \notin Users /\ Null \notin Passwords /\ Null \notin Roles
BY NullAssumption

LEMMA NoAccountTyped == NoAccount \in Account
BY DEF NoAccount, Account

LEMMA IdleTyped == Idle \in Transaction /\ Signs(Idle)
BY AdminAssumption DEF Idle, Transaction, NoAccount, Account, Signs

\* A row changed in some columns is a row of the same type.
LEMMA Columns ==
  ASSUME NEW row \in Account,
         NEW r \in Roles \cup { Null }, NEW on \in BOOLEAN, NEW p \in Passwords \cup { Null },
         NEW n \in Nat, NEW l \in { "none", "locked", "expired" }, NEW m \in Nat
  PROVE  /\ [row EXCEPT !.failed = n] \in Account
         /\ [row EXCEPT !.lock = l] \in Account
         /\ [row EXCEPT !.failed = n, !.lock = l] \in Account
         /\ [row EXCEPT !.version = m] \in Account
         /\ [row EXCEPT !.active = on, !.version = m] \in Account
         /\ [row EXCEPT !.role = r, !.version = m] \in Account
         /\ [row EXCEPT !.password = p, !.version = m] \in Account
         /\ [row EXCEPT !.password = p, !.version = m, !.failed = n, !.lock = l] \in Account
         /\ [row EXCEPT !.role = r, !.active = on, !.password = p] \in Account
<1> PICK R : R = Roles \cup { Null }
  OBVIOUS
<1> PICK P : P = Passwords \cup { Null }
  OBVIOUS
<1> PICK L : L = { "none", "locked", "expired" }
  OBVIOUS
<1>1. Account = [ role : R, active : BOOLEAN, password : P, failed : Nat, lock : L, version : Nat ]
  BY DEF Account
<1>2. r \in R /\ p \in P /\ l \in L
  OBVIOUS
<1>3. row \in [ role : R, active : BOOLEAN, password : P, failed : Nat, lock : L, version : Nat ]
  BY <1>1
<1> QED BY <1>1, <1>2, <1>3

LEMMA ServiceChanged ==
  ASSUME NEW row \in Account, NEW on \in BOOLEAN, NEW m \in Nat
  PROVE  [row EXCEPT !.active = on, !.version = m] \in Account
<1> PICK R : R = Roles \cup { Null }
  OBVIOUS
<1> PICK P : P = Passwords \cup { Null }
  OBVIOUS
<1> PICK L : L = { "none", "locked", "expired" }
  OBVIOUS
<1>1. Account = [ role : R, active : BOOLEAN, password : P, failed : Nat, lock : L, version : Nat ]
  BY DEF Account
<1> QED BY <1>1

\* What the handlers make of a row is a row.
LEMMA RowsMade ==
  ASSUME NEW row \in Account
  PROVE  /\ Failed(row) \in Account
         /\ [row EXCEPT !.failed = 0, !.lock = "none"] \in Account
         /\ [row EXCEPT !.version = @ + 1] \in Account
         /\ \A p \in Passwords : [row EXCEPT !.password = p, !.version = @ + 1] \in Account
         /\ \A role \in Roles, p \in Passwords : NewAccount(role, p) \in Account
         /\ \A on \in BOOLEAN : Activated(row, on) \in Account
         /\ \A role \in Roles : Promoted(row, role) \in Account
         /\ \A p \in Passwords : PasswordReset(row, p) \in Account
<1>1. row.failed + 1 \in Nat /\ row.version + 1 \in Nat
  BY DEF Account
<1>2. NoAccount \in Account
  BY DEF NoAccount, Account
<1> PICK l \in { "none", "locked", "expired" } : l = "locked"
  OBVIOUS
<1> PICK o \in { "none", "locked", "expired" } : o = "none"
  OBVIOUS
<1>3. [row EXCEPT !.failed = 0, !.lock = l] \in Account /\ [row EXCEPT !.failed = row.failed + 1] \in Account
  BY <1>1, Columns
<1>4. Failed(row) \in Account
  BY <1>3 DEF Failed
<1>5. \A role \in Roles, p \in Passwords : NewAccount(role, p) \in Account
  BY <1>2, Columns DEF NewAccount
<1>6. ASSUME NEW on \in BOOLEAN PROVE Activated(row, on) \in Account
  <2> PICK m \in Nat : m = row.version + 1
    BY <1>1
  <2>1. [row EXCEPT !.active = on, !.version = m] \in Account
    BY ServiceChanged
  <2> QED BY <2>1 DEF Activated
<1>7. \A role \in Roles : Promoted(row, role) \in Account
  BY <1>1, Columns DEF Promoted
<1>8. ASSUME NEW p \in Passwords
      PROVE  [row EXCEPT !.password = p, !.version = row.version + 1, !.failed = 0, !.lock = o] \in Account
  BY <1>1, Columns
<1>9. \A p \in Passwords : PasswordReset(row, p) \in Account
  BY <1>8 DEF PasswordReset
<1>10. /\ [row EXCEPT !.failed = 0, !.lock = o] \in Account
       /\ [row EXCEPT !.version = row.version + 1] \in Account
       /\ \A p \in Passwords : [row EXCEPT !.password = p, !.version = row.version + 1] \in Account
  BY <1>1, Columns
<1> QED BY <1>4, <1>5, <1>6, <1>7, <1>9, <1>10

\* An UPDATE writes a row, whatever it was loaded from.
LEMMA WrittenTyped ==
  ASSUME NEW old \in Account, NEW new \in Account, NEW cur \in Account
  PROVE  Written(old, new, cur) \in Account
BY DEF Written, Col, Account

\* Steps that only change what a request holds.
LEMMA Goto ==
  ASSUME Typed, NEW w \in Workers, NEW q \in Transaction, Signs(q),
         req' = [req EXCEPT ![w] = q], UNCHANGED <<accounts, tokens, guesses>>
  PROVE  Typed'
<1>1. req' \in [Workers -> Transaction] /\ \A v \in Workers : Signs(req'[v])
  BY DEF Typed, TypeOK
<1>2. TypeOK'
  BY <1>1 DEF Typed, TypeOK
<1> QED BY <1>1, <1>2 DEF Typed, Signs

\* What Decide leaves of the request.
LEMMA Deciding ==
  ASSUME TypeOK, NEW w \in Workers, NEW kind \in Kinds, NEW row \in Account, Decide(w, kind, row)
  PROVE  \E q \in Transaction :
           /\ req' = [req EXCEPT ![w] = q] /\ UNCHANGED <<accounts, tokens, guesses>>
           /\ q.pc = "decided" /\ q.kind = kind /\ q.new = row
           /\ q.old = req[w].old /\ q.target = req[w].target
<1> DEFINE q == [req[w] EXCEPT !.pc = "decided", !.kind = kind, !.new = row]
<1>1. req[w] \in Transaction
  BY DEF TypeOK
<1>2. q \in Transaction
  BY <1>1 DEF Transaction, Kinds
<1>3. req' = [req EXCEPT ![w] = q] /\ UNCHANGED <<accounts, tokens, guesses>>
  BY DEF Decide
<1>4. q.pc = "decided" /\ q.kind = kind /\ q.new = row
      /\ q.old = req[w].old /\ q.target = req[w].target
  BY <1>1 DEF Transaction
<1> HIDE DEF q
<1> QED BY <1>2, <1>3, <1>4

LEMMA DecideKeeps ==
  ASSUME Typed, NEW w \in Workers, NEW kind \in Kinds, NEW row \in Account, Decide(w, kind, row),
         kind \in { "login", "password" } => row.password \in Passwords
  PROVE  Typed'
<1> PICK q \in Transaction :
      /\ req' = [req EXCEPT ![w] = q] /\ UNCHANGED <<accounts, tokens, guesses>>
      /\ q.pc = "decided" /\ q.kind = kind /\ q.new = row
  BY Deciding DEF Typed
<1>1. Signs(q)
  BY DEF Signs
<1> QED BY <1>1, Goto

\* The parts of an update that are given.
Row1(row, role) == IF role \in { Null, row.role } THEN row ELSE Promoted(row, role)
Row2(row, active) ==
  IF active = Null \/ row.active = (active = "on") THEN row ELSE Activated(row, active = "on")
Row3(row, p) == IF p = Null THEN row ELSE PasswordReset(row, p)

\* The handlers one by one, with what they decide.
LEMMA HandleKeeps == ASSUME Typed, NEW w \in Workers, Handle(w) PROVE Typed'
<1>1. req[w] \in Transaction /\ req[w].old \in Account
  BY DEF Typed, TypeOK, Transaction
<1>2. CASE Logout(w)
  BY <1>1, <1>2, RowsMade, DecideKeeps DEF Logout, Kinds
<1>3. CASE Refuse(w)
  BY <1>3, IdleTyped, Goto DEF Refuse
<1>4. ASSUME NEW p \in Passwords, Login(w, p) PROVE Typed'
  <2>1. CASE req[w].old.active /\ req[w].old.password = p
    <3>1. Decide(w, "login", [req[w].old EXCEPT !.failed = 0, !.lock = "none"])
      BY <1>4, <2>1 DEF Login
    <3>2. [req[w].old EXCEPT !.failed = 0, !.lock = "none"].password = p
      BY <1>1, <2>1 DEF Account
    <3> QED BY <1>1, <3>1, <3>2, RowsMade, DecideKeeps DEF Kinds
  <2>2. CASE ~ (req[w].old.active /\ req[w].old.password = p)
    <3>1. Decide(w, "failure", Failed(req[w].old))
      BY <1>4, <2>2 DEF Login
    <3> QED BY <1>1, <3>1, RowsMade, DecideKeeps DEF Kinds
  <2> QED BY <2>1, <2>2
<1>5. ASSUME NEW p \in Passwords, ChangePassword(w, p) PROVE Typed'
  <2>1. Decide(w, "password", [req[w].old EXCEPT !.password = p, !.version = @ + 1])
    BY <1>5 DEF ChangePassword
  <2>2. [req[w].old EXCEPT !.password = p, !.version = @ + 1].password = p
    BY <1>1 DEF Account
  <2> QED BY <1>1, <2>1, <2>2, RowsMade, DecideKeeps DEF Kinds
<1>6. ASSUME NEW role \in GivenRoles, NEW p \in Passwords, CreateUser(w, role, p) PROVE Typed'
  BY <1>1, <1>6, RolesAssumption, RowsMade, DecideKeeps DEF CreateUser, Kinds
<1>7. ASSUME NEW role \in GivenRoles \cup { Null }, NEW active \in { "on", "off", Null },
             NEW p \in Passwords \cup { Null }, UpdateUser(w, role, active, p)
      PROVE  Typed'
  <2>1. Row1(req[w].old, role) \in Account
    BY <1>1, RolesAssumption, RowsMade DEF Row1
  <2>2. Row2(Row1(req[w].old, role), active) \in Account
    BY <2>1, RowsMade DEF Row2
  <2>3. Row3(Row2(Row1(req[w].old, role), active), p) \in Account
    BY <2>2, RowsMade DEF Row3
  <2>4. Decide(w, "update", Row3(Row2(Row1(req[w].old, role), active), p))
    BY <1>7 DEF UpdateUser, Row1, Row2, Row3
  <2> QED BY <2>3, <2>4, DecideKeeps DEF Kinds
<1> QED BY <1>2, <1>3, <1>4, <1>5, <1>6, <1>7 DEF Handle

-----------------------------------------------------------------------------
(* Types: the other steps *)

LEMMA BootstrapKeeps == ASSUME Typed, Bootstrap PROVE Typed'
<1>1. NewAccount("admin", InitialPassword) \in Account
  BY AdminAssumption, RowsMade, NoAccountTyped DEF Roles
<1>2. accounts' \in [Users -> Account]
  BY <1>1 DEF Bootstrap, Typed, TypeOK
<1> QED BY <1>2 DEF Bootstrap, Typed, TypeOK, Signs

LEMMA Loading ==
  ASSUME TypeOK, NEW w \in Workers, NEW kind \in { "login", "logout", "password", "create", "update" },
         NEW actor \in Users \cup { Null }, NEW u \in Users, Load(w, kind, actor, u)
  PROVE  \E q \in Transaction :
           /\ req' = [req EXCEPT ![w] = q] /\ UNCHANGED <<accounts, tokens, guesses>>
           /\ q.pc = "loaded" /\ q.kind = kind /\ q.target = u /\ q.old = accounts[u]
<1> DEFINE q == [Idle EXCEPT !.pc = "loaded", !.kind = kind, !.actor = actor, !.target = u,
                             !.old = accounts[u]]
<1>1. accounts[u] \in Account /\ Idle \in Transaction
  BY IdleTyped DEF TypeOK
<1>2. q.pc = "loaded" /\ q.kind = kind /\ q.target = u /\ q.old = accounts[u]
  BY DEF Idle
<1>3. q \in Transaction
  <2> PICK row \in Account : row = accounts[u]
    BY <1>1
  <2> PICK K : K = { "none", "login", "failure", "logout", "password", "create", "update" }
    OBVIOUS
  <2> PICK A : A = Users \cup { Null }
    OBVIOUS
  <2> PICK C : C = { "idle", "loaded", "decided", "committed" }
    OBVIOUS
  <2>1. Transaction =
          [ pc : C, kind : K, actor : A, target : Users, old : Account, new : Account ]
    BY DEF Transaction
  <2>2. "loaded" \in C /\ kind \in K /\ actor \in A
    OBVIOUS
  <2>3. Idle \in [ pc : C, kind : K, actor : A, target : Users, old : Account, new : Account ]
    BY <1>1, <2>1
  <2>4. q \in [ pc : C, kind : K, actor : A, target : Users, old : Account, new : Account ]
    BY <2>2, <2>3
  <2> QED BY <2>1, <2>4
<1>4. req' = [req EXCEPT ![w] = q] /\ UNCHANGED <<accounts, tokens, guesses>>
  BY DEF Load
<1> HIDE DEF q
<1> QED BY <1>2, <1>3, <1>4

\* Worker w receives the request q about a committed row.
Arrived(w, q) ==
  /\ req' = [req EXCEPT ![w] = q] /\ UNCHANGED <<accounts, tokens, guesses>>
  /\ q.pc = "loaded" /\ q.old = accounts[q.target]
  /\ q.kind \in { "login", "logout", "password", "create", "update" }
  /\ q.kind \in { "logout", "password", "update" } => Exists(q.target)

LEMMA Arriving ==
  ASSUME TypeOK, NEW w \in Workers, Arrive(w)
  PROVE  \E q \in Transaction : Arrived(w, q)
<1>1. ASSUME NEW u \in Users, Load(w, "login", Null, u)
      PROVE  \E q \in Transaction : Arrived(w, q)
  BY <1>1, Loading DEF Arrived
<1>2. ASSUME NEW t \in tokens, NEW kind \in { "logout", "password" }, Valid(t),
             Load(w, kind, t.user, t.user)
      PROVE  \E q \in Transaction : Arrived(w, q)
  <2>1. t.user \in Users /\ Exists(t.user)
    BY <1>2 DEF TypeOK, Token, Valid
  <2> QED BY <1>2, <2>1, Loading DEF Arrived
<1>3. ASSUME NEW actor \in Users \cup { Null }, NEW u \in Users,
             Load(w, "create", actor, u) \/ (Exists(u) /\ Load(w, "update", actor, u))
      PROVE  \E q \in Transaction : Arrived(w, q)
  BY <1>3, Loading DEF Arrived
<1>4. CASE \E actor \in Users \cup { Null }, u \in Users :
             /\ MayManage(actor)
             /\ \/ Load(w, "create", actor, u)
                \/ Exists(u) /\ Load(w, "update", actor, u)
  <2> PICK actor \in Users \cup { Null }, u \in Users :
        Load(w, "create", actor, u) \/ (Exists(u) /\ Load(w, "update", actor, u))
    BY <1>4
  <2> QED BY <1>3
<1>5. CASE \E t \in tokens, kind \in { "logout", "password" } :
             Valid(t) /\ Load(w, kind, t.user, t.user)
  BY <1>2, <1>5
<1>6. CASE \E u \in Users : Load(w, "login", Null, u)
  BY <1>1, <1>6
<1> QED BY <1>4, <1>5, <1>6 DEF Arrive

LEMMA ArriveKeeps == ASSUME Typed, NEW w \in Workers, Arrive(w) PROVE Typed'
<1> PICK q \in Transaction : Arrived(w, q)
  BY Arriving DEF Typed
<1>1. Signs(q)
  BY DEF Signs, Arrived
<1> QED BY <1>1, Goto DEF Arrived

LEMMA CommitKeeps == ASSUME Typed, NEW w \in Workers, Commit(w) PROVE Typed'
<1> DEFINE r == req[w]
<1>1. r \in Transaction /\ Signs(r)
  BY DEF Typed, TypeOK
<1>2. CASE Clash(r)
  BY <1>2, IdleTyped, Goto DEF Commit
<1>3. CASE ~ Clash(r)
  <2>1. /\ accounts' = [accounts EXCEPT ![r.target] = Written(r.old, r.new, @)]
        /\ guesses' = [guesses EXCEPT ![r.target] = Guessed(r.kind, r.new, @)]
    BY <1>3 DEF Commit
  <2>2. r.old \in Account /\ r.new \in Account /\ r.target \in Users
    BY <1>1 DEF Transaction
  <2>3. accounts' \in [Users -> Account]
    BY <2>1, <2>2, WrittenTyped DEF Typed, TypeOK
  <2>4. \A n \in Nat : Guessed(r.kind, r.new, n) \in Nat
    BY DEF Guessed
  <2>5. guesses' \in [Users -> Nat]
    <3> PICK k : k = Guessed(r.kind, r.new, guesses[r.target])
      OBVIOUS
    <3>1. k \in Nat
      BY <2>2, <2>4 DEF Typed, TypeOK
    <3>2. guesses' = [guesses EXCEPT ![r.target] = k]
      BY <2>1
    <3> QED BY <2>2, <3>1, <3>2 DEF Typed, TypeOK
  <2>6. PICK q \in Transaction : Signs(q) /\ req' = [req EXCEPT ![w] = q]
    <3>1. CASE r.kind \in { "login", "password" }
      <4> DEFINE q == [r EXCEPT !.pc = "committed"]
      <4>1. q \in Transaction /\ q.pc = "committed" /\ q.kind = r.kind /\ q.new = r.new
        BY <1>1 DEF Transaction
      <4>2. req' = [req EXCEPT ![w] = q]
        BY <1>3, <3>1 DEF Commit
      <4>3. r.pc = "decided"
        BY DEF Commit
      <4> HIDE DEF q, r
      <4>4. Signs(q)
        BY <1>1, <3>1, <4>1, <4>3 DEF Signs
      <4> QED BY <4>1, <4>2, <4>4
    <3>2. CASE r.kind \notin { "login", "password" }
      BY <1>3, <3>2, IdleTyped DEF Commit
    <3> QED BY <3>1, <3>2
  <2>7. req' \in [Workers -> Transaction] /\ \A v \in Workers : Signs(req'[v])
    BY <2>6 DEF Typed, TypeOK
  <2> QED BY <2>3, <2>5, <2>7 DEF Commit, Typed, TypeOK, Signs
<1> QED BY <1>2, <1>3

LEMMA IssueKeeps == ASSUME Typed, NEW w \in Workers, Issue(w) PROVE Typed'
<1>1. req[w] \in Transaction /\ Signs(req[w]) /\ req[w].pc = "committed"
  BY DEF Typed, TypeOK, Issue
<1>2. req[w].new.password \in Passwords /\ req[w].target \in Users
  BY <1>1 DEF Signs, Transaction
<1>3. accounts[req[w].target].version \in Nat
  BY <1>2 DEF Typed, TypeOK, Account
<1>4. tokens' \subseteq Token
  BY <1>2, <1>3 DEF Issue, Typed, TypeOK, Token
<1>5. req' \in [Workers -> Transaction] /\ \A v \in Workers : Signs(req'[v])
  BY IdleTyped DEF Issue, Typed, TypeOK
<1> QED BY <1>4, <1>5 DEF Issue, Typed, TypeOK, Signs

LEMMA TimeKeeps ==
  ASSUME Typed, (\E u \in Users : LockEnds(u)) \/ (\E t \in tokens : Expire(t))
  PROVE  Typed'
<1>1. ASSUME NEW u \in Users, LockEnds(u) PROVE Typed'
  <2> PICK row : row = [accounts[u] EXCEPT !.lock = "expired"]
    OBVIOUS
  <2>1. row \in Account
    BY Columns DEF Typed, TypeOK
  <2>2. accounts' = [accounts EXCEPT ![u] = row]
    BY <1>1 DEF LockEnds
  <2>3. accounts' \in [Users -> Account]
    BY <2>1, <2>2 DEF Typed, TypeOK
  <2> QED BY <1>1, <2>3 DEF LockEnds, Typed, TypeOK, Signs
<1>2. ASSUME NEW t \in tokens, Expire(t) PROVE Typed'
  BY <1>2 DEF Expire, Typed, TypeOK, Signs
<1> QED BY <1>1, <1>2

LEMMA TypedInit == Init => Typed
BY IdleTyped, NoAccountTyped DEF Init, Typed, TypeOK

LEMMA TypedNext == Typed /\ [Next]_vars => Typed'
<1> SUFFICES ASSUME Typed, [Next]_vars PROVE Typed'
  OBVIOUS
<1>1. CASE UNCHANGED vars
  BY <1>1 DEF vars, Typed, TypeOK, Signs
<1>2. ASSUME NEW w \in Workers, Abort(w) PROVE Typed'
  BY <1>2, IdleTyped, Goto DEF Abort
<1> QED BY <1>1, <1>2, BootstrapKeeps, ArriveKeeps, HandleKeeps, CommitKeeps, IssueKeeps, TimeKeeps
        DEF Next

\* Every account, token, count and request has its type, however requests
\* overlap, and a request about to sign a token was given a password.
THEOREM TypeCorrect == Spec => []Typed
BY TypedInit, TypedNext, PTL DEF Spec

-----------------------------------------------------------------------------
(* When requests do not overlap: what the handlers decide *)

\* A request that decides rightly on a fresh copy leaves everything sound.
LEMMA DecideSound ==
  ASSUME OneWorker, Typed, SInv, NEW w \in Workers, NEW kind \in Kinds, NEW row \in Account,
         Decide(w, kind, row), req[w].pc = "loaded",
         kind = "create" <=> req[w].old.role = Null, row.role # Null,
         kind # "create" => Revokes(req[w].old, row),
         Covers(kind, req[w].old, row), AdminKept(req[w].target, req[w].old, row)
  PROVE  SInv'
<1> PICK q \in Transaction :
      /\ req' = [req EXCEPT ![w] = q] /\ UNCHANGED <<accounts, tokens, guesses>>
      /\ q.pc = "decided" /\ q.kind = kind /\ q.new = row
      /\ q.old = req[w].old /\ q.target = req[w].target
  BY Deciding DEF Typed
<1>1. SameButLock(q.old, accounts[q.target])
  BY DEF SInv, Fresh
<1>2. Decided(q)
  BY DEF Decided
<1>3. req'[w] = q /\ \A v \in Workers : v = w
  BY DEF OneWorker, Typed, TypeOK
<1>4. accounts' = accounts /\ tokens' = tokens /\ guesses' = guesses
  OBVIOUS
<1>5. Fresh(req[w])'
  BY <1>1, <1>2, <1>3, <1>4
     DEF Fresh, Decided, AdminKept, OtherAdmin, SameButLock, Exists, Revokes, Covers
<1>6. TablesSound'
  BY <1>4 DEF SInv, TablesSound, Unborn, Counted, Earned, Exists
<1> QED BY <1>3, <1>5, <1>6 DEF SInv

\* The failures of the row a request loaded are too few to lock.
LEMMA FewFailures ==
  ASSUME Typed, SInv, NEW w \in Workers, req[w].pc = "loaded"
  PROVE  /\ req[w] \in Transaction /\ req[w].old \in Account /\ req[w].target \in Users
         /\ SameButLock(req[w].old, accounts[req[w].target])
         /\ req[w].old.failed \in Nat /\ req[w].old.version \in Nat
         /\ req[w].old.failed < MaxFailures /\ MaxFailures \in Nat /\ 0 < MaxFailures
<1>1. req[w] \in Transaction /\ req[w].old \in Account /\ req[w].target \in Users
  BY DEF Typed, TypeOK, Transaction
<1>2. SameButLock(req[w].old, accounts[req[w].target])
  BY DEF SInv, Fresh
<1>3. req[w].old.failed \in Nat /\ req[w].old.version \in Nat
  BY <1>1 DEF Account
<1>4. accounts[req[w].target].failed < MaxFailures
  BY <1>1 DEF SInv, TablesSound, Counted
<1> QED BY <1>1, <1>2, <1>3, <1>4, LimitAssumption DEF SameButLock

LEMMA LogoutSound ==
  ASSUME OneWorker, Typed, SInv, NEW w \in Workers, Logout(w)
  PROVE  SInv'
<1> PICK old \in Account : old = req[w].old
  BY FewFailures DEF Logout
<1> PICK row \in Account : row = [old EXCEPT !.version = @ + 1]
  BY RowsMade
<1>1. old.failed \in Nat /\ old.version \in Nat /\ old.failed < MaxFailures /\ old.role # Null
  BY FewFailures DEF Logout, SInv, Fresh
<1>2. /\ row.role = old.role /\ row.active = old.active /\ row.failed = old.failed
      /\ row.lock = old.lock /\ row.version = old.version + 1
  BY DEF Account
<1>3. Revokes(old, row) /\ Covers("logout", old, row) /\ AdminKept(req[w].target, old, row)
  BY <1>1, <1>2 DEF Revokes, Covers, Guessed, AdminKept
<1> QED BY <1>1, <1>2, <1>3, DecideSound DEF Logout, Kinds

LEMMA LoginSound ==
  ASSUME OneWorker, Typed, SInv, NEW w \in Workers, NEW p \in Passwords, Login(w, p)
  PROVE  SInv'
<1> PICK old \in Account : old = req[w].old
  BY FewFailures DEF Login
<1>1. /\ old.failed \in Nat /\ old.version \in Nat /\ old.failed < MaxFailures /\ old.role # Null
      /\ MaxFailures \in Nat /\ 0 < MaxFailures /\ old.lock # "locked"
  BY FewFailures DEF Login
<1>2. CASE old.active /\ old.password = p
  <2> PICK row \in Account : row = [old EXCEPT !.failed = 0, !.lock = "none"]
    BY RowsMade
  <2>1. /\ row.role = old.role /\ row.active = old.active /\ row.password = old.password
        /\ row.failed = 0 /\ row.version = old.version
    BY DEF Account
  <2>2. Revokes(old, row) /\ Covers("login", old, row) /\ AdminKept(req[w].target, old, row)
    BY <1>1, <2>1 DEF Revokes, Covers, Guessed, AdminKept
  <2>3. Decide(w, "login", row)
    BY <1>2 DEF Login
  <2> QED BY <1>1, <2>1, <2>2, <2>3, DecideSound DEF Login, Kinds
<1>3. CASE ~ (old.active /\ old.password = p)
  <2> PICK row \in Account : row = Failed(old)
    BY RowsMade
  <2>1. /\ row.role = old.role /\ row.active = old.active /\ row.password = old.password
        /\ row.version = old.version
        /\ \/ row.failed = 0 /\ row.lock = "locked"
           \/ row.failed = old.failed + 1 /\ row.failed < MaxFailures /\ row.lock # "locked"
    BY <1>1 DEF Account, Failed
  <2>2. Revokes(old, row) /\ AdminKept(req[w].target, old, row)
    BY <1>1, <2>1 DEF Revokes, AdminKept
  <2>3. Covers("failure", old, row)
    BY <1>1, <2>1 DEF Covers, Guessed
  <2>4. Decide(w, "failure", row)
    BY <1>3 DEF Login
  <2> QED BY <1>1, <2>1, <2>2, <2>3, <2>4, DecideSound DEF Login, Kinds
<1> QED BY <1>2, <1>3

LEMMA ChangePasswordSound ==
  ASSUME OneWorker, Typed, SInv, NEW w \in Workers, NEW p \in Passwords, ChangePassword(w, p)
  PROVE  SInv'
<1> PICK old \in Account : old = req[w].old
  BY FewFailures DEF ChangePassword
<1> PICK row \in Account : row = [old EXCEPT !.password = p, !.version = @ + 1]
  BY RowsMade
<1>1. old.failed \in Nat /\ old.version \in Nat /\ old.failed < MaxFailures /\ old.role # Null
  BY FewFailures DEF ChangePassword, SInv, Fresh
<1>2. /\ row.role = old.role /\ row.active = old.active /\ row.failed = old.failed
      /\ row.lock = old.lock /\ row.version = old.version + 1
  BY DEF Account
<1>3. Revokes(old, row) /\ Covers("password", old, row) /\ AdminKept(req[w].target, old, row)
  BY <1>1, <1>2 DEF Revokes, Covers, Guessed, AdminKept
<1> QED BY <1>1, <1>2, <1>3, DecideSound DEF ChangePassword, Kinds

LEMMA CreateUserSound ==
  ASSUME OneWorker, Typed, SInv, NEW w \in Workers, NEW role \in GivenRoles, NEW p \in Passwords,
         CreateUser(w, role, p)
  PROVE  SInv'
<1> PICK old \in Account : old = req[w].old
  BY FewFailures DEF CreateUser
<1> PICK row \in Account : row = NewAccount(role, p)
  BY RowsMade, RolesAssumption
<1>1. /\ SameButLock(old, accounts[req[w].target]) /\ req[w].target \in Users
      /\ MaxFailures \in Nat /\ 0 < MaxFailures
  BY FewFailures DEF CreateUser
<1>2. accounts[req[w].target] = NoAccount
  BY <1>1 DEF CreateUser, SInv, TablesSound, Unborn
<1>3. old.role = Null /\ old.failed = 0
  BY <1>1, <1>2 DEF SameButLock, NoAccount
<1>4. row.role = role /\ row.failed = 0 /\ role # Null
  BY NullApart, RolesAssumption DEF NewAccount, NoAccount
<1>5. Covers("create", old, row)
  BY <1>1, <1>3, <1>4 DEF Covers, Guessed
<1>6. AdminKept(req[w].target, old, row)
  BY <1>3, NullApart DEF AdminKept, Roles
<1> QED BY <1>3, <1>4, <1>5, <1>6, DecideSound DEF CreateUser, Kinds

\* What the parts of an update make of a row.
LEMMA PartsOfUpdate ==
  ASSUME NEW old \in Account, NEW role \in GivenRoles \cup { Null },
         NEW active \in { "on", "off", Null }, NEW p \in Passwords \cup { Null }
  PROVE  /\ Row1(old, role) \in Account /\ Row2(old, active) \in Account /\ Row3(old, p) \in Account
         /\ \/ Row1(old, role) = old
            \/ /\ role # Null /\ role # old.role /\ role \in Roles
               /\ Row1(old, role).role = role
               /\ Row1(old, role).version = old.version + 1
         /\ Row1(old, role).active = old.active /\ Row1(old, role).password = old.password
         /\ Row1(old, role).failed = old.failed /\ Row1(old, role).lock = old.lock
         /\ \/ Row2(old, active) = old
            \/ /\ Row2(old, active) # old
               /\ Row2(old, active).active = (active = "on") /\ active \in { "on", "off" }
               /\ Row2(old, active).version = old.version + 1
         /\ Row2(old, active).role = old.role /\ Row2(old, active).password = old.password
         /\ Row2(old, active).failed = old.failed /\ Row2(old, active).lock = old.lock
         /\ \/ Row3(old, p) = old /\ p = Null
            \/ /\ Row3(old, p).version = old.version + 1
               /\ Row3(old, p).failed = 0 /\ Row3(old, p).lock = "none"
         /\ Row3(old, p).role = old.role /\ Row3(old, p).active = old.active
<1>1. /\ Row1(old, role) \in Account /\ Row2(old, active) \in Account /\ Row3(old, p) \in Account
  BY RolesAssumption, RowsMade DEF Row1, Row2, Row3
<1>2. old.version \in Nat /\ old.version + 1 # old.version
  BY DEF Account
<1>3. /\ \/ Row1(old, role) = old
         \/ /\ role # Null /\ role # old.role /\ role \in Roles
            /\ Row1(old, role).role = role
            /\ Row1(old, role).version = old.version + 1
      /\ Row1(old, role).active = old.active /\ Row1(old, role).password = old.password
      /\ Row1(old, role).failed = old.failed /\ Row1(old, role).lock = old.lock
  BY RolesAssumption DEF Row1, Promoted, Account
<1>4. /\ \/ Row2(old, active) = old
         \/ /\ Row2(old, active) # old
            /\ Row2(old, active).active = (active = "on") /\ active \in { "on", "off" }
            /\ Row2(old, active).version = old.version + 1
      /\ Row2(old, active).role = old.role /\ Row2(old, active).password = old.password
      /\ Row2(old, active).failed = old.failed /\ Row2(old, active).lock = old.lock
  BY <1>2 DEF Row2, Activated, Account
<1>5. /\ \/ Row3(old, p) = old /\ p = Null
         \/ /\ Row3(old, p).version = old.version + 1
            /\ Row3(old, p).failed = 0 /\ Row3(old, p).lock = "none"
      /\ Row3(old, p).role = old.role /\ Row3(old, p).active = old.active
  BY DEF Row3, PasswordReset, Account
<1> QED BY <1>1, <1>3, <1>4, <1>5

LEMMA UpdateUserSound ==
  ASSUME OneWorker, Typed, SInv, NEW w \in Workers, NEW role \in GivenRoles \cup { Null },
         NEW active \in { "on", "off", Null }, NEW p \in Passwords \cup { Null },
         UpdateUser(w, role, active, p)
  PROVE  SInv'
<1> PICK u : u = req[w].target
  OBVIOUS
<1> PICK old \in Account : old = req[w].old
  BY FewFailures DEF UpdateUser
<1>1. /\ old.failed \in Nat /\ old.version \in Nat /\ old.failed < MaxFailures /\ old.role # Null
      /\ MaxFailures \in Nat /\ 0 < MaxFailures
  BY FewFailures DEF UpdateUser, SInv, Fresh
<1> PICK row1 \in Account : row1 = Row1(old, role)
  BY PartsOfUpdate
<1> PICK row2 \in Account : row2 = Row2(row1, active)
  BY PartsOfUpdate
<1> PICK row3 \in Account : row3 = Row3(row2, p)
  BY PartsOfUpdate
<1>2. /\ Decide(w, "update", row3)
      /\ row1 # old => AdminStays(u, old, role, old.active)
      /\ row2 # row1 /\ active = "off" => AdminStays(u, row1, row1.role, FALSE)
  BY DEF UpdateUser, Row1, Row2, Row3
<1>3. /\ row1 = old \/ (/\ role # Null /\ role # old.role /\ row1.role = role /\ role \in Roles
                        /\ row1.version = old.version + 1)
      /\ row1.active = old.active /\ row1.password = old.password
      /\ row1.failed = old.failed /\ row1.lock = old.lock
  BY PartsOfUpdate
<1>4. /\ row2 = row1 \/ (/\ row2 # row1 /\ row2.active = (active = "on") /\ active \in { "on", "off" }
                         /\ row2.version = row1.version + 1)
      /\ row2.role = row1.role /\ row2.password = row1.password
      /\ row2.failed = row1.failed /\ row2.lock = row1.lock
  BY PartsOfUpdate
<1>5. /\ (row3 = row2 /\ p = Null) \/ (/\ row3.version = row2.version + 1
                                       /\ row3.failed = 0 /\ row3.lock = "none")
      /\ row3.role = row2.role /\ row3.active = row2.active
  BY PartsOfUpdate
<1>6. row1.version \in Nat /\ row2.version \in Nat /\ row3.version \in Nat
  BY DEF Account
<1>7. row3.role # Null
  BY <1>1, <1>3, <1>4, <1>5, NullApart
<1>8. Revokes(old, row3)
  <2>1. old.version <= row1.version /\ (row1 # old => old.version < row1.version)
    BY <1>1, <1>3, <1>6
  <2>2. row1.version <= row2.version /\ (row2 # row1 => row1.version < row2.version)
    BY <1>4, <1>6
  <2>3. row2.version <= row3.version /\ (row3 # row2 => row2.version < row3.version)
    BY <1>5, <1>6
  <2>4. row3 = old \/ old.version < row3.version
    BY <1>1, <1>6, <2>1, <2>2, <2>3
  <2> QED BY <1>1, <1>6, <2>4 DEF Revokes
<1>9. Covers("update", old, row3)
  BY <1>1, <1>3, <1>4, <1>5 DEF Covers, Guessed
<1>10. AdminKept(u, old, row3)
  <2> SUFFICES ASSUME old.role = "admin", old.active, ~ OtherAdmin(u)
               PROVE  row3.role = "admin" /\ row3.active
    BY DEF AdminKept
  <2>1. row1 = old
    BY <1>2, <1>3 DEF AdminStays
  <2>2. row2.active /\ row2.role = "admin"
    BY <1>2, <1>4, <2>1 DEF AdminStays
  <2> QED BY <1>5, <2>2
<1>11. req[w].pc = "loaded"
  BY DEF UpdateUser
<1> QED BY <1>1, <1>2, <1>7, <1>8, <1>9, <1>10, <1>11, DecideSound DEF Kinds

\* A request that is over, or a step that touches no row and no token.
LEMMA QuietSound ==
  ASSUME OneWorker, Typed, SInv, NEW w \in Workers, NEW q,
         req' = [req EXCEPT ![w] = q], UNCHANGED <<accounts, tokens, guesses>>,
         Fresh(q)'
  PROVE  SInv'
<1>1. req'[w] = q /\ \A v \in Workers : v = w
  BY DEF OneWorker, Typed, TypeOK
<1>2. TablesSound'
  BY DEF SInv, TablesSound, Unborn, Counted, Earned, Exists
<1> QED BY <1>1, <1>2 DEF SInv, Fresh

LEMMA IdleFresh == Fresh(Idle)'
BY DEF Fresh, Idle

LEMMA HandleSound ==
  ASSUME OneWorker, Typed, SInv, NEW w \in Workers, Handle(w)
  PROVE  SInv'
<1>1. CASE Refuse(w)
  BY <1>1, IdleFresh, QuietSound DEF Refuse
<1> QED BY <1>1, LogoutSound, LoginSound, ChangePasswordSound, CreateUserSound, UpdateUserSound
        DEF Handle

LEMMA ArriveSound ==
  ASSUME OneWorker, Typed, SInv, NEW w \in Workers, Arrive(w)
  PROVE  SInv'
<1> PICK q \in Transaction : Arrived(w, q)
  BY Arriving DEF Typed
<1>1. Fresh(q)'
  BY DEF Arrived, Fresh, SameButLock, Exists
<1> QED BY <1>1, QuietSound DEF Arrived

-----------------------------------------------------------------------------
(* When requests do not overlap: what a commit writes *)

\* The row that a commit which does not clash leaves, and who held it before.
LEMMA Committing ==
  ASSUME OneWorker, Typed, SInv, NEW w \in Workers, Commit(w), ~ Clash(req[w])
  PROVE  LET r == req[w]
             u == req[w].target
         IN  /\ r.pc = "decided" /\ r.old \in Account /\ r.new \in Account /\ u \in Users
             /\ Decided(r) /\ SameButLock(r.old, accounts[u])
             /\ accounts'[u] \in Account /\ SameButLock(r.new, accounts'[u])
             /\ guesses'[u] = Guessed(r.kind, r.new, guesses[u])
             /\ tokens' = tokens
             /\ \A v \in Users \ { u } : accounts'[v] = accounts[v] /\ guesses'[v] = guesses[v]
<1> PICK r \in Transaction : r = req[w]
  BY DEF Typed, TypeOK
<1> PICK u \in Users : u = r.target
  BY DEF Transaction
<1>1. r.pc = "decided" /\ r.old \in Account /\ r.new \in Account
  BY DEF Commit, Transaction
<1>2. Decided(r) /\ SameButLock(r.old, accounts[u])
  BY <1>1 DEF SInv, Fresh
<1>3. accounts[u] \in Account
  BY DEF Typed, TypeOK
<1> PICK row \in Account : row = Written(r.old, r.new, accounts[u])
  BY <1>1, <1>3, WrittenTyped
<1>4. SameButLock(r.new, row)
  BY <1>2 DEF SameButLock, Written, Col
<1>5. accounts' = [accounts EXCEPT ![u] = row] /\ tokens' = tokens
  BY DEF Commit
<1>6. guesses' = [guesses EXCEPT ![u] = Guessed(r.kind, r.new, guesses[u])]
  BY DEF Commit
<1>7. accounts'[u] = row /\ guesses'[u] = Guessed(r.kind, r.new, guesses[u])
  BY <1>5, <1>6 DEF Typed, TypeOK
<1>8. \A v \in Users \ { u } : accounts'[v] = accounts[v] /\ guesses'[v] = guesses[v]
  BY <1>5, <1>6 DEF Typed, TypeOK
<1> QED BY <1>1, <1>2, <1>4, <1>5, <1>7, <1>8

LEMMA CommitSound ==
  ASSUME OneWorker, Typed, SInv, NEW w \in Workers, Commit(w)
  PROVE  SInv'
<1>1. CASE Clash(req[w])
  BY <1>1, IdleFresh, QuietSound DEF Commit
<1>2. CASE ~ Clash(req[w])
  <2> PICK r \in Transaction : r = req[w]
    BY DEF Typed, TypeOK
  <2> PICK u \in Users : u = r.target
    BY DEF Transaction
  <2>1. /\ r.pc = "decided" /\ r.old \in Account /\ r.new \in Account
        /\ Decided(r) /\ SameButLock(r.old, accounts[u])
        /\ accounts'[u] \in Account /\ SameButLock(r.new, accounts'[u])
        /\ guesses'[u] = Guessed(r.kind, r.new, guesses[u])
        /\ tokens' = tokens
        /\ \A v \in Users \ { u } : accounts'[v] = accounts[v] /\ guesses'[v] = guesses[v]
    BY <1>2, Committing
  <2>2. Unborn'
    BY <2>1 DEF SInv, TablesSound, Unborn, Exists, Decided, SameButLock
  <2>3. Counted'
    <3>1. /\ guesses[u] \in Nat /\ guesses[u] <= r.old.failed
      BY <2>1 DEF SInv, TablesSound, Counted, SameButLock, Typed, TypeOK
    <3>2. guesses'[u] <= accounts'[u].failed /\ accounts'[u].failed < MaxFailures
      BY <2>1, <3>1 DEF Decided, Covers, SameButLock
    <3> QED BY <2>1, <3>2 DEF SInv, TablesSound, Counted
  <2>4. ASSUME NEW t \in tokens PROVE Earned(t)'
    <3>1. Earned(t) /\ t.version \in Nat /\ t.user \in Users
      BY DEF SInv, TablesSound, Typed, TypeOK, Token
    <3>2. CASE t.user # u
      BY <2>1, <3>1, <3>2 DEF Earned, Exists
    <3>3. CASE t.user = u
      <4>1. r.old.role # Null /\ Revokes(r.old, r.new)
        BY <2>1, <3>1, <3>3 DEF Earned, Exists, SameButLock, Decided
      <4>2. r.old.version \in Nat /\ r.new.version \in Nat
        BY <2>1 DEF Account
      <4>3. /\ accounts'[u].role # Null /\ t.version <= accounts'[u].version
            /\ t.version = accounts'[u].version => t.password = accounts'[u].password
        BY <2>1, <3>1, <3>3, <4>1, <4>2 DEF Earned, SameButLock, Revokes, Decided
      <4> QED BY <3>3, <4>3 DEF Earned, Exists
    <3> QED BY <3>2, <3>3
  <2>5. req'[w] = IF r.kind \in { "login", "password" } THEN [r EXCEPT !.pc = "committed"] ELSE Idle
    BY <1>2 DEF Commit, Typed, TypeOK
  <2>6. Fresh(req[w])'
    <3>1. CASE r.kind \in { "login", "password" }
      <4>1. /\ req'[w].pc = "committed" /\ req'[w].target = u /\ req'[w].new = r.new
        BY <2>5, <3>1 DEF Transaction
      <4>2. accounts'[u].role # Null /\ accounts'[u].password = r.new.password
        BY <2>1 DEF Decided, SameButLock
      <4> QED BY <4>1, <4>2 DEF Fresh, Exists
    <3>2. CASE r.kind \notin { "login", "password" }
      BY <2>5, <3>2 DEF Fresh, Idle
    <3> QED BY <3>1, <3>2
  <2>7. TablesSound'
    BY <2>1, <2>2, <2>3, <2>4 DEF TablesSound
  <2> QED BY <2>6, <2>7 DEF SInv, OneWorker
<1> QED BY <1>1, <1>2

LEMMA IssueSound ==
  ASSUME OneWorker, Typed, SInv, NEW w \in Workers, Issue(w)
  PROVE  SInv'
<1> PICK u \in Users : u = req[w].target
  BY DEF Typed, TypeOK, Transaction
<1> PICK t : t = [ user |-> u, version |-> accounts[u].version, password |-> req[w].new.password ]
  OBVIOUS
<1>1. tokens' = tokens \cup { t } /\ accounts' = accounts /\ guesses' = guesses
  BY DEF Issue
<1>2. Exists(u) /\ accounts[u].password = req[w].new.password /\ accounts[u].version \in Nat
  BY DEF SInv, Fresh, Issue, Typed, TypeOK, Account
<1>3. Earned(t)
  BY <1>2 DEF Earned
<1>4. TablesSound'
  BY <1>1, <1>3 DEF SInv, TablesSound, Unborn, Counted, Earned, Exists
<1>5. req'[w] = Idle /\ \A v \in Workers : v = w
  BY DEF Issue, OneWorker, Typed, TypeOK
<1> QED BY <1>4, <1>5, IdleFresh DEF SInv, Fresh

LEMMA TimeSound ==
  ASSUME Typed, SInv, (\E u \in Users : LockEnds(u)) \/ (\E t \in tokens : Expire(t))
  PROVE  SInv'
<1>1. ASSUME NEW u \in Users, LockEnds(u) PROVE SInv'
  <2>1. Exists(u) /\ accounts[u] \in Account
    BY <1>1 DEF LockEnds, SInv, TablesSound, Unborn, NoAccount, Typed, TypeOK
  <2>2. /\ SameButLock(accounts[u], accounts'[u]) /\ \A v \in Users \ { u } : accounts'[v] = accounts[v]
        /\ tokens' = tokens /\ guesses' = guesses /\ req' = req
    BY <1>1, <2>1 DEF LockEnds, SameButLock, Typed, TypeOK, Account
  <2>3. \A v \in Users : SameButLock(accounts[v], accounts'[v])
    BY <2>2 DEF SameButLock
  <2>4. Unborn'
    BY <2>1, <2>2 DEF SInv, TablesSound, Unborn, Exists, SameButLock
  <2>5. Counted'
    BY <2>2, <2>3 DEF SInv, TablesSound, Counted, SameButLock
  <2>6. \A t \in tokens : Earned(t)'
    BY <2>2, <2>3 DEF SInv, TablesSound, Earned, Exists, SameButLock, Typed, TypeOK, Token
  <2>7. ASSUME NEW v \in Workers PROVE Fresh(req[v])'
    <3>1. Fresh(req[v]) /\ req[v].target \in Users /\ req'[v] = req[v]
      BY <2>2 DEF SInv, Typed, TypeOK, Transaction
    <3>2. \A x : OtherAdmin(x) => OtherAdmin(x)'
      BY <2>3 DEF OtherAdmin, SameButLock
    <3> QED BY <2>3, <3>1, <3>2 DEF Fresh, Decided, AdminKept, SameButLock, Exists, Revokes, Covers
  <2> QED BY <2>2, <2>4, <2>5, <2>6, <2>7 DEF SInv, TablesSound
<1>2. ASSUME NEW t \in tokens, Expire(t) PROVE SInv'
  BY <1>2 DEF Expire, SInv, TablesSound, Unborn, Counted, Earned, Exists, Fresh, Decided, AdminKept,
              OtherAdmin, SameButLock, Revokes, Covers
<1> QED BY <1>1, <1>2

LEMMA BootstrapSound == ASSUME Typed, SInv, Bootstrap PROVE SInv'
<1> PICK u \in Users : u = InitialAdmin
  BY AdminAssumption
<1> PICK row \in Account : row = NewAccount("admin", InitialPassword)
  BY AdminAssumption, RowsMade, NoAccountTyped DEF Roles
<1>1. row.role = "admin" /\ row.failed = 0 /\ "admin" # Null
  BY NullApart DEF NewAccount, NoAccount, Roles
<1>2. accounts' = [accounts EXCEPT ![u] = row]
      /\ tokens' = tokens /\ guesses' = guesses /\ req' = req
  BY DEF Bootstrap
<1>3. tokens = {}
  BY DEF Bootstrap, SInv, TablesSound, Earned, Typed, TypeOK, Token
<1>4. accounts[u] = NoAccount /\ guesses[u] = 0
  <2>1. accounts[u] = NoAccount /\ guesses[u] \in Nat /\ guesses[u] <= accounts[u].failed
    BY DEF Bootstrap, SInv, TablesSound, Unborn, Counted, Typed, TypeOK
  <2> QED BY <2>1 DEF NoAccount
<1>5. Unborn' /\ Counted'
  <2>1. accounts'[u] = row /\ \A v \in Users \ { u } : accounts'[v] = accounts[v]
    BY <1>2 DEF Typed, TypeOK
  <2> QED BY <1>1, <1>2, <1>4, <2>1, LimitAssumption DEF SInv, TablesSound, Unborn, Counted, Exists
<1>6. \A w \in Workers : Fresh(req[w])'
  BY <1>2 DEF Bootstrap, Fresh
<1> QED BY <1>2, <1>3, <1>5, <1>6 DEF SInv, TablesSound

LEMMA SoundInit == Init => SInv
BY LimitAssumption DEF Init, SInv, TablesSound, Unborn, Counted, Exists, NoAccount, Fresh, Idle

LEMMA SoundNext == ASSUME OneWorker, Typed, SInv, [Next]_vars PROVE SInv'
<1>1. CASE UNCHANGED vars
  BY <1>1 DEF vars, SInv, TablesSound, Unborn, Counted, Earned, Exists, Fresh, Decided, AdminKept,
              OtherAdmin, SameButLock, Revokes, Covers
<1>2. ASSUME NEW w \in Workers, Abort(w) PROVE SInv'
  BY <1>2, IdleFresh, QuietSound DEF Abort
<1> QED BY <1>1, <1>2, BootstrapSound, ArriveSound, HandleSound, CommitSound, IssueSound, TimeSound
        DEF Next

LEMMA SerialInvariance == ASSUME OneWorker PROVE Spec => [](Typed /\ SInv)
<1>1. Init => Typed /\ SInv
  BY TypedInit, SoundInit
<1>2. Typed /\ SInv /\ [Next]_vars => (Typed /\ SInv)'
  BY TypedNext, SoundNext
<1> QED BY <1>1, <1>2, PTL DEF Spec

-----------------------------------------------------------------------------
(* When requests do not overlap: what holds *)

\* Accounts change at a start, when a lock ends and when a request commits.
LEMMA Writers ==
  ASSUME Next
  PROVE  \/ accounts' = accounts \/ Bootstrap
         \/ \E u \in Users : LockEnds(u)
         \/ \E w \in Workers : Commit(w) /\ ~ Clash(req[w])
<1>1. ASSUME NEW w \in Workers, Commit(w), Clash(req[w]) PROVE accounts' = accounts
  BY <1>1 DEF Commit
<1>2. ASSUME NEW w \in Workers, Arrive(w) \/ Handle(w) \/ Issue(w) \/ Abort(w)
      PROVE  accounts' = accounts
  <2>1. CASE Arrive(w)
    BY <2>1 DEF Arrive, Load
  <2>2. CASE Handle(w)
    <3>1. Logout(w) \/ Refuse(w) => accounts' = accounts
      BY DEF Logout, Refuse, Decide
    <3>2. \A p \in Passwords : Login(w, p) \/ ChangePassword(w, p) => accounts' = accounts
      BY DEF Login, ChangePassword, Decide
    <3>3. \A role, p : CreateUser(w, role, p) => accounts' = accounts
      BY DEF CreateUser, Decide
    <3>4. \A role, active, p : UpdateUser(w, role, active, p) => accounts' = accounts
      BY DEF UpdateUser, Decide
    <3> QED BY <2>2, <3>1, <3>2, <3>3, <3>4 DEF Handle
  <2>3. CASE Issue(w) \/ Abort(w)
    BY <2>3 DEF Issue, Abort
  <2> QED BY <1>2, <2>1, <2>2, <2>3
<1>3. ASSUME NEW t \in tokens, Expire(t) PROVE accounts' = accounts
  BY <1>3 DEF Expire
<1> QED BY <1>1, <1>2, <1>3 DEF Next

\* Whoever holds a token that works knows the password in force: every change
\* and every reset outdates the tokens signed before it.
THEOREM TokensBacked == ASSUME OneWorker PROVE Spec => []TokenBacked
<1>1. Typed /\ SInv => TokenBacked
  BY DEF SInv, TablesSound, Earned, TokenBacked, Valid
<1> QED BY <1>1, SerialInvariance, PTL

\* The wrong passwords answered since the last lock or login stay below the
\* limit: the request that reaches it has locked the account.
THEOREM LockoutWorks == ASSUME OneWorker PROVE Spec => []GuessesBounded
<1>1. Typed /\ SInv => GuessesBounded
  BY LimitAssumption DEF SInv, TablesSound, Counted, GuessesBounded, Typed, TypeOK, Account
<1> QED BY <1>1, SerialInvariance, PTL

\* No step takes the last administrator in service.
THEOREM AdminAlwaysRemains == ASSUME OneWorker PROVE Spec => AdminRemains
<1>1. ASSUME Typed, SInv, Next, HasAdmin PROVE HasAdmin'
  <2> PICK a \in Users : accounts[a].role = "admin" /\ accounts[a].active
    BY <1>1 DEF HasAdmin
  <2>1. "admin" # Null
    BY NullApart DEF Roles
  <2>2. CASE accounts' = accounts
    BY <2>2 DEF HasAdmin
  <2>3. CASE Bootstrap
    BY <2>1, <2>3 DEF Bootstrap, Exists, HasAdmin
  <2>4. ASSUME NEW u \in Users, LockEnds(u) PROVE HasAdmin'
    BY <1>1, <2>4 DEF LockEnds, HasAdmin, Typed, TypeOK, Account
  <2>5. ASSUME NEW w \in Workers, Commit(w), ~ Clash(req[w]) PROVE HasAdmin'
    <3> PICK u \in Users : u = req[w].target
      BY <1>1, <2>5, Committing
    <3>1. /\ SameButLock(req[w].old, accounts[u]) /\ SameButLock(req[w].new, accounts'[u])
          /\ AdminKept(u, req[w].old, req[w].new)
          /\ \A v \in Users \ { u } : accounts'[v] = accounts[v]
      BY <1>1, <2>5, Committing DEF Decided
    <3>2. CASE a # u
      BY <3>1, <3>2 DEF HasAdmin
    <3>3. CASE a = u
      BY <3>1, <3>3 DEF HasAdmin, AdminKept, OtherAdmin, SameButLock
    <3> QED BY <3>2, <3>3
  <2> QED BY <1>1, <2>2, <2>3, <2>4, <2>5, Writers
<1>2. Typed /\ SInv /\ [Next]_vars => [HasAdmin => HasAdmin']_vars
  BY <1>1
<1> QED BY <1>2, SerialInvariance, PTL DEF Spec, AdminRemains

\* A token that stopped working never works again: whatever takes an account
\* out of service or changes it moves the version past the token's, for good.
THEOREM RevocationLasts == ASSUME OneWorker PROVE Spec => RevokedStays
<1>1. ASSUME Typed, SInv, Next, NEW t \in tokens, ~ Valid(t) PROVE ~ Valid(t)'
  <2>1. Exists(t.user) /\ t.user \in Users /\ t.version \in Nat /\ t.version <= accounts[t.user].version
    BY <1>1 DEF SInv, TablesSound, Earned, Typed, TypeOK, Token
  <2>2. CASE accounts' = accounts
    BY <1>1, <2>2 DEF Valid, Exists
  <2>3. CASE Bootstrap
    BY <2>1, <2>3 DEF Bootstrap
  <2>4. ASSUME NEW u \in Users, LockEnds(u) PROVE ~ Valid(t)'
    BY <1>1, <2>1, <2>4 DEF LockEnds, Valid, Exists, Typed, TypeOK, Account
  <2>5. ASSUME NEW w \in Workers, Commit(w), ~ Clash(req[w]) PROVE ~ Valid(t)'
    <3> PICK u \in Users : u = req[w].target
      BY <1>1, <2>5, Committing
    <3> PICK r \in Transaction : r = req[w]
      BY <1>1 DEF Typed, TypeOK
    <3>1. /\ r.old \in Account /\ r.new \in Account /\ Decided(r)
          /\ SameButLock(r.old, accounts[u]) /\ SameButLock(r.new, accounts'[u])
          /\ \A v \in Users \ { u } : accounts'[v] = accounts[v]
      BY <1>1, <2>5, Committing
    <3>2. CASE t.user # u
      BY <1>1, <2>1, <3>1, <3>2 DEF Valid, Exists
    <3>3. CASE t.user = u
      <4>1. Revokes(r.old, r.new) /\ r.old.version \in Nat /\ r.new.version \in Nat
        BY <2>1, <3>1, <3>3 DEF Exists, SameButLock, Decided, Account
      <4>2. t.version <= r.old.version /\ (~ r.old.active \/ t.version # r.old.version)
        BY <1>1, <2>1, <3>1, <3>3 DEF Valid, SameButLock
      <4>3. ~ r.new.active \/ t.version # r.new.version
        BY <2>1, <3>1, <4>1, <4>2 DEF Revokes, Account
      <4> QED BY <3>1, <3>3, <4>3 DEF Valid, SameButLock
    <3> QED BY <3>2, <3>3
  <2> QED BY <1>1, <2>2, <2>3, <2>4, <2>5, Writers
<1>2. Typed /\ SInv /\ [Next]_vars => [\A t \in tokens : ~ Valid(t) => ~ Valid(t)']_vars
  BY <1>1
<1> QED BY <1>2, SerialInvariance, PTL DEF Spec, RevokedStays
=============================================================================
