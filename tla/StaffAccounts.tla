--------------------------- MODULE StaffAccounts ---------------------------
(***************************************************************************)
(* Staff accounts: login and lockout, tokens and their revocation, and the *)
(* administration of accounts (app/services/auth_service.py, the endpoints *)
(* of app/routers/auth.py, app/core/security.py).                          *)
(*                                                                         *)
(* A request loads the account it is about, decides on that copy (passwords*)
(* are hashed in between, which takes a while), and its commit writes the  *)
(* columns it changed over whatever the row has become.  Login and password*)
(* change then read the row again and sign a token with what they find.    *)
(*                                                                         *)
(* Left out: display names, time of the last login, the flag that asks for *)
(* a new password, and the audit rows written in the same transaction.  A  *)
(* refused request writes nothing but audit rows.                          *)
(***************************************************************************)
EXTENDS Naturals, FiniteSets

CONSTANTS
  Users,        \* user names
  Passwords,    \* passwords that satisfy the policy
  Null,         \* no role, no password, no account
  InitialAdmin, InitialPassword, \* of the first start
  GivenRoles,   \* the roles administrators hand out
  Open,         \* development mode without login: no token is needed for anything
  MaxFailures,  \* AUTH_MAX_FAILED_ATTEMPTS
  Workers,      \* requests that may be in progress together
  MaxVersion,   \* bound: no change of an account whose version is there
  MaxTokens     \* bound: no login while that many tokens are in circulation

ASSUME AdminAssumption   == InitialAdmin \in Users /\ InitialPassword \in Passwords
ASSUME OpenAssumption   == Open \in BOOLEAN
ASSUME LimitAssumption   == MaxFailures \in Nat \ { 0 }
ASSUME BoundsAssumption  == MaxVersion \in Nat /\ MaxTokens \in Nat

VARIABLES
  accounts,  \* accounts[u]: the committed users row of u
  tokens,    \* tokens signed and not yet expired
  guesses,   \* guesses[u]: wrong passwords answered since the last lock or login
  req        \* req[w]: the transaction of worker w

vars == <<accounts, tokens, guesses, req>>

-----------------------------------------------------------------------------
(* Roles and permissions: app/domain/permissions.py *)

Roles == { "officer", "supervisor", "admin" }

RolePerms ==
  [ officer    |-> { "view_console", "review_cases", "view_pii" },
    supervisor |-> { "view_console", "view_pii", "view_audit" },
    admin      |-> { "view_console", "manage_platforms", "manage_line", "manage_users", "view_audit" } ]

ASSUME RolesAssumption == GivenRoles \subseteq Roles

-----------------------------------------------------------------------------
(* The shape of the data *)

ASSUME NullAssumption == Null \notin Users \cup Passwords \cup Roles

\* lock: no locked_until, one in the future, one that has passed.
Account ==
  [ role : Roles \cup { Null }, active : BOOLEAN, password : Passwords \cup { Null },
    failed : Nat, lock : { "none", "locked", "expired" }, version : Nat ]

NoAccount ==
  [ role |-> Null, active |-> FALSE, password |-> Null, failed |-> 0, lock |-> "none", version |-> 0 ]

NewAccount(role, password) ==
  [NoAccount EXCEPT !.role = role, !.active = TRUE, !.password = password]

\* A token names its account and the version of it; with it goes the password
\* its holder proved to know.
Token == [ user : Users, version : Nat, password : Passwords ]

Transaction ==
  [ pc : { "idle", "loaded", "decided", "committed" },
    kind : { "none", "login", "failure", "logout", "password", "create", "update" },
    actor : Users \cup { Null }, target : Users, old : Account, new : Account ]

Idle ==
  [ pc |-> "idle", kind |-> "none", actor |-> Null, target |-> InitialAdmin,
    old |-> NoAccount, new |-> NoAccount ]

Init ==
  /\ accounts = [u \in Users |-> NoAccount]
  /\ tokens = {}
  /\ guesses = [u \in Users |-> 0]
  /\ req = [w \in Workers |-> Idle]

Exists(u) == accounts[u].role # Null

\* bootstrap_admin: at a start that finds no account.
Bootstrap ==
  /\ \A u \in Users : ~ Exists(u)
  /\ \A w \in Workers : req[w].pc = "idle"
  /\ accounts' = [accounts EXCEPT ![InitialAdmin] = NewAccount("admin", InitialPassword)]
  /\ UNCHANGED <<tokens, guesses, req>>

-----------------------------------------------------------------------------
(* A request arrives: get_principal, require *)

\* user_from_token: signature and expiry apart.
Valid(t) ==
  /\ Exists(t.user) /\ accounts[t.user].active
  /\ accounts[t.user].version = t.version

\* The caller may administer accounts; without a token it has no account.
MayManage(actor) ==
  IF actor = Null THEN Open
  ELSE /\ \E t \in tokens : t.user = actor /\ Valid(t)
       /\ "manage_users" \in RolePerms[accounts[actor].role]

Load(w, kind, actor, target) ==
  /\ req[w].pc = "idle"
  /\ kind # "login" => accounts[target].version < MaxVersion
  /\ kind = "login" => Cardinality(tokens) < MaxTokens
  /\ req' = [req EXCEPT ![w] =
       [Idle EXCEPT !.pc = "loaded", !.kind = kind, !.actor = actor, !.target = target,
                    !.old = accounts[target]]]
  /\ UNCHANGED <<accounts, tokens, guesses>>

Arrive(w) ==
  \/ \E u \in Users : Load(w, "login", Null, u)
  \/ \E t \in tokens, kind \in { "logout", "password" } :
       Valid(t) /\ Load(w, kind, t.user, t.user)
  \/ \E actor \in Users \cup { Null }, u \in Users :
       /\ MayManage(actor)
       /\ \/ Load(w, "create", actor, u)
          \/ Exists(u) /\ Load(w, "update", actor, u)

-----------------------------------------------------------------------------
(* What a request makes of what it loaded *)

Decide(w, kind, row) ==
  /\ req' = [req EXCEPT ![w].pc = "decided", ![w].kind = kind, ![w].new = row]
  /\ UNCHANGED <<accounts, tokens, guesses>>

\* The operators marked "slip" are mistakes a change to the next operator could
\* make; no action uses them.
Failed_slip(row) ==
  IF row.failed >= MaxFailures THEN [row EXCEPT !.failed = 0, !.lock = "locked"]
  ELSE [row EXCEPT !.failed = @ + 1]

\* One more failure; the last one allowed locks the account.
Failed(row) ==
  IF row.failed + 1 >= MaxFailures THEN [row EXCEPT !.failed = 0, !.lock = "locked"]
  ELSE [row EXCEPT !.failed = @ + 1]

\* login with password p: not to an unknown account or while it is locked.
Login(w, p) ==
  LET row == req[w].old IN
  /\ req[w].pc = "loaded" /\ req[w].kind = "login"
  /\ row.role # Null /\ row.lock # "locked"
  /\ IF row.active /\ row.password = p
     THEN Decide(w, "login", [row EXCEPT !.failed = 0, !.lock = "none"])
     ELSE Decide(w, "failure", Failed(row))

Logout(w) ==
  /\ req[w].pc = "loaded" /\ req[w].kind = "logout"
  /\ Decide(w, "logout", [req[w].old EXCEPT !.version = @ + 1])

\* change_password: whoever knows the current one (the others are refused).
ChangePassword(w, p) ==
  /\ req[w].pc = "loaded" /\ req[w].kind = "password"
  /\ p # req[w].old.password
  /\ Decide(w, "password", [req[w].old EXCEPT !.password = p, !.version = @ + 1])

CreateUser(w, role, p) ==
  /\ req[w].pc = "loaded" /\ req[w].kind = "create"
  /\ ~ Exists(req[w].target)
  /\ Decide(w, "create", NewAccount(role, p))

OtherAdmin_slip(u) == \E v \in Users \ { u } : accounts[v].role = "admin"

OtherAdmin(u) == \E v \in Users \ { u } : accounts[v].role = "admin" /\ accounts[v].active

\* _ensure_admin_remains: account u, now like row, is to have role and active.
AdminStays(u, row, role, active) ==
  \/ row.role # "admin" \/ ~ row.active
  \/ role = "admin" /\ active
  \/ OtherAdmin(u)

Activated_slip(row, active) == [row EXCEPT !.active = active]

\* The parts of update_user; each revokes the tokens of the account.
Activated(row, active)  == [row EXCEPT !.active = active, !.version = @ + 1]
Promoted(row, role)     == [row EXCEPT !.role = role, !.version = @ + 1]

PasswordReset_slip(row, p) == [row EXCEPT !.password = p, !.failed = 0, !.lock = "none"]

PasswordReset(row, p) ==
  [row EXCEPT !.password = p, !.version = @ + 1, !.failed = 0, !.lock = "none"]

\* update_user: each part is given or Null; active is given as "on" or "off".
\* Nobody changes the own role or takes the own account out of service.  A
\* reset to the password in force is left out.
UpdateUser(w, role, active, p) ==
  LET r    == req[w]
      self == r.actor = r.target
      row1 == IF role \in { Null, r.old.role } THEN r.old ELSE Promoted(r.old, role)
      row2 == IF active = Null \/ row1.active = (active = "on") THEN row1
              ELSE Activated(row1, active = "on")
  IN
  /\ r.pc = "loaded" /\ r.kind = "update" /\ p # r.old.password
  /\ row1 # r.old => ~ self /\ AdminStays(r.target, r.old, role, r.old.active)
  /\ row2 # row1 /\ active = "off" => ~ self /\ AdminStays(r.target, row1, row1.role, FALSE)
  /\ Decide(w, "update", IF p = Null THEN row2 ELSE PasswordReset(row2, p))

\* Every other answer: unknown or locked account, wrong current password, a
\* name taken, a change that is not allowed.
Refuse(w) ==
  /\ req[w].pc = "loaded"
  /\ req[w].kind = "login" => req[w].old.role = Null \/ req[w].old.lock = "locked"
  /\ req[w].kind # "logout"
  /\ req' = [req EXCEPT ![w] = Idle]
  /\ UNCHANGED <<accounts, tokens, guesses>>

-----------------------------------------------------------------------------
(* The end of a transaction *)

\* The UPDATE names the columns whose value changed.
Col(old, new, cur) == IF new # old THEN new ELSE cur

Written(old, new, cur) ==
  [ role     |-> Col(old.role, new.role, cur.role),
    active   |-> Col(old.active, new.active, cur.active),
    password |-> Col(old.password, new.password, cur.password),
    failed   |-> Col(old.failed, new.failed, cur.failed),
    lock     |-> Col(old.lock, new.lock, cur.lock),
    version  |-> Col(old.version, new.version, cur.version) ]

\* A wrong password was answered; a lock, a login or a reset begins anew.
Guessed(kind, row, n) ==
  IF kind = "failure" THEN IF row.lock = "locked" THEN 0 ELSE n + 1
  ELSE IF kind = "login" \/ (row.failed = 0 /\ row.lock = "none" /\ kind = "update") THEN 0
  ELSE n

\* users.username is unique: of two requests that insert a name the second fails.
Clash(r) == r.kind = "create" /\ Exists(r.target)

Commit(w) ==
  LET r == req[w] IN
  /\ r.pc = "decided"
  /\ IF Clash(r)
     THEN /\ req' = [req EXCEPT ![w] = Idle]
          /\ UNCHANGED <<accounts, guesses>>
     ELSE /\ accounts' = [accounts EXCEPT ![r.target] = Written(r.old, r.new, @)]
          /\ guesses' = [guesses EXCEPT ![r.target] = Guessed(r.kind, r.new, @)]
          /\ req' = [req EXCEPT ![w] = IF r.kind \in { "login", "password" }
                                       THEN [r EXCEPT !.pc = "committed"] ELSE Idle]
  /\ UNCHANGED tokens

\* issue_token, behind a refresh of the row.
Issue(w) ==
  LET r == req[w] IN
  /\ r.pc = "committed"
  /\ tokens' = tokens \cup
       { [ user |-> r.target, version |-> accounts[r.target].version, password |-> r.new.password ] }
  /\ req' = [req EXCEPT ![w] = Idle]
  /\ UNCHANGED <<accounts, guesses>>

\* The process or its connection dies.
Abort(w) ==
  /\ req[w].pc # "idle"
  /\ req' = [req EXCEPT ![w] = Idle]
  /\ UNCHANGED <<accounts, tokens, guesses>>

\* Time passes: AUTH_LOCK_MINUTES, AUTH_TOKEN_HOURS.
LockEnds(u) ==
  /\ accounts[u].lock = "locked"
  /\ accounts' = [accounts EXCEPT ![u].lock = "expired"]
  /\ UNCHANGED <<tokens, guesses, req>>

Expire(t) ==
  /\ tokens' = tokens \ { t }
  /\ UNCHANGED <<accounts, guesses, req>>

-----------------------------------------------------------------------------
(* The specification *)

Handle(w) ==
  \/ Logout(w) \/ Refuse(w)
  \/ \E p \in Passwords : Login(w, p) \/ ChangePassword(w, p)
  \/ \E role \in GivenRoles, p \in Passwords : CreateUser(w, role, p)
  \/ \E role \in GivenRoles \cup { Null }, active \in { "on", "off", Null },
        p \in Passwords \cup { Null } : UpdateUser(w, role, active, p)

Next ==
  \/ Bootstrap
  \/ \E w \in Workers : Arrive(w) \/ Handle(w) \/ Commit(w) \/ Issue(w) \/ Abort(w)
  \/ \E u \in Users : LockEnds(u)
  \/ \E t \in tokens : Expire(t)

Spec == Init /\ [][Next]_vars

-----------------------------------------------------------------------------
(* What holds *)

\* Every variable has its type (the columns of db/models.py).
TypeOK ==
  /\ accounts \in [Users -> Account]
  /\ tokens \subseteq Token
  /\ guesses \in [Users -> Nat]
  /\ req \in [Workers -> Transaction]

HasAdmin == \E u \in Users : accounts[u].role = "admin" /\ accounts[u].active

\* When requests do not overlap, an administrator in service remains once there
\* is one (_ensure_admin_remains), also where callers need no account.
AdminRemains == [][HasAdmin => HasAdmin']_vars

\* "Bumping token_version revokes every token issued before it": a token that
\* stopped working never works again.
RevokedStays == [][\A t \in tokens : ~ Valid(t) => ~ Valid(t)']_vars

\* When requests do not overlap, whoever holds a token that works proved to know
\* the password that is in force: a change or a reset takes all others out.
TokenBacked == \A t \in tokens : Valid(t) => t.password = accounts[t.user].password

\* When requests do not overlap, the account is locked by the time MaxFailures
\* wrong passwords in a row were answered.
GuessesBounded == \A u \in Users : guesses[u] < MaxFailures
=============================================================================
