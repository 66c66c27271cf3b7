-------------------------------- MODULE Ddl --------------------------------
(***************************************************************************)
(* What the statements of a migration script do to a PostgreSQL database:  *)
(* a database is its tables (sets of columns), its keys (foreign keys and  *)
(* unique constraints), its indexes, and the rows of the three tables      *)
(* whose contents the scripts rewrite.  Column types, defaults and ON      *)
(* DELETE rules are left out.                                              *)
(***************************************************************************)
EXTENDS Naturals, Sequences, SequencesExt, FiniteSets, TLC

Null == "null"

\* Personal data in a column: the text as the citizen gave it, that text under
\* a key (named by the key), a ciphertext encrypted again, or the placeholder
\* that stands for what could not be decrypted.
Plain      == "plain"
Unreadable == "unreadable"
IsEncrypted(v) == v \notin { Null, Plain, Unreadable }

Encrypt(v, k) == IF v = Null \/ IsEncrypted(v) THEN v ELSE k

Decrypt(v, k) == IF ~ IsEncrypted(v) THEN v ELSE IF v = k THEN Plain ELSE Unreadable

-----------------------------------------------------------------------------
(* Statements *)

\* A key.  An unnamed one is given a name by PostgreSQL, which no script knows.
Unnamed == "unnamed"
Unique  == "unique"
ForeignKey(t, col, to)     == [ name |-> Unnamed, on |-> t, cols |-> { col }, to |-> to ]
UniqueKey(name, t, cols)   == [ name |-> name, on |-> t, cols |-> cols, to |-> Unique ]
Named(k, name)             == [k EXCEPT !.name = name]

CreateTable(t, cols, keys) == [ op |-> "create", on |-> t, cols |-> cols, keys |-> keys ]
DropTable(t)               == [ op |-> "drop", on |-> t ]
DropCascade(t)             == [ op |-> "cascade", on |-> t ]
AddColumns(t, cols)        == [ op |-> "add", on |-> t, cols |-> cols ]
DropColumns(t, cols)       == [ op |-> "remove", on |-> t, cols |-> cols ]
\* Indexes: a set of sets of columns.
CreateIndexes(t, sets)     == [ op |-> "index", on |-> t, sets |-> sets, unique |-> FALSE ]
UniqueIndex(t, col)        == [ op |-> "index", on |-> t, sets |-> { { col } }, unique |-> TRUE ]
DropIndexes(t, sets)       == [ op |-> "unindex", on |-> t, sets |-> sets ]
AddKey(key)                == [ op |-> "key", on |-> key.on, key |-> key ]
DropKey(t, name)           == [ op |-> "unkey", on |-> t, name |-> name ]
\* UPDATE t SET ... WHERE cond = value (value Null: cond IS NOT NULL); assign
\* gives a column the value of another column or a literal.  Remap replaces one
\* value; Recode encrypts or decrypts.
CopyWhere(t, cond, value, assign) ==
  [ op |-> "copy", on |-> t, cond |-> cond, value |-> value, assign |-> assign ]
Remap(t, cols, old, new)   == [ op |-> "remap", on |-> t, cols |-> cols, old |-> old, new |-> new ]
Recode(t, cols, how)       == [ op |-> "recode", on |-> t, cols |-> cols, how |-> how ]

Each(cols) == { { c } : c \in cols }

-----------------------------------------------------------------------------
(* Effects *)

Without(f, S) == [x \in DOMAIN f \ S |-> f[x]]

\* f with value v at x.
With(f, x, v) == [y \in DOMAIN f \cup { x } |-> IF y = x THEN v ELSE f[y]]

\* The statement fails, and with it the transaction, unless this holds.  A unique
\* key on a column that is not kept here is new: its column is still empty.
Accepted(db, s) ==
  LET there == s.on \in DOMAIN db.tables
      has(cols) == there /\ cols \subseteq db.tables[s.on]
  IN
  CASE s.op = "create" ->
         /\ ~ there
         /\ \A k \in s.keys : k.to \in DOMAIN db.tables \cup { Unique }
    [] s.op = "drop" ->
         there /\ \A k \in db.keys : k.to = s.on => k.on = s.on
    [] s.op = "cascade" -> TRUE
    [] s.op = "add" -> there /\ s.cols \cap db.tables[s.on] = {}
    [] s.op = "index" ->
         \A cols \in s.sets :
            has(cols) /\ \A i \in db.indexes : i.on = s.on => i.cols # cols
    [] s.op = "unindex" ->
         \A cols \in s.sets : \E i \in db.indexes : i.on = s.on /\ i.cols = cols
    [] s.op = "key" ->
         /\ has(s.key.cols)
         /\ s.key.to \in DOMAIN db.tables \cup { Unique }
         /\ s.key.to = Unique =>
              LET rows == IF s.on \in DOMAIN db.rows THEN db.rows[s.on] ELSE << >> IN
              \A i, j \in DOMAIN rows :
                 (\A c \in s.key.cols : c \in DOMAIN rows[i] /\ rows[i][c] = rows[j][c]) => i = j
    [] s.op = "unkey" -> \E k \in db.keys : k.on = s.on /\ k.name = s.name
    [] s.op = "copy" -> has({ s.cond } \cup DOMAIN s.assign)
    [] OTHER -> has(s.cols)

\* The tables whose rows are kept here, and of which columns.
Kept == [ incident_cases |-> { "platform_id", "case_number", "status", "dispatched_at", "track",
                               "reviewed_at", "emic_reported_at", "emic_channel" },
          case_events    |-> { "from_status", "to_status" },
          reports        |-> { "reporter_contact", "reporter_email" } ]

TablesAfter(tables, s) ==
  CASE s.op = "create" -> With(tables, s.on, s.cols)
    [] s.op \in { "drop", "cascade" } -> Without(tables, { s.on })
    [] s.op = "add" -> With(tables, s.on, tables[s.on] \cup s.cols)
    [] s.op = "remove" -> With(tables, s.on, tables[s.on] \ s.cols)
    [] OTHER -> tables

KeysAfter(keys, s) ==
  CASE s.op = "create" -> keys \cup s.keys
    [] s.op \in { "drop", "cascade" } -> { key \in keys : s.on \notin { key.on, key.to } }
    [] s.op = "remove" -> { key \in keys : key.on # s.on \/ key.cols \cap s.cols = {} }
    [] s.op = "key" -> keys \cup { s.key }
    [] s.op = "unkey" -> { key \in keys : key.on # s.on \/ key.name # s.name }
    [] OTHER -> keys

IndexesAfter(indexes, s) ==
  CASE s.op \in { "drop", "cascade" } -> { i \in indexes : i.on # s.on }
    [] s.op = "remove" -> { i \in indexes : i.on # s.on \/ i.cols \cap s.cols = {} }
    [] s.op = "index" ->
         indexes \cup { [ on |-> s.on, cols |-> c, unique |-> s.unique ] : c \in s.sets }
    [] s.op = "unindex" -> { i \in indexes : i.on # s.on \/ i.cols \notin s.sets }
    [] OTHER -> indexes

\* A row of the statement's table, by a process that encrypts with key k.
RowAfter(r, s, k) ==
  CASE s.op = "add" -> [c \in DOMAIN r \cup (s.cols \cap Kept[s.on]) |-> IF c \in DOMAIN r THEN r[c] ELSE Null]
    [] s.op = "remove" -> Without(r, s.cols)
    [] s.op = "copy" ->
         IF (s.value = Null /\ r[s.cond] = Null) \/ (s.value # Null /\ r[s.cond] # s.value) THEN r
         ELSE [c \in DOMAIN r |->
                 IF c \notin DOMAIN s.assign THEN r[c]
                 ELSE IF s.assign[c] \in DOMAIN r THEN r[s.assign[c]] ELSE s.assign[c]]
    [] s.op = "remap" -> [c \in DOMAIN r |-> IF c \in s.cols /\ r[c] = s.old THEN s.new ELSE r[c]]
    [] s.op = "recode" ->
         [c \in DOMAIN r |-> IF c \notin s.cols THEN r[c]
                             ELSE IF s.how = "encrypt" THEN Encrypt(r[c], k) ELSE Decrypt(r[c], k)]

RowsAfter(rows, s, k) ==
  CASE s.op = "create" /\ s.on \in DOMAIN Kept -> With(rows, s.on, << >>)
    [] s.op \in { "drop", "cascade" } -> Without(rows, { s.on })
    [] s.op \in { "add", "remove", "copy", "remap", "recode" } /\ s.on \in DOMAIN rows ->
         With(rows, s.on, [i \in DOMAIN rows[s.on] |-> RowAfter(rows[s.on][i], s, k)])
    [] OTHER -> rows

Exec(db, s, k) ==
  [ tables  |-> TablesAfter(db.tables, s),
    keys    |-> KeysAfter(db.keys, s),
    indexes |-> IndexesAfter(db.indexes, s),
    rows    |-> RowsAfter(db.rows, s, k) ]

\* One statement of a script: the first that is refused ends it.
Execute(run, s, k) ==
  IF run.ok /\ Accepted(run.db, s) THEN [ ok |-> TRUE, db |-> Exec(run.db, s, k) ]
  ELSE [ ok |-> FALSE, db |-> run.db ]

\* A script, statement by statement.
Run(database, script, k) ==
  LET run[n \in 0 .. Len(script)] ==
        IF n = 0 THEN [ ok |-> TRUE, db |-> database ] ELSE Execute(run[n - 1], script[n], k)
  IN  run[Len(script)]
=============================================================================
