-------------------------- MODULE Migrations_proofs --------------------------
(***************************************************************************)
(* Proofs about Migrations, for every set of cases, reports and keys, any  *)
(* number of rows and any number of commands.                              *)
(*                                                                         *)
(* What the scripts make of the schema depends on no row: evaluating it on *)
(* empty databases settles it (SchemasAssumption).  The proofs carry that  *)
(* over to databases with rows, and follow the rows.  A script is walked   *)
(* statement by statement: a schema is like another if they agree in all   *)
(* but the rows, every statement keeps that, and only a unique key may     *)
(* find rows in its way.  The rows then have an invariant of their own for *)
(* each version: 0014 is walked with one for each status it has renamed.   *)
(***************************************************************************)
EXTENDS Migrations, SequenceTheorems, WellFoundedInduction, TLAPS

-----------------------------------------------------------------------------
(* Scripts, statement by statement *)

\* A set of numbers has a least one: the form induction takes here.
LEMMA Least ==
  ASSUME NEW T, T \subseteq Nat, T # {}
  PROVE  \E m \in T : \A n \in T : m <= n
<1> PICK R : R = { pair \in Nat \X Nat : pair[1] < pair[2] }
  OBVIOUS
<1>1. IsWellFoundedOn(R, Nat)
  BY NatLessThanWellFounded DEF OpToRel
<1>2. PICK m \in T : \A n \in T : <<n, m>> \notin R
  BY <1>1, WFMin
<1>3. \A n \in T : ~ (n < m)
  BY <1>2
<1> QED BY <1>3

\* What holds at 0 and goes from each number to the next holds up to n.
LEMMA UpTo ==
  ASSUME NEW n \in Nat, NEW T, 0 \in T, \A i \in 1..n : i - 1 \in T => i \in T
  PROVE  \A i \in 0..n : i \in T
<1> PICK U : U = { i \in 0..n : i \notin T }
  OBVIOUS
<1>1. CASE U # {}
  <2>0. U \subseteq Nat
    BY SMT
  <2> PICK m \in U : \A i \in U : m <= i
    BY <1>1, <2>0, Least
  <2>1. m \in 1..n /\ m \notin T
    OBVIOUS
  <2>2. m - 1 \in 0..n /\ m - 1 \notin U
    BY <2>1
  <2> QED BY <2>1, <2>2
<1> QED BY <1>1

\* The states of a script that starts at d, after each of its first n statements.
Trace(f, d, script, k, n) ==
  f = [i \in 0..n |-> IF i = 0 THEN [ ok |-> TRUE, db |-> d ] ELSE Execute(f[i - 1], script[i], k)]

LEMMA TraceExists ==
  ASSUME NEW d, NEW script, NEW k, NEW n \in Nat
  PROVE  \E f : Trace(f, d, script, k, n)
<1> PICK T : T = { i \in 0..n : \E f : Trace(f, d, script, k, i) }
  OBVIOUS
<1>1. 0 \in T
  <2> PICK f : f = [i \in 0..0 |-> [ ok |-> TRUE, db |-> d ]]
    OBVIOUS
  <2>1. Trace(f, d, script, k, 0)
    BY DEF Trace
  <2> QED BY <2>1
<1>2. ASSUME NEW m \in 1..n, m - 1 \in T PROVE m \in T
  <2> PICK f : Trace(f, d, script, k, m - 1)
    BY <1>2
  <2> PICK last : last = Execute(f[m - 1], script[m], k)
    OBVIOUS
  <2> PICK g : g = [i \in 0..m |-> IF i = m THEN last ELSE f[i]]
    OBVIOUS
  <2>1. \A i \in 0..m - 1 : g[i] = f[i]
    OBVIOUS
  <2>2. ASSUME NEW i \in 0..m
        PROVE  g[i] = IF i = 0 THEN [ ok |-> TRUE, db |-> d ] ELSE Execute(g[i - 1], script[i], k)
    <3>1. CASE i = m
      BY <2>1, <3>1
    <3>2. CASE i # m
      <4>1. i \in 0..m-1 /\ g[i] = f[i] /\ (i # 0 => g[i - 1] = f[i - 1])
        BY <2>1, <3>2
      <4> QED BY <4>1 DEF Trace
    <3> QED BY <3>1, <3>2
  <2>3. Trace(g, d, script, k, m)
    BY <2>2 DEF Trace
  <2> QED BY <2>3
<1>3. \A i \in 0..n : i \in T
  BY <1>1, <1>2, UpTo
<1>4. n \in T
  BY <1>3
<1> QED BY <1>4

LEMMA RunTrace ==
  ASSUME NEW d, NEW script, NEW k, Len(script) \in Nat
  PROVE  \E f : Trace(f, d, script, k, Len(script)) /\ Run(d, script, k) = f[Len(script)]
<1> PICK f : f = CHOOSE g : Trace(g, d, script, k, Len(script))
  OBVIOUS
<1>1. Trace(f, d, script, k, Len(script))
  BY TraceExists
<1>2. Run(d, script, k) = f[Len(script)]
  BY DEF Run, Trace
<1> QED BY <1>1, <1>2

LEMMA TraceStart ==
  ASSUME NEW d, NEW script, NEW k, NEW n \in Nat, NEW f, Trace(f, d, script, k, n)
  PROVE  f[0].ok /\ f[0].db = d
<1>1. f[0] = [ ok |-> TRUE, db |-> d ]
  BY DEF Trace
<1> QED BY <1>1

LEMMA TraceStep ==
  ASSUME NEW d, NEW script, NEW k, NEW n \in Nat, NEW f, Trace(f, d, script, k, n), NEW i \in 1..n
  PROVE  /\ f[i].ok <=> f[i - 1].ok /\ Accepted(f[i - 1].db, script[i])
         /\ f[i].ok => f[i].db = Exec(f[i - 1].db, script[i], k)
<1>0. i \in 0..n /\ i # 0
  OBVIOUS
<1>1. f[i] = Execute(f[i - 1], script[i], k)
  BY <1>0, Zenon DEF Trace
<1>2. CASE f[i - 1].ok /\ Accepted(f[i - 1].db, script[i])
  <2>1. f[i] = [ ok |-> TRUE, db |-> Exec(f[i - 1].db, script[i], k) ]
    BY <1>1, <1>2 DEF Execute
  <2>2. f[i].ok /\ f[i].db = Exec(f[i - 1].db, script[i], k)
    BY <2>1
  <2> QED BY <1>2, <2>2
<1>3. CASE ~ (f[i - 1].ok /\ Accepted(f[i - 1].db, script[i]))
  <2>1. f[i] = [ ok |-> FALSE, db |-> f[i - 1].db ]
    BY <1>1, <1>3 DEF Execute
  <2>2. ~ f[i].ok
    BY <2>1
  <2> QED BY <1>3, <2>2
<1> QED BY <1>2, <1>3

-----------------------------------------------------------------------------
(* What one statement does *)

\* The same schema, and the same tables with rows.
Like(d, x) ==
  d.tables = x.tables /\ d.keys = x.keys /\ d.indexes = x.indexes /\ DOMAIN d.rows = DOMAIN x.rows

\* No table has a row.
Empty(rows) == \A t \in DOMAIN rows : DOMAIN rows[t] = {}

\* The rows kept have the columns of their table.
Sound(d) ==
  /\ DOMAIN d.rows \subseteq DOMAIN d.tables
  /\ \A t \in DOMAIN d.rows : \A i \in DOMAIN d.rows[t] :
        DOMAIN d.rows[t][i] = Kept[t] \cap d.tables[t]

\* The rows of d allow the unique key that s adds.
NoClash(d, s) ==
  s.op = "key" /\ s.key.to = Unique /\ s.on \in DOMAIN d.rows =>
    \A i, j \in DOMAIN d.rows[s.on] :
      (\A c \in s.key.cols : c \in DOMAIN d.rows[s.on][i] /\ d.rows[s.on][i][c] = d.rows[s.on][j][c])
        => i = j

TablesWithRows(S, s) ==
  IF s.op = "create" THEN S \cup ({ s.on } \cap DOMAIN Kept)
  ELSE IF s.op \in { "drop", "cascade" } THEN S \ { s.on } ELSE S

Rewriting == { "add", "remove", "copy", "remap", "recode" }

LEMMA RowsCreated ==
  ASSUME NEW rows, NEW s, NEW k, s.op = "create", s.on \in DOMAIN Kept
  PROVE  /\ \A t : t \in DOMAIN RowsAfter(rows, s, k) <=> t \in DOMAIN rows \/ t = s.on
         /\ RowsAfter(rows, s, k)[s.on] = << >>
         /\ \A t \in DOMAIN rows : t # s.on => RowsAfter(rows, s, k)[t] = rows[t]
<1> PICK on : on = s.on
  OBVIOUS
<1>1. RowsAfter(rows, s, k) = [t \in DOMAIN rows \cup { on } |-> IF t = on THEN << >> ELSE rows[t]]
  BY DEF RowsAfter, With
<1> QED BY <1>1

LEMMA RowsDropped ==
  ASSUME NEW rows, NEW s, NEW k, s.op \in { "drop", "cascade" }
  PROVE  /\ \A t : t \in DOMAIN RowsAfter(rows, s, k) <=> t \in DOMAIN rows /\ t # s.on
         /\ \A t \in DOMAIN rows : t # s.on => RowsAfter(rows, s, k)[t] = rows[t]
<1> PICK on : on = s.on
  OBVIOUS
<1>1. RowsAfter(rows, s, k) = [t \in DOMAIN rows \ { on } |-> rows[t]]
  BY DEF RowsAfter, Without
<1> QED BY <1>1

\* The rows of the table a statement rewrites.
LEMMA RowsRewritten ==
  ASSUME NEW rows, NEW s, NEW k, s.op \in Rewriting, s.on \in DOMAIN rows
  PROVE  /\ DOMAIN RowsAfter(rows, s, k) = DOMAIN rows
         /\ DOMAIN RowsAfter(rows, s, k)[s.on] = DOMAIN rows[s.on]
         /\ \A i \in DOMAIN rows[s.on] :
              RowsAfter(rows, s, k)[s.on][i] = RowAfter(rows[s.on][i], s, k)
         /\ \A t \in DOMAIN rows : t # s.on => RowsAfter(rows, s, k)[t] = rows[t]
<1> PICK on : on = s.on
  OBVIOUS
<1> PICK new : new = [i \in DOMAIN rows[on] |-> RowAfter(rows[on][i], s, k)]
  OBVIOUS
<1>1. RowsAfter(rows, s, k) = [t \in DOMAIN rows \cup { on } |-> IF t = on THEN new ELSE rows[t]]
  BY DEF RowsAfter, With, Rewriting
<1>2. DOMAIN rows \cup { on } = DOMAIN rows
  OBVIOUS
<1>3. /\ DOMAIN RowsAfter(rows, s, k) = DOMAIN rows
      /\ RowsAfter(rows, s, k)[on] = new
      /\ \A t \in DOMAIN rows : t # on => RowsAfter(rows, s, k)[t] = rows[t]
  BY <1>1, <1>2
<1> QED BY <1>3

LEMMA RowsAlone ==
  ASSUME NEW rows, NEW s, NEW k,
         s.op = "create" => s.on \notin DOMAIN Kept,
         s.op \notin { "drop", "cascade" },
         s.op \in Rewriting => s.on \notin DOMAIN rows
  PROVE  RowsAfter(rows, s, k) = rows
BY DEF RowsAfter, Rewriting

LEMMA RowTablesAfter ==
  ASSUME NEW rows, NEW s, NEW k, NEW t
  PROVE  t \in DOMAIN RowsAfter(rows, s, k) <=> t \in TablesWithRows(DOMAIN rows, s)
<1>1. CASE s.op = "create" /\ s.on \in DOMAIN Kept
  BY <1>1, RowsCreated DEF TablesWithRows
<1>2. CASE s.op = "create" /\ s.on \notin DOMAIN Kept
  <2>1. RowsAfter(rows, s, k) = rows
    BY <1>2 DEF RowsAfter
  <2> QED BY <1>2, <2>1 DEF TablesWithRows
<1>3. CASE s.op \in { "drop", "cascade" }
  BY <1>3, RowsDropped DEF TablesWithRows
<1>4. CASE s.op \in Rewriting /\ s.on \in DOMAIN rows
  <2>1. TablesWithRows(DOMAIN rows, s) = DOMAIN rows
    BY <1>4 DEF TablesWithRows, Rewriting
  <2> QED BY <1>4, <2>1, RowsRewritten
<1>5. CASE s.op \notin { "create", "drop", "cascade" } /\ ~ (s.op \in Rewriting /\ s.on \in DOMAIN rows)
  <2>1. TablesWithRows(DOMAIN rows, s) = DOMAIN rows
    BY <1>5 DEF TablesWithRows
  <2> QED BY <1>5, <2>1, RowsAlone
<1> QED BY <1>1, <1>2, <1>3, <1>4, <1>5

\* The rows of a table t other than the statement's stay, and all rows where the
\* statement is about indexes or keys.
Aside(s, t) == s.on # t \/ s.op \in { "index", "unindex", "key", "unkey" }

LEMMA RowsAside ==
  ASSUME NEW rows, NEW s, NEW k, NEW t, Aside(s, t)
  PROVE  /\ t \in DOMAIN RowsAfter(rows, s, k) <=> t \in DOMAIN rows
         /\ t \in DOMAIN rows => RowsAfter(rows, s, k)[t] = rows[t]
<1>1. CASE s.op \in { "index", "unindex", "key", "unkey" }
  BY <1>1, RowsAlone DEF Rewriting
<1>2. CASE s.on # t
  <2>1. CASE s.op = "create" /\ s.on \in DOMAIN Kept
    BY <1>2, <2>1, RowsCreated
  <2>2. CASE s.op \in { "drop", "cascade" }
    BY <1>2, <2>2, RowsDropped
  <2>3. CASE s.op \in Rewriting /\ s.on \in DOMAIN rows
    BY <1>2, <2>3, RowsRewritten
  <2> QED BY <2>1, <2>2, <2>3, RowsAlone
<1> QED BY <1>1, <1>2 DEF Aside

LEMMA EmptyStays ==
  ASSUME NEW rows, Empty(rows), NEW s, NEW k
  PROVE  Empty(RowsAfter(rows, s, k))
<1>1. CASE s.op = "create" /\ s.on \in DOMAIN Kept
  <2>1. DOMAIN << >> = {}
    OBVIOUS
  <2> QED BY <1>1, <2>1, RowsCreated DEF Empty
<1>2. CASE s.op \in { "drop", "cascade" }
  BY <1>2, RowsDropped DEF Empty
<1>3. CASE s.op \in Rewriting /\ s.on \in DOMAIN rows
  BY <1>3, RowsRewritten DEF Empty
<1> QED BY <1>1, <1>2, <1>3, RowsAlone

LEMMA ExecFields ==
  ASSUME NEW d, NEW s, NEW k
  PROVE  /\ Exec(d, s, k).tables = TablesAfter(d.tables, s)
         /\ Exec(d, s, k).keys = KeysAfter(d.keys, s)
         /\ Exec(d, s, k).indexes = IndexesAfter(d.indexes, s)
         /\ Exec(d, s, k).rows = RowsAfter(d.rows, s, k)
BY DEF Exec

LEMMA ExecLike ==
  ASSUME NEW d, NEW x, Like(d, x), NEW s, NEW k, NEW l
  PROVE  Like(Exec(d, s, k), Exec(x, s, l))
<1> PICK e, y : e = Exec(d, s, k) /\ y = Exec(x, s, l)
  OBVIOUS
<1>1. e.tables = y.tables /\ e.keys = y.keys /\ e.indexes = y.indexes
  BY ExecFields DEF Like
<1>2. e.rows = RowsAfter(d.rows, s, k) /\ y.rows = RowsAfter(x.rows, s, l)
  BY ExecFields
<1>3. \A t : t \in DOMAIN e.rows <=> t \in DOMAIN y.rows
  BY <1>2, RowTablesAfter DEF Like
<1>4. DOMAIN e.rows = DOMAIN y.rows
  BY <1>3, Zenon
<1> QED BY <1>1, <1>4 DEF Like

LEMMA AcceptedLike ==
  ASSUME NEW d, NEW x, Like(d, x), Empty(x.rows), NEW s
  PROVE  /\ Accepted(d, s) => Accepted(x, s)
         /\ Accepted(x, s) /\ NoClash(d, s) => Accepted(d, s)
<1>1. CASE s.op # "key"
  BY <1>1 DEF Accepted, Like
<1>2. CASE s.op = "key"
  <2>1. \A t \in DOMAIN x.rows : \A i \in DOMAIN x.rows[t] : FALSE
    BY DEF Empty
  <2> PICK rows : rows = IF s.on \in DOMAIN d.rows THEN d.rows[s.on] ELSE << >>
    OBVIOUS
  <2>2. NoClash(d, s) /\ s.key.to = Unique =>
          \A i, j \in DOMAIN rows :
            (\A c \in s.key.cols : c \in DOMAIN rows[i] /\ rows[i][c] = rows[j][c]) => i = j
    BY <1>2 DEF NoClash
  <2>3. Accepted(x, s) /\ NoClash(d, s) => Accepted(d, s)
    BY <1>2, <2>2 DEF Accepted, Like
  <2>4. Accepted(d, s) => Accepted(x, s)
    BY <1>2, <2>1 DEF Accepted, Like
  <2> QED BY <2>3, <2>4
<1> QED BY <1>1, <1>2

LEMMA TablesKept ==
  ASSUME NEW tables, NEW s, s.op \in { "create", "add", "remove" }, NEW t \in DOMAIN tables, t # s.on
  PROVE  t \in DOMAIN TablesAfter(tables, s) /\ TablesAfter(tables, s)[t] = tables[t]
<1> PICK on : on = s.on
  OBVIOUS
<1>1. PICK v : TablesAfter(tables, s) = [y \in DOMAIN tables \cup { on } |-> IF y = on THEN v ELSE tables[y]]
  BY DEF TablesAfter, With
<1> QED BY <1>1

LEMMA TablesDropped ==
  ASSUME NEW tables, NEW s, s.op \in { "drop", "cascade" }, NEW t \in DOMAIN tables, t # s.on
  PROVE  t \in DOMAIN TablesAfter(tables, s) /\ TablesAfter(tables, s)[t] = tables[t]
<1> PICK on : on = s.on
  OBVIOUS
<1>1. TablesAfter(tables, s) = [y \in DOMAIN tables \ { on } |-> tables[y]]
  BY DEF TablesAfter, Without
<1> QED BY <1>1

LEMMA TableChanged ==
  ASSUME NEW tables, NEW s, s.op \in { "create", "add", "remove" }
  PROVE  /\ s.on \in DOMAIN TablesAfter(tables, s)
         /\ s.op = "add" => TablesAfter(tables, s)[s.on] = tables[s.on] \cup s.cols
         /\ s.op = "remove" => TablesAfter(tables, s)[s.on] = tables[s.on] \ s.cols
<1> PICK on : on = s.on
  OBVIOUS
<1>1. CASE s.op = "create"
  <2>1. TablesAfter(tables, s) = [y \in DOMAIN tables \cup { on } |-> IF y = on THEN s.cols ELSE tables[y]]
    BY <1>1 DEF TablesAfter, With
  <2> QED BY <1>1, <2>1
<1>2. CASE s.op = "add"
  <2>1. TablesAfter(tables, s) =
          [y \in DOMAIN tables \cup { on } |-> IF y = on THEN tables[on] \cup s.cols ELSE tables[y]]
    BY <1>2 DEF TablesAfter, With
  <2> QED BY <1>2, <2>1
<1>3. CASE s.op = "remove"
  <2>1. TablesAfter(tables, s) =
          [y \in DOMAIN tables \cup { on } |-> IF y = on THEN tables[on] \ s.cols ELSE tables[y]]
    BY <1>3 DEF TablesAfter, With
  <2> QED BY <1>3, <2>1
<1> QED BY <1>1, <1>2, <1>3

LEMMA RowColumns ==
  ASSUME NEW r, NEW s, NEW k
  PROVE  /\ s.op = "add" => DOMAIN RowAfter(r, s, k) = DOMAIN r \cup (s.cols \cap Kept[s.on])
         /\ s.op = "remove" => DOMAIN RowAfter(r, s, k) = DOMAIN r \ s.cols
         /\ s.op \in { "copy", "remap", "recode" } => DOMAIN RowAfter(r, s, k) = DOMAIN r
<1>1. CASE s.op = "add"
  BY <1>1 DEF RowAfter
<1>2. CASE s.op = "remove"
  BY <1>2 DEF RowAfter, Without
<1>3. CASE s.op = "copy"
  BY <1>3 DEF RowAfter
<1>4. CASE s.op = "remap"
  BY <1>4 DEF RowAfter
<1>5. CASE s.op = "recode"
  BY <1>5 DEF RowAfter
<1> QED BY <1>1, <1>2, <1>3, <1>4, <1>5

LEMMA SoundStays ==
  ASSUME NEW d, Sound(d), NEW s, Accepted(d, s), NEW k
  PROVE  Sound(Exec(d, s, k))
<1>0. PICK rows, tables : rows = d.rows /\ tables = d.tables
  OBVIOUS
<1>1. /\ DOMAIN rows \subseteq DOMAIN tables
      /\ \A t \in DOMAIN rows : \A i \in DOMAIN rows[t] : DOMAIN rows[t][i] = Kept[t] \cap tables[t]
  BY <1>0 DEF Sound
<1>a. PICK rows1, tables1 : rows1 = RowsAfter(rows, s, k) /\ tables1 = TablesAfter(tables, s)
  OBVIOUS
<1>2. /\ DOMAIN rows1 \subseteq DOMAIN tables1
      /\ \A t \in DOMAIN rows1 : \A i \in DOMAIN rows1[t] : DOMAIN rows1[t][i] = Kept[t] \cap tables1[t]
  <2>1. CASE s.op = "create"
    <3>1. s.on \notin DOMAIN rows
      BY <1>0, <1>1, <2>1 DEF Accepted
    <3>2. \A t \in DOMAIN rows : t \in DOMAIN tables1 /\ tables1[t] = tables[t]
      BY <1>a, <1>1, <2>1, <3>1, TablesKept
    <3>3. s.on \in DOMAIN tables1
      BY <1>a, <2>1, TableChanged
    <3>4. CASE s.on \in DOMAIN Kept
      <4>1. DOMAIN << >> = {}
        OBVIOUS
      <4>2. /\ \A t : t \in DOMAIN rows1 <=> t \in DOMAIN rows \/ t = s.on
            /\ rows1[s.on] = << >>
            /\ \A t \in DOMAIN rows : t # s.on => rows1[t] = rows[t]
        BY <1>a, <2>1, <3>4, RowsCreated
      <4>3. DOMAIN rows1 \subseteq DOMAIN tables1
        BY <3>2, <3>3, <4>2
      <4>4. ASSUME NEW t \in DOMAIN rows1, NEW i \in DOMAIN rows1[t]
            PROVE  DOMAIN rows1[t][i] = Kept[t] \cap tables1[t]
        <5>1. t # s.on
          BY <4>1, <4>2, <4>4
        <5>2. t \in DOMAIN rows /\ rows1[t] = rows[t] /\ tables1[t] = tables[t]
          BY <3>2, <4>2, <4>4, <5>1
        <5> QED BY <1>1, <4>4, <5>2
      <4> QED BY <4>3, <4>4
    <3>5. CASE s.on \notin DOMAIN Kept
      <4>1. rows1 = rows
        BY <1>a, <2>1, <3>5, RowsAlone DEF Rewriting
      <4> QED BY <1>1, <3>2, <4>1
    <3> QED BY <3>4, <3>5
  <2>2. CASE s.op \in { "drop", "cascade" }
    <3>1. /\ \A t : t \in DOMAIN rows1 <=> t \in DOMAIN rows /\ t # s.on
          /\ \A t \in DOMAIN rows : t # s.on => rows1[t] = rows[t]
      BY <1>a, <2>2, RowsDropped
    <3>2. ASSUME NEW t \in DOMAIN rows1 PROVE t \in DOMAIN tables1 /\ tables1[t] = tables[t]
      <4>1. t \in DOMAIN tables /\ t # s.on
        BY <1>1, <3>1
      <4> QED BY <1>a, <2>2, <4>1, TablesDropped
    <3> QED BY <1>1, <3>1, <3>2
  <2>3. CASE s.op \in { "add", "remove" }
    <3>1. \A t \in DOMAIN tables : t # s.on => t \in DOMAIN tables1 /\ tables1[t] = tables[t]
      BY <1>a, <2>3, TablesKept
    <3>2. CASE s.on \in DOMAIN rows
      <4>1. /\ DOMAIN rows1 = DOMAIN rows /\ DOMAIN rows1[s.on] = DOMAIN rows[s.on]
            /\ \A i \in DOMAIN rows[s.on] : rows1[s.on][i] = RowAfter(rows[s.on][i], s, k)
            /\ \A t \in DOMAIN rows : t # s.on => rows1[t] = rows[t]
        BY <1>a, <2>3, <3>2, RowsRewritten DEF Rewriting
      <4>2. /\ s.on \in DOMAIN tables1
            /\ s.op = "add" => tables1[s.on] = tables[s.on] \cup s.cols
            /\ s.op = "remove" => tables1[s.on] = tables[s.on] \ s.cols
        BY <1>a, <2>3, TableChanged
      <4>3. DOMAIN rows1 \subseteq DOMAIN tables1
        BY <1>1, <3>1, <4>1, <4>2
      <4>4. ASSUME NEW i \in DOMAIN rows1[s.on] PROVE DOMAIN rows1[s.on][i] = Kept[s.on] \cap tables1[s.on]
        <5>1. DOMAIN rows[s.on][i] = Kept[s.on] \cap tables[s.on]
          BY <1>1, <3>2, <4>1
        <5>0. PICK r : r = rows[s.on][i]
          OBVIOUS
        <5>2. rows1[s.on][i] = RowAfter(r, s, k)
          BY <4>1, <5>0
        <5>3. CASE s.op = "add"
          <6>1. DOMAIN RowAfter(r, s, k) = DOMAIN r \cup (s.cols \cap Kept[s.on])
            BY <5>3, RowColumns, Zenon
          <6> QED BY <4>2, <5>0, <5>1, <5>2, <5>3, <6>1
        <5>4. CASE s.op = "remove"
          <6>1. DOMAIN RowAfter(r, s, k) = DOMAIN r \ s.cols
            BY <5>4, RowColumns, Zenon
          <6> QED BY <4>2, <5>0, <5>1, <5>2, <5>4, <6>1
        <5> QED BY <2>3, <5>3, <5>4
      <4> QED BY <1>1, <3>1, <4>1, <4>3, <4>4
    <3>3. CASE s.on \notin DOMAIN rows
      <4>1. rows1 = rows
        BY <1>a, <2>3, <3>3, RowsAlone
      <4> QED BY <1>1, <3>1, <3>3, <4>1
    <3> QED BY <3>2, <3>3
  <2>4. CASE s.op \in { "copy", "remap", "recode" }
    <3>1. tables1 = tables
      BY <1>a, <2>4 DEF TablesAfter
    <3>2. CASE s.on \in DOMAIN rows
      <4>1. /\ DOMAIN rows1 = DOMAIN rows /\ DOMAIN rows1[s.on] = DOMAIN rows[s.on]
            /\ \A i \in DOMAIN rows[s.on] : rows1[s.on][i] = RowAfter(rows[s.on][i], s, k)
            /\ \A t \in DOMAIN rows : t # s.on => rows1[t] = rows[t]
        BY <1>a, <2>4, <3>2, RowsRewritten DEF Rewriting
      <4>2. ASSUME NEW i \in DOMAIN rows[s.on] PROVE DOMAIN rows1[s.on][i] = DOMAIN rows[s.on][i]
        <5>0. PICK r : r = rows[s.on][i]
          OBVIOUS
        <5>1. DOMAIN RowAfter(r, s, k) = DOMAIN r
          BY <2>4, RowColumns, Zenon
        <5> QED BY <4>1, <5>0, <5>1
      <4> QED BY <1>1, <3>1, <4>1, <4>2
    <3>3. CASE s.on \notin DOMAIN rows
      <4>1. rows1 = rows
        BY <1>a, <2>4, <3>3, RowsAlone
      <4> QED BY <1>1, <3>1, <4>1
    <3> QED BY <3>2, <3>3
  <2>5. CASE s.op \notin { "create", "drop", "cascade" } \cup Rewriting
    <3>1. tables1 = tables
      BY <1>a, <2>5 DEF TablesAfter, Rewriting
    <3>2. rows1 = rows
      BY <1>a, <2>5, RowsAlone
    <3> QED BY <1>1, <3>1, <3>2
  <2> QED BY <2>1, <2>2, <2>3, <2>4, <2>5 DEF Rewriting
<1>3. Exec(d, s, k).rows = rows1 /\ Exec(d, s, k).tables = tables1
  BY <1>0, <1>a, ExecFields
<1> QED BY <1>2, <1>3 DEF Sound

-----------------------------------------------------------------------------
(* What a script does *)

LEMMA OkBefore ==
  ASSUME NEW d, NEW script, NEW k, NEW n \in Nat, NEW f, Trace(f, d, script, k, n), f[n].ok
  PROVE  \A i \in 0..n : f[i].ok
<1>1. PICK T : T = { i \in 0..n : f[n - i].ok }
  OBVIOUS
<1>2. 0 \in T
  BY <1>1
<1>3. ASSUME NEW i \in 1..n, i - 1 \in T PROVE i \in T
  <2>1. PICK j \in 1..n : j = n - (i - 1)
    OBVIOUS
  <2>2. f[j].ok
    BY <1>1, <1>3, <2>1
  <2>3. f[j - 1].ok
    BY <2>2, TraceStep
  <2> QED BY <1>1, <2>1, <2>3
<1>4. \A i \in 0..n : i \in T
  BY <1>2, <1>3, UpTo
<1>5. ASSUME NEW i \in 0..n PROVE f[i].ok
  <2>1. PICK j \in 0..n : j = n - i
    OBVIOUS
  <2>2. f[n - j].ok
    BY <1>1, <1>4
  <2>3. n - j = i
    BY <2>1
  <2> QED BY <2>2, <2>3
<1> QED BY <1>5

\* The databases of a script that goes through.
Steps(g, script, k, n) ==
  \A i \in 1..n : Accepted(g[i - 1], script[i]) /\ g[i] = Exec(g[i - 1], script[i], k)

LEMMA RunSteps ==
  ASSUME NEW d, NEW script, NEW k, Len(script) \in Nat, Run(d, script, k).ok
  PROVE  \E g : Steps(g, script, k, Len(script)) /\ g[0] = d /\ g[Len(script)] = Run(d, script, k).db
<1>1. PICK n \in Nat : n = Len(script)
  OBVIOUS
<1>2. PICK f : Trace(f, d, script, k, n) /\ Run(d, script, k) = f[n]
  BY <1>1, RunTrace
<1>3. \A i \in 0..n : f[i].ok
  BY <1>2, OkBefore
<1>4. PICK g : g = [i \in 0..n |-> f[i].db]
  OBVIOUS
<1>5. \A i \in 0..n : g[i] = f[i].db
  BY <1>4
<1>6. g[0] = d /\ g[n] = Run(d, script, k).db
  <2>1. f[0].db = d
    BY <1>2, TraceStart
  <2>2. 0 \in 0..n /\ n \in 0..n
    OBVIOUS
  <2> QED BY <1>2, <1>5, <2>1, <2>2
<1>7. ASSUME NEW i \in 1..n
      PROVE  Accepted(g[i - 1], script[i]) /\ g[i] = Exec(g[i - 1], script[i], k)
  <2>1. i \in 0..n /\ i - 1 \in 0..n
    OBVIOUS
  <2>2. f[i].ok
    BY <1>3, <2>1
  <2>3. Accepted(f[i - 1].db, script[i]) /\ f[i].db = Exec(f[i - 1].db, script[i], k)
    BY <1>2, <2>2, TraceStep
  <2> QED BY <1>5, <2>1, <2>3
<1> QED BY <1>1, <1>6, <1>7 DEF Steps

LEMMA RunSound ==
  ASSUME NEW d, Sound(d), NEW script, NEW k, NEW n \in Nat, NEW f, Trace(f, d, script, k, n)
  PROVE  \A i \in 0..n : f[i].ok => Sound(f[i].db)
<1>1. PICK T : T = { i \in 0..n : f[i].ok => Sound(f[i].db) }
  OBVIOUS
<1>2. 0 \in T
  <2>1. f[0].db = d /\ 0 \in 0..n
    BY TraceStart
  <2> QED BY <1>1, <2>1
<1>3. ASSUME NEW i \in 1..n, i - 1 \in T PROVE i \in T
  <2>1. ASSUME f[i].ok PROVE Sound(f[i].db)
    <3>1. f[i - 1].ok /\ Accepted(f[i - 1].db, script[i]) /\ f[i].db = Exec(f[i - 1].db, script[i], k)
      BY <2>1, TraceStep
    <3>2. Sound(f[i - 1].db)
      BY <1>1, <1>3, <3>1
    <3> QED BY <3>1, <3>2, SoundStays
  <2> QED BY <1>1, <2>1
<1>4. \A i \in 0..n : i \in T
  BY <1>2, <1>3, UpTo
<1> QED BY <1>1, <1>4

\* A script does to the schema of d what it does to a schema x like it.
LEMMA RunLike ==
  ASSUME NEW d, NEW x, Like(d, x), Empty(x.rows), NEW script, Len(script) \in Nat, NEW k, NEW l,
         Run(d, script, k).ok
  PROVE  Run(x, script, l).ok /\ Like(Run(d, script, k).db, Run(x, script, l).db)
<1>1. PICK n \in Nat : n = Len(script)
  OBVIOUS
<1>2. PICK g : Steps(g, script, k, n) /\ g[0] = d /\ g[n] = Run(d, script, k).db
  BY <1>1, RunSteps
<1>3. PICK f : Trace(f, x, script, l, n) /\ Run(x, script, l) = f[n]
  BY <1>1, RunTrace
<1>4. PICK T : T = { i \in 0..n : f[i].ok /\ Like(g[i], f[i].db) /\ Empty(f[i].db.rows) }
  OBVIOUS
<1>5. 0 \in T
  <2>1. f[0].ok /\ f[0].db = x /\ 0 \in 0..n
    BY <1>3, TraceStart
  <2> QED BY <1>2, <1>4, <2>1
<1>6. ASSUME NEW i \in 1..n, i - 1 \in T PROVE i \in T
  <2>1. PICK y : y = f[i - 1].db
    OBVIOUS
  <2>2. f[i - 1].ok /\ Like(g[i - 1], y) /\ Empty(y.rows)
    BY <1>4, <1>6, <2>1
  <2>3. Accepted(g[i - 1], script[i]) /\ g[i] = Exec(g[i - 1], script[i], k)
    BY <1>2 DEF Steps
  <2>4. Accepted(y, script[i])
    BY <2>2, <2>3, AcceptedLike
  <2>5. f[i].ok /\ f[i].db = Exec(y, script[i], l)
    BY <1>3, <2>1, <2>2, <2>4, TraceStep
  <2>6. Like(g[i], Exec(y, script[i], l))
    BY <2>2, <2>3, ExecLike
  <2>7. Empty(Exec(y, script[i], l).rows)
    BY <2>2, EmptyStays, ExecFields
  <2> QED BY <1>4, <2>5, <2>6, <2>7
<1>7. \A i \in 0..n : i \in T
  BY <1>5, <1>6, UpTo
<1>8. f[n].ok /\ Like(g[n], f[n].db)
  BY <1>4, <1>7
<1> QED BY <1>2, <1>3, <1>8

\* Where a script goes through on x, it goes through on d, if the rows of d are in
\* the way of no unique key.
LEMMA RunBack ==
  ASSUME NEW d, NEW x, Like(d, x), Empty(x.rows), NEW script, Len(script) \in Nat, NEW k, NEW l,
         Run(x, script, l).ok,
         NEW f, Trace(f, d, script, k, Len(script)),
         \A i \in 1..Len(script) : f[i - 1].ok => NoClash(f[i - 1].db, script[i])
  PROVE  f[Len(script)].ok
<1>1. PICK n \in Nat : n = Len(script)
  OBVIOUS
<1>2. PICK g : Steps(g, script, l, n) /\ g[0] = x
  BY <1>1, RunSteps
<1>3. Trace(f, d, script, k, n)
  BY <1>1
<1>4. PICK T : T = { i \in 0..n : f[i].ok /\ Like(f[i].db, g[i]) /\ Empty(g[i].rows) }
  OBVIOUS
<1>5. 0 \in T
  <2>1. f[0].ok /\ f[0].db = d /\ 0 \in 0..n
    BY <1>3, TraceStart
  <2> QED BY <1>2, <1>4, <2>1
<1>6. ASSUME NEW i \in 1..n, i - 1 \in T PROVE i \in T
  <2>1. PICK e : e = f[i - 1].db
    OBVIOUS
  <2>2. f[i - 1].ok /\ Like(e, g[i - 1]) /\ Empty(g[i - 1].rows)
    BY <1>4, <1>6, <2>1
  <2>3. Accepted(g[i - 1], script[i]) /\ g[i] = Exec(g[i - 1], script[i], l)
    BY <1>2 DEF Steps
  <2>4. NoClash(e, script[i])
    BY <1>1, <2>1, <2>2
  <2>5. Accepted(e, script[i])
    BY <2>2, <2>3, <2>4, AcceptedLike
  <2>6. f[i].ok /\ f[i].db = Exec(e, script[i], k)
    <3>1. f[i - 1].ok /\ Accepted(f[i - 1].db, script[i])
      BY <2>1, <2>2, <2>5
    <3>2. f[i].ok /\ f[i].db = Exec(f[i - 1].db, script[i], k)
      BY <1>3, <3>1, TraceStep
    <3> QED BY <2>1, <3>2
  <2>7. Like(Exec(e, script[i], k), g[i])
    BY <2>2, <2>3, ExecLike
  <2>8. Empty(g[i].rows)
    BY <2>2, <2>3, EmptyStays, ExecFields
  <2> QED BY <1>4, <2>6, <2>7, <2>8
<1>7. \A i \in 0..n : i \in T
  BY <1>5, <1>6, UpTo
<1> QED BY <1>1, <1>4, <1>7

-----------------------------------------------------------------------------
(* What the scripts consist of *)

Glued(u, a, b, c) == u = a \o b \o c

Parts(u, a, b, c) ==
  /\ Len(u) = Len(a) + Len(b) + Len(c)
  /\ \A i \in 1..Len(a) : u[i] = a[i]
  /\ \A i \in 1..Len(b) : u[Len(a) + i] = b[i]
  /\ \A i \in 1..Len(c) : u[Len(a) + Len(b) + i] = c[i]

LEMMA GluedParts ==
  ASSUME NEW S, NEW a \in Seq(S), NEW b \in Seq(S), NEW c \in Seq(S), NEW u, Glued(u, a, b, c)
  PROVE  Parts(u, a, b, c)
BY DEF Glued, Parts

LEMMA RemapSeq ==
  ASSUME NEW pairs, Len(pairs) \in Nat, NEW S,
         \A i \in 1..2 * Len(pairs) : RemapStatus(pairs)[i] \in S
  PROVE  RemapStatus(pairs) \in Seq(S) /\ Len(RemapStatus(pairs)) = 2 * Len(pairs)
<1>1. PICK n \in Nat : n = 2 * Len(pairs)
  OBVIOUS
<1>2. DOMAIN RemapStatus(pairs) = 1..n
  BY <1>1 DEF RemapStatus
<1>3. RemapStatus(pairs) = [i \in 1..n |-> RemapStatus(pairs)[i]]
  BY <1>1 DEF RemapStatus
<1>4. RemapStatus(pairs) \in [1..n -> S]
  BY <1>1, <1>2, <1>3
<1>5. RemapStatus(pairs) \in Seq(S)
  BY <1>4, SeqDef
<1>6. Len(RemapStatus(pairs)) = n
  BY <1>2, <1>5
<1> QED BY <1>1, <1>5, <1>6

LEMMA PairsLen == Len(StatusUp) = 9 /\ Len(StatusDown) = 5
BY DEF StatusUp, StatusDown

LEMMA Upgrade14 ==
  /\ Len(Upgrade0014) = 33
  /\ \A i \in 1..3 : Upgrade0014[i] = Track0014[i]
  /\ \A i \in 1..18 : Upgrade0014[3 + i] = RemapStatus(StatusUp)[i]
  /\ \A i \in 1..12 : Upgrade0014[21 + i] = Accounts0014[i]
<1>1. PICK S : S = { Track0014[i] : i \in 1..3 } \cup { RemapStatus(StatusUp)[i] : i \in 1..18 }
                     \cup { Accounts0014[i] : i \in 1..12 }
  OBVIOUS
<1>2. /\ \A i \in 1..3 : Track0014[i] \in S
      /\ \A i \in 1..18 : RemapStatus(StatusUp)[i] \in S
      /\ \A i \in 1..12 : Accounts0014[i] \in S
  BY <1>1
<1>3. Len(Track0014) = 3 /\ Track0014 \in Seq(S)
  <2>1. Track0014[1] \in S /\ Track0014[2] \in S /\ Track0014[3] \in S
    BY <1>2
  <2> QED BY <2>1 DEF Track0014
<1>4. Len(Accounts0014) = 12 /\ Accounts0014 \in Seq(S)
  <2>1. /\ Accounts0014[1] \in S /\ Accounts0014[2] \in S /\ Accounts0014[3] \in S
        /\ Accounts0014[4] \in S /\ Accounts0014[5] \in S /\ Accounts0014[6] \in S
        /\ Accounts0014[7] \in S /\ Accounts0014[8] \in S /\ Accounts0014[9] \in S
        /\ Accounts0014[10] \in S /\ Accounts0014[11] \in S /\ Accounts0014[12] \in S
    BY <1>2
  <2> QED BY <2>1 DEF Accounts0014
<1>5. Len(RemapStatus(StatusUp)) = 18 /\ RemapStatus(StatusUp) \in Seq(S)
  <2>1. Len(StatusUp) \in Nat /\ 2 * Len(StatusUp) = 18
    BY PairsLen
  <2>2. \A i \in 1..2 * Len(StatusUp) : RemapStatus(StatusUp)[i] \in S
    BY <1>2, <2>1
  <2> QED BY <2>1, <2>2, RemapSeq
<1>6. Glued(Upgrade0014, Track0014, RemapStatus(StatusUp), Accounts0014)
  BY DEF Glued, Upgrade0014
<1>7. PICK u, a, b, c : u = Upgrade0014 /\ a = Track0014 /\ b = RemapStatus(StatusUp) /\ c = Accounts0014
  OBVIOUS
<1>8. /\ a \in Seq(S) /\ b \in Seq(S) /\ c \in Seq(S) /\ Glued(u, a, b, c)
      /\ Len(a) = 3 /\ Len(b) = 18 /\ Len(c) = 12
  BY <1>3, <1>4, <1>5, <1>6, <1>7
<1>9. Parts(u, a, b, c)
  BY <1>8, GluedParts
<1> QED BY <1>7, <1>8, <1>9 DEF Parts

LEMMA Downgrade14 ==
  /\ Len(Downgrade0014) = 25
  /\ \A i \in 1..13 : Downgrade0014[i] = Dispatch0014[i]
  /\ \A i \in 1..10 : Downgrade0014[13 + i] = RemapStatus(StatusDown)[i]
  /\ \A i \in 1..2 : Downgrade0014[23 + i] = Untrack0014[i]
<1>1. PICK S : S = { Dispatch0014[i] : i \in 1..13 } \cup { RemapStatus(StatusDown)[i] : i \in 1..10 }
                     \cup { Untrack0014[i] : i \in 1..2 }
  OBVIOUS
<1>2. /\ \A i \in 1..13 : Dispatch0014[i] \in S
      /\ \A i \in 1..10 : RemapStatus(StatusDown)[i] \in S
      /\ \A i \in 1..2 : Untrack0014[i] \in S
  BY <1>1
<1>3. Len(Dispatch0014) = 13 /\ Dispatch0014 \in Seq(S)
  <2>1. /\ Dispatch0014[1] \in S /\ Dispatch0014[2] \in S /\ Dispatch0014[3] \in S
        /\ Dispatch0014[4] \in S /\ Dispatch0014[5] \in S /\ Dispatch0014[6] \in S
        /\ Dispatch0014[7] \in S /\ Dispatch0014[8] \in S /\ Dispatch0014[9] \in S
        /\ Dispatch0014[10] \in S /\ Dispatch0014[11] \in S /\ Dispatch0014[12] \in S
        /\ Dispatch0014[13] \in S
    BY <1>2
  <2> QED BY <2>1 DEF Dispatch0014
<1>4. Len(Untrack0014) = 2 /\ Untrack0014 \in Seq(S)
  <2>1. Untrack0014[1] \in S /\ Untrack0014[2] \in S
    BY <1>2
  <2> QED BY <2>1 DEF Untrack0014
<1>5. Len(RemapStatus(StatusDown)) = 10 /\ RemapStatus(StatusDown) \in Seq(S)
  <2>1. Len(StatusDown) \in Nat /\ 2 * Len(StatusDown) = 10
    BY PairsLen
  <2>2. \A i \in 1..2 * Len(StatusDown) : RemapStatus(StatusDown)[i] \in S
    BY <1>2, <2>1
  <2> QED BY <2>1, <2>2, RemapSeq
<1>6. Glued(Downgrade0014, Dispatch0014, RemapStatus(StatusDown), Untrack0014)
  BY DEF Glued, Downgrade0014
<1>7. PICK u, a, b, c : u = Downgrade0014 /\ a = Dispatch0014 /\ b = RemapStatus(StatusDown) /\ c = Untrack0014
  OBVIOUS
<1>8. /\ a \in Seq(S) /\ b \in Seq(S) /\ c \in Seq(S) /\ Glued(u, a, b, c)
      /\ Len(a) = 13 /\ Len(b) = 10 /\ Len(c) = 2
  BY <1>3, <1>4, <1>5, <1>6, <1>7
<1>9. Parts(u, a, b, c)
  BY <1>8, GluedParts
<1> QED BY <1>7, <1>8, <1>9 DEF Parts

NewKey(s) == s.op = "key" /\ s.key.to = Unique

\* A unique key the statement adds is on a column that is not kept.
Fits(s) == NewKey(s) => ~ (s.key.cols \subseteq Kept[s.on])
FitAll(script) == Len(script) \in Nat /\ \A i \in 1..Len(script) : Fits(script[i])

\* The script leaves the kept rows alone.
QuietAll(script) ==
  Len(script) \in Nat /\ \A i \in 1..Len(script) : \A t \in DOMAIN Kept : Aside(script[i], t)

\* The statement puts nothing new into the reports.
Mild(s) == s.on # "reports" \/ s.op \notin { "copy", "remap", "recode" }
MildAll(script) == \A i \in 1..Len(script) : Mild(script[i])

LEMMA NamedKeys ==
  /\ Named(ForeignKey("incident_cases", "cluster_id", "report_clusters"), "fk_incident_cases_cluster_id").to
       # Unique
  /\ Named(ToUnit, "fk_case_assignments_unit_id").to # Unique
BY DEF Named, ForeignKey, Unique, ToUnit

\* The statements of 14 about the tables that are not kept.
LEMMA Accounts14 ==
  /\ \A i \in 1..12 : Fits(Accounts0014[i]) /\ Mild(Accounts0014[i])
  /\ \A i \in 3..12 : \A t \in DOMAIN Kept : Aside(Accounts0014[i], t)
<1>1. \A i \in {1, 2, 4, 5, 6, 7, 8, 9, 10, 11, 12} : Fits(Accounts0014[i])
  BY DEF Accounts0014, Fits, NewKey, DropColumns, AddColumns, CreateTable, UniqueIndex, CreateIndexes, DropTable
<1>2. Fits(Accounts0014[3])
  BY DEF Accounts0014, Fits, NewKey, AddKey, UniqueKey, Kept
<1>3. \A i \in 1..12 : Mild(Accounts0014[i])
  BY DEF Accounts0014, Mild, DropColumns, AddColumns, AddKey, CreateTable, UniqueIndex, CreateIndexes, DropTable
<1>4. \A i \in 3..12 : \A t \in DOMAIN Kept : Aside(Accounts0014[i], t)
  BY DEF Accounts0014, Aside, Kept, AddKey, UniqueKey, CreateTable, UniqueIndex, CreateIndexes, DropTable
<1> QED BY <1>1, <1>2, <1>3, <1>4

LEMMA UpgradesFit == \A n \in 1..15 : n # 12 => FitAll(Upgrade[n])
<1> USE DEF FitAll, Fits, NewKey, CreateTable, DropCascade, AddColumns, CreateIndexes, UniqueIndex, AddKey,
        Recode
<1>1. FitAll(Upgrade0001)
  BY DEF Upgrade0001
<1>2. FitAll(Upgrade0002)
  BY DEF Upgrade0002
<1>3. FitAll(Upgrade0003)
  BY DEF Upgrade0003
<1>4. FitAll(Upgrade0004)
  BY DEF Upgrade0004
<1>5. FitAll(Upgrade0005)
  BY DEF Upgrade0005
<1>6. FitAll(Upgrade0006)
  BY DEF Upgrade0006
<1>7. FitAll(Upgrade0007)
  BY DEF Upgrade0007
<1>8. FitAll(Upgrade0008)
  BY DEF Upgrade0008
<1>9. FitAll(Upgrade0009)
  BY DEF Upgrade0009
<1>10. FitAll(Upgrade0010)
  BY NamedKeys DEF Upgrade0010
<1>11. FitAll(Upgrade0011)
  BY DEF Upgrade0011
<1>13. FitAll(Upgrade0013)
  BY NamedKeys DEF Upgrade0013
<1>15. FitAll(Upgrade0015)
  BY DEF Upgrade0015
<1>14. FitAll(Upgrade0014)
  <2>1. \A i \in 1..3 : Fits(Upgrade0014[i])
    BY Upgrade14 DEF Track0014, Fits, NewKey, AddColumns, CreateIndexes, EmicTrack, CopyWhere
  <2>2. ASSUME NEW i \in 4..21 PROVE Fits(Upgrade0014[i])
    <3>1. PICK j \in 1..18 : i = 3 + j
      OBVIOUS
    <3>2. RemapStatus(StatusUp)[j].op = "remap"
      BY PairsLen DEF RemapStatus, Remap
    <3> QED BY <3>1, <3>2, Upgrade14 DEF Fits, NewKey
  <2>3. ASSUME NEW i \in 22..33 PROVE Fits(Upgrade0014[i])
    <3>1. PICK j \in 1..12 : i = 21 + j
      OBVIOUS
    <3> QED BY <3>1, Upgrade14, Accounts14
  <2>4. \A i \in 1..33 : i \in 1..3 \/ i \in 4..21 \/ i \in 22..33
    OBVIOUS
  <2>5. \A i \in 1..33 : Fits(Upgrade0014[i])
    BY <2>1, <2>2, <2>3, <2>4
  <2> QED BY <2>5, Upgrade14 DEF FitAll
<1> HIDE DEF FitAll
<1> QED BY <1>1, <1>2, <1>3, <1>4, <1>5, <1>6, <1>7, <1>8, <1>9, <1>10, <1>11, <1>13, <1>14, <1>15 DEF Upgrade

LEMMA QuietScripts == \A n \in {11, 12, 13} : QuietAll(Upgrade[n]) /\ QuietAll(Downgrade[n])
<1> USE DEF QuietAll, Aside, Kept, GlobalNumber, PlatformNumber, UniqueKey, CreateTable, DropTable, DropCascade,
        AddColumns, DropColumns, CreateIndexes, UniqueIndex, DropIndexes, AddKey, DropKey
<1>1. QuietAll(Upgrade0011)
  BY DEF Upgrade0011
<1>2. QuietAll(Downgrade0011)
  BY DEF Downgrade0011
<1>3. QuietAll(Upgrade0012)
  BY DEF Upgrade0012
<1>4. QuietAll(Downgrade0012)
  BY DEF Downgrade0012
<1>5. QuietAll(Upgrade0013)
  BY DEF Upgrade0013
<1>6. QuietAll(Downgrade0013)
  BY DEF Downgrade0013
<1> HIDE DEF QuietAll
<1> QED BY <1>1, <1>2, <1>3, <1>4, <1>5, <1>6 DEF Upgrade, Downgrade

Finite(script) == Len(script) \in Nat

LEMMA DowngradesFinite == \A n \in 1..15 : Finite(Downgrade[n])
<1>1. Finite(Downgrade0001)
  BY DEF Finite, Downgrade0001
<1>2. Finite(Downgrade0002)
  BY DEF Finite, Downgrade0002
<1>3. Finite(Downgrade0003)
  BY DEF Finite, Downgrade0003
<1>4. Finite(Downgrade0004)
  BY DEF Finite, Downgrade0004
<1>5. Finite(Downgrade0005)
  BY DEF Finite, Downgrade0005
<1>6. Finite(Downgrade0006)
  BY DEF Finite, Downgrade0006
<1>7. Finite(Downgrade0007)
  BY DEF Finite, Downgrade0007
<1>8. Finite(Downgrade0008)
  BY DEF Finite, Downgrade0008
<1>9. Finite(Downgrade0009)
  BY DEF Finite, Downgrade0009
<1>10. Finite(Downgrade0010)
  BY DEF Finite, Downgrade0010
<1>11. Finite(Downgrade0011)
  BY DEF Finite, Downgrade0011
<1>12. Finite(Downgrade0012)
  BY DEF Finite, Downgrade0012
<1>13. Finite(Downgrade0013)
  BY DEF Finite, Downgrade0013
<1>14. Finite(Downgrade0014)
  BY Downgrade14 DEF Finite
<1>15. Finite(Downgrade0015)
  BY DEF Finite, Downgrade0015
<1> QED BY <1>1, <1>2, <1>3, <1>4, <1>5, <1>6, <1>7, <1>8, <1>9, <1>10, <1>11, <1>12, <1>13, <1>14, <1>15 DEF Downgrade

-----------------------------------------------------------------------------
(* Cases and their history *)

Waiting == { "reported", "verifying", "threshold_reached", "awaiting_dispatch" }
Handed  == { "assigned", "en_route", "on_site", "processing" }

\* A case of the releases 10 to 13, and the event that led to its status.
OldPair(r, e) ==
  /\ r.status \in Waiting \cup Handed \cup { "resolved" } \cup FinalStatuses
  /\ r.status \in Waiting => r.dispatched_at = Null
  /\ r.status \in Handed => r.dispatched_at # Null
  /\ e.to_status = r.status

\* A case of the releases from 14 on.
NewPair(r, e) ==
  /\ r.status \in CaseStatus
  /\ r.status \in EmicStatuses => r.track = "emic" /\ r.reviewed_at # Null /\ r.emic_reported_at # Null
  /\ r.status \in CommunityStatuses => r.track # "emic"
  /\ r.status = "pending_review" => r.track = Null /\ r.reviewed_at = Null
  /\ e.to_status = r.status

\* The same when 0014 has renamed the first j of the old statuses.
MidUp(j, r, e) ==
  /\ { "platform_id", "status", "track", "reviewed_at", "emic_reported_at" } \subseteq DOMAIN r
  /\ "to_status" \in DOMAIN e
  /\ r.status \in { StatusUp[i][1] : i \in (j + 1)..9 } \cup { "pending_review", "emic_processing" } \cup FinalStatuses
  /\ r.status \in Waiting \cup { "pending_review" } => r.track = Null /\ r.reviewed_at = Null
  /\ r.status \in Handed \cup { "emic_processing" } =>
       r.track = "emic" /\ r.reviewed_at # Null /\ r.emic_reported_at # Null
  /\ e.to_status = r.status

MidDown(j, r, e) ==
  /\ { "platform_id", "status", "dispatched_at" } \subseteq DOMAIN r
  /\ "to_status" \in DOMAIN e
  /\ r.status \in { StatusDown[i][1] : i \in (j + 1)..5 } \cup { "awaiting_dispatch", "processing" } \cup FinalStatuses
  /\ r.status \in CommunityStatuses \cup { "pending_review", "awaiting_dispatch" } => r.dispatched_at = Null
  /\ r.status \in EmicStatuses \cup { "processing" } => r.dispatched_at # Null
  /\ e.to_status = r.status

\* The row of one case, before and after: finished in both or in none.
SameCase(r, r1) == r1["platform_id"] = r["platform_id"] /\ (Finished(r1) <=> Finished(r))

RenameCase(old, new)  == Remap("incident_cases", { "status" }, old, new)
RenameEvent(old, new) == Remap("case_events", { "from_status", "to_status" }, old, new)

LEMMA CaseRenamed ==
  ASSUME NEW r, NEW old, NEW new, NEW k, "status" \in DOMAIN r
  PROVE  /\ DOMAIN RowAfter(r, RenameCase(old, new), k) = DOMAIN r
         /\ RowAfter(r, RenameCase(old, new), k).status = IF r.status = old THEN new ELSE r.status
         /\ \A c \in DOMAIN r : c # "status" => RowAfter(r, RenameCase(old, new), k)[c] = r[c]
<1>1. RowAfter(r, RenameCase(old, new), k) =
        [c \in DOMAIN r |-> IF c \in { "status" } /\ r[c] = old THEN new ELSE r[c]]
  BY DEF RowAfter, RenameCase, Remap
<1> QED BY <1>1

LEMMA EventRenamed ==
  ASSUME NEW e, NEW old, NEW new, NEW k, "to_status" \in DOMAIN e
  PROVE  /\ DOMAIN RowAfter(e, RenameEvent(old, new), k) = DOMAIN e
         /\ RowAfter(e, RenameEvent(old, new), k).to_status = IF e.to_status = old THEN new ELSE e.to_status
<1>1. RowAfter(e, RenameEvent(old, new), k) =
        [c \in DOMAIN e |-> IF c \in { "from_status", "to_status" } /\ e[c] = old THEN new ELSE e[c]]
  BY DEF RowAfter, RenameEvent, Remap
<1> QED BY <1>1

\* r1 and e1 are r and e with the status renamed.
Renamed(r, e, r1, e1, old, new) ==
  /\ DOMAIN r1 = DOMAIN r /\ DOMAIN e1 = DOMAIN e
  /\ r1.status = (IF r.status = old THEN new ELSE r.status)
  /\ \A c \in DOMAIN r : c # "status" => r1[c] = r[c]
  /\ e1.to_status = IF e.to_status = old THEN new ELSE e.to_status

LEMMA RenameUp ==
  ASSUME NEW j \in 1..9, NEW r, NEW e, NEW r1, NEW e1, MidUp(j - 1, r, e),
         Renamed(r, e, r1, e1, StatusUp[j][1], StatusUp[j][2])
  PROVE  MidUp(j, r1, e1) /\ SameCase(r, r1)
<1> PICK old, new : old = StatusUp[j][1] /\ new = StatusUp[j][2]
  OBVIOUS
<1> PICK v : v = r.status
  OBVIOUS
<1>1. /\ v \in { StatusUp[i][1] : i \in j..9 } \cup { "pending_review", "emic_processing" } \cup FinalStatuses
      /\ v \in Waiting \cup { "pending_review" } => r.track = Null /\ r.reviewed_at = Null
      /\ v \in Handed \cup { "emic_processing" } =>
           r.track = "emic" /\ r.reviewed_at # Null /\ r.emic_reported_at # Null
  BY DEF MidUp
<1>2. \/ old \in Waiting /\ new = "pending_review"
      \/ old \in Handed /\ new = "emic_processing"
      \/ old = "resolved" /\ new = "closed"
  BY DEF StatusUp, Waiting, Handed
<1>3. v # old => v \in { StatusUp[i][1] : i \in (j + 1)..9 } \cup { "pending_review", "emic_processing" } \cup FinalStatuses
  BY <1>1
<1>4. /\ r1.status = (IF v = old THEN new ELSE v) /\ r1.track = r.track /\ r1.reviewed_at = r.reviewed_at
      /\ r1.emic_reported_at = r.emic_reported_at /\ DOMAIN r1 = DOMAIN r /\ DOMAIN e1 = DOMAIN e
      /\ e1.to_status = r1.status
  BY DEF Renamed, MidUp
<1>5. r1.status \in { StatusUp[i][1] : i \in (j + 1)..9 } \cup { "pending_review", "emic_processing" } \cup FinalStatuses
  BY <1>2, <1>3, <1>4 DEF FinalStatuses
<1>6. /\ r1.status \in Waiting \cup { "pending_review" } => r1.track = Null /\ r1.reviewed_at = Null
      /\ r1.status \in Handed \cup { "emic_processing" } =>
           r1.track = "emic" /\ r1.reviewed_at # Null /\ r1.emic_reported_at # Null
  BY <1>1, <1>2, <1>4 DEF Waiting, Handed
<1>7. Finished(r1) <=> Finished(r)
  BY <1>2, <1>4 DEF Finished, FinalStatuses, Waiting, Handed
<1>8. /\ { "platform_id", "status", "track", "reviewed_at", "emic_reported_at" } \subseteq DOMAIN r1
      /\ "to_status" \in DOMAIN e1
  BY <1>4 DEF MidUp
<1>9. r1["platform_id"] = r["platform_id"]
  BY DEF Renamed, MidUp
<1> QED BY <1>4, <1>5, <1>6, <1>7, <1>8, <1>9 DEF MidUp, SameCase

LEMMA RenameDown ==
  ASSUME NEW j \in 1..5, NEW r, NEW e, NEW r1, NEW e1, MidDown(j - 1, r, e),
         Renamed(r, e, r1, e1, StatusDown[j][1], StatusDown[j][2])
  PROVE  MidDown(j, r1, e1) /\ SameCase(r, r1)
<1> PICK old, new : old = StatusDown[j][1] /\ new = StatusDown[j][2]
  OBVIOUS
<1> PICK v : v = r.status
  OBVIOUS
<1>1. /\ v \in { StatusDown[i][1] : i \in j..5 } \cup { "awaiting_dispatch", "processing" } \cup FinalStatuses
      /\ v \in CommunityStatuses \cup { "pending_review", "awaiting_dispatch" } => r.dispatched_at = Null
      /\ v \in EmicStatuses \cup { "processing" } => r.dispatched_at # Null
  BY DEF MidDown
<1>2. \/ old \in CommunityStatuses \cup { "pending_review" } /\ new = "awaiting_dispatch"
      \/ old \in EmicStatuses /\ new = "processing"
  BY DEF StatusDown, CommunityStatuses, EmicStatuses
<1>3. v # old => v \in { StatusDown[i][1] : i \in (j + 1)..5 } \cup { "awaiting_dispatch", "processing" } \cup FinalStatuses
  BY <1>1
<1>4. /\ r1.status = (IF v = old THEN new ELSE v) /\ r1.dispatched_at = r.dispatched_at
      /\ DOMAIN r1 = DOMAIN r /\ DOMAIN e1 = DOMAIN e /\ e1.to_status = r1.status
  BY DEF Renamed, MidDown
<1>5. r1.status \in { StatusDown[i][1] : i \in (j + 1)..5 } \cup { "awaiting_dispatch", "processing" } \cup FinalStatuses
  BY <1>2, <1>3, <1>4
<1>6. /\ r1.status \in CommunityStatuses \cup { "pending_review", "awaiting_dispatch" } => r1.dispatched_at = Null
      /\ r1.status \in EmicStatuses \cup { "processing" } => r1.dispatched_at # Null
  BY <1>1, <1>2, <1>4 DEF CommunityStatuses, EmicStatuses
<1>7. Finished(r1) <=> Finished(r)
  BY <1>2, <1>4 DEF Finished, FinalStatuses, CommunityStatuses, EmicStatuses
<1>8. { "platform_id", "status", "dispatched_at" } \subseteq DOMAIN r1 /\ "to_status" \in DOMAIN e1
  BY <1>4 DEF MidDown
<1>9. r1["platform_id"] = r["platform_id"]
  BY DEF Renamed, MidDown
<1> QED BY <1>4, <1>5, <1>6, <1>7, <1>8, <1>9 DEF MidDown, SameCase

CasesBefore14 == { "platform_id", "case_number", "status", "dispatched_at" }
CasesFrom14   ==
  { "platform_id", "case_number", "status", "track", "reviewed_at", "emic_reported_at", "emic_channel" }
EventColumnsKept == { "from_status", "to_status" }

AddTrack == AddColumns("incident_cases", CaseColumns0014)

Became(r, s, k, r1) == r1 = RowAfter(r, s, k)

LEMMA NotCopied ==
  ASSUME NEW r, NEW s, NEW k, NEW r1, Became(r, s, k, r1), s.op = "copy", s.value = Null, r[s.cond] = Null
  PROVE  r1 = r
BY DEF Became, RowAfter

LEMMA UpStart ==
  ASSUME NEW r, NEW e, OldPair(r, e), DOMAIN r = CasesBefore14, DOMAIN e = EventColumnsKept, NEW k,
         NEW r1, Became(r, AddTrack, k, r1), NEW r2, Became(r1, EmicTrack, k, r2)
  PROVE  MidUp(0, r2, e) /\ SameCase(r, r2)
<1>0. r1 = [c \in DOMAIN r \cup (CaseColumns0014 \cap Kept["incident_cases"]) |->
              IF c \in DOMAIN r THEN r[c] ELSE Null]
  BY DEF Became, RowAfter, AddTrack, AddColumns
<1>a. CaseColumns0014 \cap Kept["incident_cases"] = { "track", "reviewed_at", "emic_reported_at", "emic_channel" }
  BY DEF CaseColumns0014, Kept
<1>b. r1 = [c \in CasesFrom14 \cup { "dispatched_at" } |-> IF c \in CasesBefore14 THEN r[c] ELSE Null]
  BY <1>0, <1>a DEF CasesBefore14, CasesFrom14
<1>1. DOMAIN r1 = CasesFrom14 \cup { "dispatched_at" }
  BY <1>b
<1>2. /\ r1["status"] = r["status"] /\ r1["dispatched_at"] = r["dispatched_at"]
      /\ r1["platform_id"] = r["platform_id"]
  BY <1>b DEF CasesBefore14, CasesFrom14
<1>3. r1["track"] = Null /\ r1["reviewed_at"] = Null
  BY <1>b DEF CasesBefore14, CasesFrom14
<1>4. CASE r.dispatched_at = Null
  <2>0. r1["dispatched_at"] = Null
    BY <1>2, <1>4
  <2>a. EmicTrack.op = "copy" /\ EmicTrack.value = Null /\ EmicTrack.cond = "dispatched_at"
    BY DEF EmicTrack, CopyWhere
  <2>b. r1[EmicTrack.cond] = Null
    BY <2>0, <2>a
  <2>1. r2 = r1
    BY <2>a, <2>b, NotCopied
  <2>2. r.status \in Waiting \cup { "resolved" } \cup FinalStatuses
    BY <1>4 DEF OldPair
  <2>3. r.status \in { StatusUp[i][1] : i \in 1..9 } \cup FinalStatuses
    <3>1. ASSUME NEW v \in Waiting \cup { "resolved" } PROVE \E i \in 1..9 : v = StatusUp[i][1]
      <4>1. v = StatusUp[1][1] \/ v = StatusUp[2][1] \/ v = StatusUp[3][1] \/ v = StatusUp[4][1] \/ v = StatusUp[9][1]
        BY <3>1 DEF StatusUp, Waiting
      <4> QED BY <4>1
    <3> QED BY <2>2, <3>1
  <2>4. MidUp(0, r2, e)
    BY <1>1, <1>2, <1>3, <1>4, <2>1, <2>2, <2>3
       DEF MidUp, OldPair, CasesFrom14, EventColumnsKept, Waiting, Handed, FinalStatuses
  <2>5. SameCase(r, r2)
    BY <1>2, <2>1 DEF SameCase, Finished
  <2> QED BY <2>4, <2>5
<1>5. CASE r.dispatched_at # Null
  <2>1. r2 = [c \in DOMAIN r1 |->
                IF c \notin DOMAIN EmicTrack.assign THEN r1[c]
                ELSE IF EmicTrack.assign[c] \in DOMAIN r1 THEN r1[EmicTrack.assign[c]] ELSE EmicTrack.assign[c]]
    <3>1. r1["dispatched_at"] # Null
      BY <1>2, <1>5
    <3> QED BY <3>1 DEF Became, RowAfter, EmicTrack, CopyWhere
  <2>2. /\ DOMAIN EmicTrack.assign = { "track", "emic_channel", "reviewed_at", "emic_reported_at" }
        /\ EmicTrack.assign["track"] = "emic" /\ EmicTrack.assign["reviewed_at"] = "dispatched_at"
        /\ EmicTrack.assign["emic_reported_at"] = "dispatched_at"
    BY DEF EmicTrack, CopyWhere
  <2>3. /\ DOMAIN r2 = DOMAIN r1 /\ r2["status"] = r1["status"] /\ r2["platform_id"] = r1["platform_id"]
        /\ r2["track"] = "emic"
        /\ r2["reviewed_at"] = r1["dispatched_at"] /\ r2["emic_reported_at"] = r1["dispatched_at"]
    BY <1>1, <2>1, <2>2 DEF CasesFrom14
  <2>4. r.status \notin Waiting
    BY <1>5 DEF OldPair
  <2> QED BY <1>1, <1>2, <1>5, <2>3, <2>4
      DEF MidUp, OldPair, CasesFrom14, EventColumnsKept, StatusUp, Waiting, Handed, FinalStatuses, Finished, SameCase
<1> QED BY <1>4, <1>5

LEMMA UpEnd ==
  ASSUME NEW r, NEW e, MidUp(9, r, e), NEW k, NEW r1,
         Became(r, DropColumns("incident_cases", { "dispatched_at" }), k, r1)
  PROVE  NewPair(r1, e) /\ SameCase(r, r1)
<1>0. r1 = [c \in DOMAIN r \ { "dispatched_at" } |-> r[c]]
  BY DEF Became, RowAfter, DropColumns, Without
<1>1. /\ r1["platform_id"] = r["platform_id"] /\ r1["status"] = r["status"] /\ r1["track"] = r["track"]
      /\ r1["reviewed_at"] = r["reviewed_at"] /\ r1["emic_reported_at"] = r["emic_reported_at"]
  BY <1>0 DEF MidUp
<1>2. r.status \in { "pending_review", "emic_processing" } \cup FinalStatuses
  BY DEF MidUp
<1> QED BY <1>1, <1>2 DEF MidUp, NewPair, CaseStatus, EmicStatuses, CommunityStatuses, FinalStatuses, Finished, SameCase

AddDispatched == AddColumns("incident_cases", { "dispatched_at" })
CopyBack == CopyWhere("incident_cases", "track", "emic", [ dispatched_at |-> "reviewed_at" ])

LEMMA DownStart ==
  ASSUME NEW r, NEW e, NewPair(r, e), DOMAIN r = CasesFrom14, DOMAIN e = EventColumnsKept, NEW k,
         NEW r1, Became(r, AddDispatched, k, r1), NEW r2, Became(r1, CopyBack, k, r2)
  PROVE  MidDown(0, r2, e) /\ SameCase(r, r2)
<1>0. r1 = [c \in DOMAIN r \cup ({ "dispatched_at" } \cap Kept["incident_cases"]) |->
              IF c \in DOMAIN r THEN r[c] ELSE Null]
  BY DEF Became, RowAfter, AddDispatched, AddColumns
<1>a. { "dispatched_at" } \cap Kept["incident_cases"] = { "dispatched_at" }
  BY DEF Kept
<1>b. r1 = [c \in CasesFrom14 \cup { "dispatched_at" } |-> IF c \in CasesFrom14 THEN r[c] ELSE Null]
  BY <1>0, <1>a
<1>1. DOMAIN r1 = CasesFrom14 \cup { "dispatched_at" }
  BY <1>b
<1>2. /\ r1["status"] = r["status"] /\ r1["track"] = r["track"] /\ r1["reviewed_at"] = r["reviewed_at"]
      /\ r1["platform_id"] = r["platform_id"]
  BY <1>b DEF CasesFrom14
<1>3. r1["dispatched_at"] = Null
  BY <1>b DEF CasesFrom14
<1>4. CASE r.track # "emic"
  <2>1. r2 = r1
    BY <1>2, <1>4 DEF Became, RowAfter, CopyBack, CopyWhere, Null
  <2>2. r.status \notin EmicStatuses
    BY <1>4 DEF NewPair
  <2> QED BY <1>1, <1>2, <1>3, <2>1, <2>2
      DEF MidDown, NewPair, EventColumnsKept, CasesFrom14, StatusDown, CaseStatus, EmicStatuses,
          CommunityStatuses, FinalStatuses, Finished, SameCase
<1>5. CASE r.track = "emic"
  <2>1. r2 = [c \in DOMAIN r1 |->
                IF c \notin DOMAIN CopyBack.assign THEN r1[c]
                ELSE IF CopyBack.assign[c] \in DOMAIN r1 THEN r1[CopyBack.assign[c]] ELSE CopyBack.assign[c]]
    BY <1>2, <1>5 DEF Became, RowAfter, CopyBack, CopyWhere, Null
  <2>2. DOMAIN CopyBack.assign = { "dispatched_at" } /\ CopyBack.assign["dispatched_at"] = "reviewed_at"
    BY DEF CopyBack, CopyWhere
  <2>3. /\ DOMAIN r2 = DOMAIN r1 /\ r2["status"] = r1["status"] /\ r2["dispatched_at"] = r1["reviewed_at"]
        /\ r2["platform_id"] = r1["platform_id"]
    BY <1>1, <2>1, <2>2 DEF CasesFrom14
  <2>4. r.status \notin CommunityStatuses \cup { "pending_review" }
    BY <1>5 DEF NewPair, Null
  <2> QED BY <1>1, <1>2, <2>3, <2>4
      DEF MidDown, NewPair, EventColumnsKept, CasesFrom14, StatusDown, CaseStatus, EmicStatuses,
          CommunityStatuses, FinalStatuses, Finished, SameCase
<1> QED BY <1>4, <1>5

LEMMA DownEnd ==
  ASSUME NEW r, NEW e, MidDown(5, r, e), NEW k, NEW r1,
         Became(r, DropColumns("incident_cases", CaseColumns0014), k, r1)
  PROVE  OldPair(r1, e) /\ SameCase(r, r1)
<1>0. r1 = [c \in DOMAIN r \ CaseColumns0014 |-> r[c]]
  BY DEF Became, RowAfter, DropColumns, Without
<1>1. r1["platform_id"] = r["platform_id"] /\ r1["status"] = r["status"] /\ r1["dispatched_at"] = r["dispatched_at"]
  BY <1>0 DEF MidDown, CaseColumns0014
<1>2. r.status \in { "awaiting_dispatch", "processing" } \cup FinalStatuses
  BY DEF MidDown
<1> QED BY <1>1, <1>2 DEF MidDown, OldPair, Waiting, Handed, FinalStatuses, Finished, SameCase

-----------------------------------------------------------------------------
(* The rows of one table along a script *)

\* A row of table t after a statement that may be about another table.
After(r, s, t, k) == IF Aside(s, t) THEN r ELSE RowAfter(r, s, k)

\* The statement neither creates nor drops table t.
Keeps(s, t) == Aside(s, t) \/ s.op \in Rewriting

LEMMA TableStep ==
  ASSUME NEW rows, NEW s, NEW k, NEW t \in DOMAIN rows, Keeps(s, t)
  PROVE  /\ t \in DOMAIN RowsAfter(rows, s, k)
         /\ DOMAIN RowsAfter(rows, s, k)[t] = DOMAIN rows[t]
         /\ \A i \in DOMAIN rows[t] : RowsAfter(rows, s, k)[t][i] = After(rows[t][i], s, t, k)
<1>1. CASE Aside(s, t)
  <2>1. t \in DOMAIN RowsAfter(rows, s, k) /\ RowsAfter(rows, s, k)[t] = rows[t]
    BY <1>1, RowsAside
  <2> QED BY <1>1, <2>1 DEF After
<1>2. CASE ~ Aside(s, t)
  <2>1. s.op \in Rewriting /\ s.on = t
    BY <1>2 DEF Keeps, Aside
  <2>2. /\ DOMAIN RowsAfter(rows, s, k) = DOMAIN rows
        /\ DOMAIN RowsAfter(rows, s, k)[s.on] = DOMAIN rows[s.on]
        /\ \A i \in DOMAIN rows[s.on] : RowsAfter(rows, s, k)[s.on][i] = RowAfter(rows[s.on][i], s, k)
    BY <2>1, RowsRewritten
  <2> QED BY <1>2, <2>1, <2>2 DEF After
<1> QED BY <1>1, <1>2

\* The rows of t, in each of the databases of a script.
Tracked(g, t, script, k, n, ids) ==
  /\ \A i \in 0..n : t \in DOMAIN g[i].rows /\ DOMAIN g[i].rows[t] = ids
  /\ \A i \in 1..n : \A c \in ids : g[i].rows[t][c] = After(g[i - 1].rows[t][c], script[i], t, k)

LEMMA TableTracked ==
  ASSUME NEW g, NEW script, NEW k, NEW n \in Nat, Steps(g, script, k, n),
         NEW t \in DOMAIN g[0].rows, \A i \in 1..n : Keeps(script[i], t)
  PROVE  Tracked(g, t, script, k, n, DOMAIN g[0].rows[t])
<1>0. PICK ids : ids = DOMAIN g[0].rows[t]
  OBVIOUS
<1>1. ASSUME NEW i \in 1..n, t \in DOMAIN g[i - 1].rows, DOMAIN g[i - 1].rows[t] = ids
      PROVE  /\ t \in DOMAIN g[i].rows /\ DOMAIN g[i].rows[t] = ids
             /\ \A c \in ids : g[i].rows[t][c] = After(g[i - 1].rows[t][c], script[i], t, k)
  <2>1. PICK rows, s : rows = g[i - 1].rows /\ s = script[i]
    OBVIOUS
  <2>2. g[i].rows = RowsAfter(rows, s, k)
    BY <2>1, ExecFields DEF Steps
  <2>3. t \in DOMAIN rows /\ DOMAIN rows[t] = ids /\ Keeps(s, t)
    BY <1>1, <2>1
  <2>4. /\ t \in DOMAIN RowsAfter(rows, s, k)
        /\ DOMAIN RowsAfter(rows, s, k)[t] = DOMAIN rows[t]
        /\ \A c \in DOMAIN rows[t] : RowsAfter(rows, s, k)[t][c] = After(rows[t][c], s, t, k)
    BY <2>3, TableStep
  <2> QED BY <2>1, <2>2, <2>3, <2>4
<1>2. PICK T : T = { i \in 0..n : t \in DOMAIN g[i].rows /\ DOMAIN g[i].rows[t] = ids }
  OBVIOUS
<1>3. 0 \in T
  BY <1>0, <1>2
<1>4. ASSUME NEW i \in 1..n, i - 1 \in T PROVE i \in T
  <2>1. i \in 0..n
    OBVIOUS
  <2> QED BY <1>1, <1>2, <1>4, <2>1
<1>5. \A i \in 0..n : i \in T
  BY <1>3, <1>4, UpTo
<1>6. \A i \in 0..n : t \in DOMAIN g[i].rows /\ DOMAIN g[i].rows[t] = ids
  BY <1>2, <1>5
<1>7. \A i \in 1..n : i - 1 \in 0..n
  OBVIOUS
<1> QED BY <1>0, <1>1, <1>6, <1>7 DEF Tracked

\* The versions of one row.
RowPath(r, t, script, k, n) == \A i \in 1..n : r[i] = After(r[i - 1], script[i], t, k)

Versions(r, g, t, script, k, n, c) ==
  RowPath(r, t, script, k, n) /\ \A i \in 0..n : r[i] = g[i].rows[t][c]

LEMMA PathOf ==
  ASSUME NEW g, NEW script, NEW k, NEW n \in Nat, NEW t, NEW ids, Tracked(g, t, script, k, n, ids),
         NEW c \in ids
  PROVE  \E r : Versions(r, g, t, script, k, n, c)
<1>1. PICK r : r = [i \in 0..n |-> g[i].rows[t][c]]
  OBVIOUS
<1>2. \A i \in 0..n : r[i] = g[i].rows[t][c]
  BY <1>1
<1>3. \A i \in 1..n : i \in 0..n /\ i - 1 \in 0..n
  OBVIOUS
<1>4. RowPath(r, t, script, k, n)
  BY <1>2, <1>3 DEF RowPath, Tracked
<1> QED BY <1>2, <1>4 DEF Versions

\* A row that no statement from the one behind first to last is about stays.
LEMMA PathStays ==
  ASSUME NEW r, NEW t, NEW script, NEW k, NEW n \in Nat, RowPath(r, t, script, k, n),
         NEW first \in 0..n, NEW last \in first..n,
         \A i \in first + 1..last : Aside(script[i], t)
  PROVE  r[last] = r[first]
<1>1. PICK T : T = { i \in 0..last - first : r[first + i] = r[first] }
  OBVIOUS
<1>2. 0 \in T
  BY <1>1
<1>3. ASSUME NEW i \in 1..last - first, i - 1 \in T PROVE i \in T
  <2>1. PICK j \in first + 1..last : j = first + i
    OBVIOUS
  <2>2. r[j] = r[j - 1]
    BY <2>1 DEF RowPath, After
  <2>3. j - 1 = first + (i - 1) /\ i \in 0..last - first
    BY <2>1
  <2> QED BY <1>1, <1>3, <2>1, <2>2, <2>3
<1>4. \A i \in 0..last - first : i \in T
  <2>1. last - first \in Nat
    OBVIOUS
  <2> QED BY <1>2, <1>3, <2>1, UpTo
<1>5. PICK i \in 0..last - first : first + i = last
  OBVIOUS
<1> QED BY <1>1, <1>4, <1>5

-----------------------------------------------------------------------------
(* 0014 on a case and its history *)

LEMMA RemapAt ==
  ASSUME NEW pairs, Len(pairs) \in Nat, NEW j \in 1..Len(pairs)
  PROVE  /\ RemapStatus(pairs)[2 * j - 1] = RenameCase(pairs[j][1], pairs[j][2])
         /\ RemapStatus(pairs)[2 * j] = RenameEvent(pairs[j][1], pairs[j][2])
<1>1. PICK n \in Nat : n = Len(pairs)
  OBVIOUS
<1>2. PICK a \in 1..2 * n : a = 2 * j - 1 /\ (a + 1) \div 2 = j /\ a % 2 = 1
  BY <1>1
<1>3. PICK b \in 1..2 * n : b = 2 * j /\ (b + 1) \div 2 = j /\ b % 2 = 0
  BY <1>1
<1>4. RemapStatus(pairs)[a] = RenameCase(pairs[j][1], pairs[j][2])
  BY <1>1, <1>2 DEF RemapStatus, RenameCase
<1>5. RemapStatus(pairs)[b] = RenameEvent(pairs[j][1], pairs[j][2])
  BY <1>1, <1>3 DEF RemapStatus, RenameEvent
<1> QED BY <1>2, <1>3, <1>4, <1>5

DropDispatched == DropColumns("incident_cases", { "dispatched_at" })
DropTrack      == DropColumns("incident_cases", CaseColumns0014)

LEMMA UpStatements ==
  /\ Upgrade0014[1] = AddTrack /\ Upgrade0014[3] = EmicTrack /\ Upgrade0014[22] = DropDispatched
  /\ \A j \in 1..9 : /\ Upgrade0014[2 * j + 2] = RenameCase(StatusUp[j][1], StatusUp[j][2])
                     /\ Upgrade0014[2 * j + 3] = RenameEvent(StatusUp[j][1], StatusUp[j][2])
  /\ \A t \in DOMAIN Kept : Aside(Upgrade0014[2], t)
  /\ \A t \in { "incident_cases", "case_events" } : \A i \in 23..33 : Aside(Upgrade0014[i], t)
<1>1. Upgrade0014[1] = AddTrack /\ Upgrade0014[3] = EmicTrack
  BY Upgrade14 DEF Track0014, AddTrack
<1>2. \A t \in DOMAIN Kept : Aside(Upgrade0014[2], t)
  BY Upgrade14 DEF Track0014, Aside, CreateIndexes
<1>3. Upgrade0014[22] = DropDispatched
  <2>1. Upgrade0014[21 + 1] = Accounts0014[1]
    BY Upgrade14
  <2> QED BY <2>1 DEF Accounts0014, DropDispatched
<1>4. ASSUME NEW j \in 1..9
      PROVE  /\ Upgrade0014[2 * j + 2] = RenameCase(StatusUp[j][1], StatusUp[j][2])
             /\ Upgrade0014[2 * j + 3] = RenameEvent(StatusUp[j][1], StatusUp[j][2])
  <2>1. /\ RemapStatus(StatusUp)[2 * j - 1] = RenameCase(StatusUp[j][1], StatusUp[j][2])
        /\ RemapStatus(StatusUp)[2 * j] = RenameEvent(StatusUp[j][1], StatusUp[j][2])
    <3>1. PICK pairs : pairs = StatusUp
      OBVIOUS
    <3>2. Len(pairs) \in Nat /\ j \in 1..Len(pairs)
      BY <3>1, PairsLen
    <3>3. /\ RemapStatus(pairs)[2 * j - 1] = RenameCase(pairs[j][1], pairs[j][2])
          /\ RemapStatus(pairs)[2 * j] = RenameEvent(pairs[j][1], pairs[j][2])
      BY <3>2, RemapAt, Zenon
    <3> QED BY <3>1, <3>3
  <2>2. PICK a \in 1..18, b \in 1..18 : a = 2 * j - 1 /\ b = 2 * j
    OBVIOUS
  <2>3. Upgrade0014[3 + a] = RemapStatus(StatusUp)[a] /\ Upgrade0014[3 + b] = RemapStatus(StatusUp)[b]
    BY Upgrade14
  <2>4. 3 + a = 2 * j + 2 /\ 3 + b = 2 * j + 3
    BY <2>2
  <2> QED BY <2>1, <2>2, <2>3, <2>4
<1>5. ASSUME NEW t \in { "incident_cases", "case_events" }, NEW i \in 23..33
      PROVE  Aside(Upgrade0014[i], t)
  <2>1. PICK j \in 2..12 : i = 21 + j
    OBVIOUS
  <2>2. Upgrade0014[i] = Accounts0014[j]
    BY <2>1, Upgrade14
  <2>3. CASE j = 2
    BY <2>2, <2>3 DEF Accounts0014, Aside, AddColumns
  <2>4. CASE j \in 3..12
    BY <2>2, <2>4, Accounts14 DEF Kept
  <2> QED BY <2>1, <2>3, <2>4
<1> QED BY <1>1, <1>2, <1>3, <1>4, <1>5

LEMMA DownStatements ==
  /\ Downgrade0014[12] = AddDispatched /\ Downgrade0014[13] = CopyBack /\ Downgrade0014[25] = DropTrack
  /\ \A j \in 1..5 : /\ Downgrade0014[2 * j + 12] = RenameCase(StatusDown[j][1], StatusDown[j][2])
                     /\ Downgrade0014[2 * j + 13] = RenameEvent(StatusDown[j][1], StatusDown[j][2])
  /\ \A t \in DOMAIN Kept : Aside(Downgrade0014[24], t)
  /\ \A t \in { "incident_cases", "case_events" } : \A i \in 1..11 : Aside(Downgrade0014[i], t)
<1>1. Downgrade0014[12] = AddDispatched /\ Downgrade0014[13] = CopyBack
  BY Downgrade14 DEF Dispatch0014, AddDispatched, CopyBack
<1>2. \A t \in DOMAIN Kept : Aside(Downgrade0014[24], t)
  <2>1. Downgrade0014[23 + 1] = Untrack0014[1]
    BY Downgrade14
  <2> QED BY <2>1 DEF Untrack0014, Aside, DropIndexes
<1>3. Downgrade0014[25] = DropTrack
  <2>1. Downgrade0014[23 + 2] = Untrack0014[2]
    BY Downgrade14
  <2> QED BY <2>1 DEF Untrack0014, DropTrack
<1>4. ASSUME NEW j \in 1..5
      PROVE  /\ Downgrade0014[2 * j + 12] = RenameCase(StatusDown[j][1], StatusDown[j][2])
             /\ Downgrade0014[2 * j + 13] = RenameEvent(StatusDown[j][1], StatusDown[j][2])
  <2>1. /\ RemapStatus(StatusDown)[2 * j - 1] = RenameCase(StatusDown[j][1], StatusDown[j][2])
        /\ RemapStatus(StatusDown)[2 * j] = RenameEvent(StatusDown[j][1], StatusDown[j][2])
    <3>1. PICK pairs : pairs = StatusDown
      OBVIOUS
    <3>2. Len(pairs) \in Nat /\ j \in 1..Len(pairs)
      BY <3>1, PairsLen
    <3>3. /\ RemapStatus(pairs)[2 * j - 1] = RenameCase(pairs[j][1], pairs[j][2])
          /\ RemapStatus(pairs)[2 * j] = RenameEvent(pairs[j][1], pairs[j][2])
      BY <3>2, RemapAt, Zenon
    <3> QED BY <3>1, <3>3
  <2>2. PICK a \in 1..10, b \in 1..10 : a = 2 * j - 1 /\ b = 2 * j
    OBVIOUS
  <2>3. Downgrade0014[13 + a] = RemapStatus(StatusDown)[a] /\ Downgrade0014[13 + b] = RemapStatus(StatusDown)[b]
    BY Downgrade14
  <2>4. 13 + a = 2 * j + 12 /\ 13 + b = 2 * j + 13
    BY <2>2
  <2> QED BY <2>1, <2>2, <2>3, <2>4
<1>5. ASSUME NEW t \in { "incident_cases", "case_events" }, NEW i \in 1..11
      PROVE  Aside(Downgrade0014[i], t)
  <2>1. Downgrade0014[i] = Dispatch0014[i]
    BY Downgrade14
  <2>2. Aside(Dispatch0014[i], t)
    BY DEF Dispatch0014, Aside, CreateTable, CreateIndexes, DropTable, DropKey, DropColumns
  <2> QED BY <2>1, <2>2
<1> QED BY <1>1, <1>2, <1>3, <1>4, <1>5

LEMMA AfterOwn ==
  ASSUME NEW r, NEW r1, NEW s, NEW t, NEW k, r1 = After(r, s, t, k), s.on = t, s.op \in Rewriting
  PROVE  Became(r, s, k, r1)
BY DEF After, Aside, Became, Rewriting

\* A pair of statements that renames a status.
LEMMA RenameStep ==
  ASSUME NEW r, NEW e, NEW r1, NEW e1, NEW r2, NEW e2, NEW k, NEW s, NEW u, NEW old, NEW new,
         s = RenameCase(old, new), u = RenameEvent(old, new),
         r1 = After(r, s, "incident_cases", k), r2 = After(r1, u, "incident_cases", k),
         e1 = After(e, s, "case_events", k), e2 = After(e1, u, "case_events", k),
         "status" \in DOMAIN r, "to_status" \in DOMAIN e
  PROVE  Renamed(r, e, r2, e2, old, new)
<1>1. r2 = r1 /\ e1 = e
  BY DEF After, Aside, RenameCase, RenameEvent, Remap
<1>2. r1 = RowAfter(r, s, k)
  BY DEF After, Aside, RenameCase, Remap
<1>3. e2 = RowAfter(e1, u, k)
  BY DEF After, Aside, RenameEvent, Remap
<1>4. r2 = RowAfter(r, RenameCase(old, new), k) /\ e2 = RowAfter(e, RenameEvent(old, new), k)
  BY <1>1, <1>2, <1>3
<1> QED BY <1>4, CaseRenamed, EventRenamed DEF Renamed

LEMMA CaseUp ==
  ASSUME NEW k, NEW r, NEW e, RowPath(r, "incident_cases", Upgrade0014, k, 33),
         RowPath(e, "case_events", Upgrade0014, k, 33),
         OldPair(r[0], e[0]), DOMAIN r[0] = CasesBefore14, DOMAIN e[0] = EventColumnsKept
  PROVE  NewPair(r[33], e[33]) /\ SameCase(r[0], r[33])
<1>1. /\ r[1] = After(r[0], AddTrack, "incident_cases", k)
      /\ r[2] = r[1]
      /\ r[3] = After(r[2], EmicTrack, "incident_cases", k)
  <2>1. \A i \in 1..3 : r[i] = After(r[i - 1], Upgrade0014[i], "incident_cases", k)
    BY DEF RowPath
  <2>2. r[1] = After(r[0], Upgrade0014[1], "incident_cases", k) /\ r[3] = After(r[2], Upgrade0014[3], "incident_cases", k)
    BY <2>1
  <2>3. r[2] = After(r[1], Upgrade0014[2], "incident_cases", k) /\ Aside(Upgrade0014[2], "incident_cases")
    BY <2>1, UpStatements DEF Kept
  <2>4. r[2] = r[1]
    BY <2>3 DEF After
  <2> QED BY <2>2, <2>4, UpStatements
<1>2. e[3] = e[0]
  <2>1. Aside(AddTrack, "case_events") /\ Aside(EmicTrack, "case_events")
    BY DEF Aside, AddTrack, AddColumns, EmicTrack, CopyWhere
  <2>2. \A i \in 1..3 : Aside(Upgrade0014[i], "case_events")
    BY <2>1, UpStatements DEF Kept
  <2>3. \A i \in 1..3 : e[i] = e[i - 1]
    BY <2>2 DEF RowPath, After
  <2> QED BY <2>3
<1>3. MidUp(0, r[3], e[3]) /\ SameCase(r[0], r[3])
  <2>1. Became(r[0], AddTrack, k, r[1]) /\ Became(r[1], EmicTrack, k, r[3])
    <3>1. /\ AddTrack.on = "incident_cases" /\ AddTrack.op \in Rewriting
          /\ EmicTrack.on = "incident_cases" /\ EmicTrack.op \in Rewriting
      BY DEF AddTrack, AddColumns, EmicTrack, CopyWhere, Rewriting
    <3> QED BY <1>1, <3>1, AfterOwn
  <2> QED BY <1>2, <2>1, UpStart
<1>4. PICK T : T = { j \in 0..9 : MidUp(j, r[2 * j + 3], e[2 * j + 3]) /\ SameCase(r[0], r[2 * j + 3]) }
  OBVIOUS
<1>5. 0 \in T
  BY <1>3, <1>4
<1>6. ASSUME NEW j \in 1..9, j - 1 \in T PROVE j \in T
  <2>1. PICK a \in 1..33 : a = 2 * j + 2
    OBVIOUS
  <2>2. MidUp(j - 1, r[a - 1], e[a - 1]) /\ SameCase(r[0], r[a - 1])
    <3>1. 2 * (j - 1) + 3 = a - 1
      BY <2>1
    <3> QED BY <1>4, <1>6, <3>1
  <2>3. a + 1 \in 1..33 /\ (a + 1) - 1 = a /\ a + 1 = 2 * j + 3
    BY <2>1
  <2>4. PICK old, new : old = StatusUp[j][1] /\ new = StatusUp[j][2]
    OBVIOUS
  <2>5. Upgrade0014[a] = RenameCase(old, new) /\ Upgrade0014[a + 1] = RenameEvent(old, new)
    BY <2>1, <2>3, <2>4, UpStatements
  <2>6. /\ r[a] = After(r[a - 1], Upgrade0014[a], "incident_cases", k)
        /\ r[a + 1] = After(r[a], Upgrade0014[a + 1], "incident_cases", k)
        /\ e[a] = After(e[a - 1], Upgrade0014[a], "case_events", k)
        /\ e[a + 1] = After(e[a], Upgrade0014[a + 1], "case_events", k)
    BY <2>3 DEF RowPath
  <2>7. "status" \in DOMAIN r[a - 1] /\ "to_status" \in DOMAIN e[a - 1]
    BY <2>2 DEF MidUp
  <2>8. Renamed(r[a - 1], e[a - 1], r[a + 1], e[a + 1], old, new)
    BY <2>5, <2>6, <2>7, RenameStep
  <2>9. MidUp(j, r[a + 1], e[a + 1]) /\ SameCase(r[a - 1], r[a + 1])
    BY <2>2, <2>4, <2>8, RenameUp
  <2>10. SameCase(r[0], r[a + 1])
    BY <2>2, <2>9 DEF SameCase
  <2> QED BY <1>4, <2>3, <2>9, <2>10
<1>7. \A j \in 0..9 : j \in T
  BY <1>5, <1>6, UpTo
<1>8. MidUp(9, r[21], e[21]) /\ SameCase(r[0], r[21])
  <2>1. 9 \in T /\ 2 * 9 + 3 = 21
    BY <1>7
  <2> QED BY <1>4, <2>1
<1>9. r[22] = After(r[21], DropDispatched, "incident_cases", k) /\ e[22] = e[21]
  <2>1. /\ r[22] = After(r[22 - 1], Upgrade0014[22], "incident_cases", k)
        /\ e[22] = After(e[22 - 1], Upgrade0014[22], "case_events", k)
    BY DEF RowPath
  <2>2. Aside(DropDispatched, "case_events")
    BY DEF Aside, DropDispatched, DropColumns
  <2> QED BY <2>1, <2>2, UpStatements DEF After
<1>10. NewPair(r[22], e[22]) /\ SameCase(r[21], r[22])
  <2>1. Became(r[21], DropDispatched, k, r[22])
    BY <1>9, AfterOwn DEF DropDispatched, DropColumns, Rewriting
  <2> QED BY <1>8, <1>9, <2>1, UpEnd DEF DropDispatched
<1>11. r[33] = r[22] /\ e[33] = e[22]
  <2>1. PICK first \in 0..33 : first = 22
    OBVIOUS
  <2>2. \A t \in { "incident_cases", "case_events" } : \A i \in first + 1..33 : Aside(Upgrade0014[i], t)
    BY <2>1, UpStatements
  <2>3. 33 \in Nat /\ 33 \in first..33
    BY <2>1
  <2>4. r[33] = r[first] /\ e[33] = e[first]
    BY <2>2, <2>3, PathStays
  <2> QED BY <2>1, <2>4
<1> QED BY <1>8, <1>10, <1>11 DEF SameCase


LEMMA CaseDown ==
  ASSUME NEW k, NEW r, NEW e, RowPath(r, "incident_cases", Downgrade0014, k, 25),
         RowPath(e, "case_events", Downgrade0014, k, 25),
         NewPair(r[0], e[0]), DOMAIN r[0] = CasesFrom14, DOMAIN e[0] = EventColumnsKept
  PROVE  OldPair(r[25], e[25]) /\ SameCase(r[0], r[25])
<1>1. /\ r[11] = r[0] /\ e[11] = e[0]
      /\ r[12] = After(r[11], AddDispatched, "incident_cases", k)
      /\ r[13] = After(r[12], CopyBack, "incident_cases", k)
  <2>1. \A t \in { "incident_cases", "case_events" } : \A i \in 0 + 1..11 : Aside(Downgrade0014[i], t)
    BY DownStatements
  <2>2. r[11] = r[0] /\ e[11] = e[0]
    <3>1. 25 \in Nat /\ 0 \in 0..25 /\ 11 \in 0..25
      OBVIOUS
    <3> QED BY <2>1, <3>1, PathStays
  <2>3. \A i \in 12..13 : r[i] = After(r[i - 1], Downgrade0014[i], "incident_cases", k)
    BY DEF RowPath
  <2>4. /\ r[12] = After(r[11], Downgrade0014[12], "incident_cases", k)
        /\ r[13] = After(r[12], Downgrade0014[13], "incident_cases", k)
    BY <2>3
  <2> QED BY <2>2, <2>4, DownStatements
<1>2. e[13] = e[0]
  <2>1. Aside(AddDispatched, "case_events") /\ Aside(CopyBack, "case_events")
    BY DEF Aside, AddDispatched, AddColumns, CopyBack, CopyWhere
  <2>2. \A i \in 12..13 : Aside(Downgrade0014[i], "case_events")
    BY <2>1, DownStatements
  <2>3. \A i \in 12..13 : e[i] = e[i - 1]
    BY <2>2 DEF RowPath, After
  <2> QED BY <1>1, <2>3
<1>3. MidDown(0, r[13], e[13]) /\ SameCase(r[0], r[13])
  <2>1. Became(r[0], AddDispatched, k, r[12]) /\ Became(r[12], CopyBack, k, r[13])
    <3>1. /\ AddDispatched.on = "incident_cases" /\ AddDispatched.op \in Rewriting
          /\ CopyBack.on = "incident_cases" /\ CopyBack.op \in Rewriting
      BY DEF AddDispatched, AddColumns, CopyBack, CopyWhere, Rewriting
    <3> QED BY <1>1, <3>1, AfterOwn
  <2> QED BY <1>2, <2>1, DownStart
<1>4. PICK T : T = { j \in 0..5 : MidDown(j, r[2 * j + 13], e[2 * j + 13]) /\ SameCase(r[0], r[2 * j + 13]) }
  OBVIOUS
<1>5. 0 \in T
  BY <1>3, <1>4
<1>6. ASSUME NEW j \in 1..5, j - 1 \in T PROVE j \in T
  <2>1. PICK a \in 1..25 : a = 2 * j + 12
    OBVIOUS
  <2>2. MidDown(j - 1, r[a - 1], e[a - 1]) /\ SameCase(r[0], r[a - 1])
    <3>1. 2 * (j - 1) + 13 = a - 1
      BY <2>1
    <3> QED BY <1>4, <1>6, <3>1
  <2>3. a + 1 \in 1..25 /\ (a + 1) - 1 = a /\ a + 1 = 2 * j + 13
    BY <2>1
  <2>4. PICK old, new : old = StatusDown[j][1] /\ new = StatusDown[j][2]
    OBVIOUS
  <2>5. Downgrade0014[a] = RenameCase(old, new) /\ Downgrade0014[a + 1] = RenameEvent(old, new)
    BY <2>1, <2>3, <2>4, DownStatements
  <2>6. /\ r[a] = After(r[a - 1], Downgrade0014[a], "incident_cases", k)
        /\ r[a + 1] = After(r[a], Downgrade0014[a + 1], "incident_cases", k)
        /\ e[a] = After(e[a - 1], Downgrade0014[a], "case_events", k)
        /\ e[a + 1] = After(e[a], Downgrade0014[a + 1], "case_events", k)
    BY <2>3 DEF RowPath
  <2>7. "status" \in DOMAIN r[a - 1] /\ "to_status" \in DOMAIN e[a - 1]
    BY <2>2 DEF MidDown
  <2>8. Renamed(r[a - 1], e[a - 1], r[a + 1], e[a + 1], old, new)
    BY <2>5, <2>6, <2>7, RenameStep
  <2>9. MidDown(j, r[a + 1], e[a + 1]) /\ SameCase(r[a - 1], r[a + 1])
    BY <2>2, <2>4, <2>8, RenameDown
  <2>10. SameCase(r[0], r[a + 1])
    BY <2>2, <2>9 DEF SameCase
  <2> QED BY <1>4, <2>3, <2>9, <2>10
<1>7. \A j \in 0..5 : j \in T
  BY <1>5, <1>6, UpTo
<1>8. MidDown(5, r[23], e[23]) /\ SameCase(r[0], r[23])
  <2>1. 5 \in T /\ 2 * 5 + 13 = 23
    BY <1>7
  <2> QED BY <1>4, <2>1
<1>9. /\ r[24] = r[23] /\ e[24] = e[23]
      /\ r[25] = After(r[24], DropTrack, "incident_cases", k) /\ e[25] = e[24]
  <2>1. \A i \in 24..25 : /\ r[i] = After(r[i - 1], Downgrade0014[i], "incident_cases", k)
                         /\ e[i] = After(e[i - 1], Downgrade0014[i], "case_events", k)
    BY DEF RowPath
  <2>2. /\ r[24] = After(r[23], Downgrade0014[24], "incident_cases", k)
        /\ e[24] = After(e[23], Downgrade0014[24], "case_events", k)
        /\ r[25] = After(r[24], Downgrade0014[25], "incident_cases", k)
        /\ e[25] = After(e[24], Downgrade0014[25], "case_events", k)
    BY <2>1
  <2>3. Aside(Downgrade0014[24], "incident_cases") /\ Aside(Downgrade0014[24], "case_events")
    BY DownStatements DEF Kept
  <2>4. Aside(DropTrack, "case_events")
    BY DEF Aside, DropTrack, DropColumns
  <2> QED BY <2>2, <2>3, <2>4, DownStatements DEF After
<1>10. OldPair(r[25], e[25]) /\ SameCase(r[23], r[25])
  <2>1. Became(r[23], DropTrack, k, r[25])
    BY <1>9, AfterOwn DEF DropTrack, DropColumns, Rewriting
  <2> QED BY <1>8, <1>9, <2>1, DownEnd DEF DropTrack
<1> QED BY <1>8, <1>10 DEF SameCase

-----------------------------------------------------------------------------
(* The rows of a database along a script *)

CaseOf(d, c)  == d.rows["incident_cases"][c]
EventOf(d, c) == d.rows["case_events"][c]

CaseTables == { "incident_cases", "case_events" }

\* A case that a release of version n may have left, and its event.
PairOk(n, c, r, e) ==
  r["platform_id"] = c /\ IF n < 14 THEN OldPair(r, e) ELSE NewPair(r, e)

CasesOk(d, n) ==
  /\ DOMAIN d.rows["case_events"] = DOMAIN d.rows["incident_cases"]
  /\ \A c \in DOMAIN d.rows["incident_cases"] : PairOk(n, c, CaseOf(d, c), EventOf(d, c))

SameCases(d, e) ==
  /\ DOMAIN e.rows["incident_cases"] = DOMAIN d.rows["incident_cases"]
  /\ \A c \in DOMAIN d.rows["incident_cases"] : Finished(CaseOf(d, c)) <=> Finished(CaseOf(e, c))

\* The first and the last version of a row.
LEMMA RowMoves ==
  ASSUME NEW g, NEW script, NEW k, NEW n \in Nat, Steps(g, script, k, n),
         NEW t \in DOMAIN g[0].rows, \A i \in 1..n : Keeps(script[i], t)
  PROVE  /\ t \in DOMAIN g[n].rows /\ DOMAIN g[n].rows[t] = DOMAIN g[0].rows[t]
         /\ \A c \in DOMAIN g[0].rows[t] :
              \E r : RowPath(r, t, script, k, n) /\ r[0] = g[0].rows[t][c] /\ r[n] = g[n].rows[t][c]
<1>1. PICK ids : ids = DOMAIN g[0].rows[t]
  OBVIOUS
<1>2. Tracked(g, t, script, k, n, ids)
  BY <1>1, TableTracked
<1>3. 0 \in 0..n /\ n \in 0..n
  OBVIOUS
<1>4. t \in DOMAIN g[n].rows /\ DOMAIN g[n].rows[t] = ids
  BY <1>2, <1>3 DEF Tracked
<1>5. ASSUME NEW c \in ids
      PROVE  \E r : RowPath(r, t, script, k, n) /\ r[0] = g[0].rows[t][c] /\ r[n] = g[n].rows[t][c]
  <2>1. PICK r : Versions(r, g, t, script, k, n, c)
    BY <1>2, <1>5, PathOf
  <2> QED BY <1>3, <2>1 DEF Versions
<1> QED BY <1>1, <1>4, <1>5

\* A script that is not about cases leaves them as they are.
LEMMA CasesAside ==
  ASSUME NEW g, NEW script, NEW k, NEW n \in Nat, Steps(g, script, k, n),
         CaseTables \subseteq DOMAIN g[0].rows,
         \A i \in 1..n : \A t \in CaseTables : Aside(script[i], t),
         NEW a \in Nat, NEW b \in Nat, a < 14 <=> b < 14, CasesOk(g[0], a)
  PROVE  CasesOk(g[n], b) /\ SameCases(g[0], g[n])
<1>1. ASSUME NEW t \in CaseTables
      PROVE  /\ t \in DOMAIN g[n].rows /\ DOMAIN g[n].rows[t] = DOMAIN g[0].rows[t]
             /\ \A c \in DOMAIN g[0].rows[t] : g[n].rows[t][c] = g[0].rows[t][c]
  <2>1. t \in DOMAIN g[0].rows /\ \A i \in 1..n : Keeps(script[i], t)
    BY DEF Keeps
  <2>2. /\ DOMAIN g[n].rows[t] = DOMAIN g[0].rows[t] /\ t \in DOMAIN g[n].rows
        /\ \A c \in DOMAIN g[0].rows[t] :
             \E r : RowPath(r, t, script, k, n) /\ r[0] = g[0].rows[t][c] /\ r[n] = g[n].rows[t][c]
    BY <2>1, RowMoves
  <2>3. ASSUME NEW c \in DOMAIN g[0].rows[t] PROVE g[n].rows[t][c] = g[0].rows[t][c]
    <3>1. PICK r : RowPath(r, t, script, k, n) /\ r[0] = g[0].rows[t][c] /\ r[n] = g[n].rows[t][c]
      BY <2>2
    <3>2. 0 \in 0..n /\ n \in 0..n /\ \A i \in 0 + 1..n : Aside(script[i], t)
      OBVIOUS
    <3>3. r[n] = r[0]
      BY <3>1, <3>2, PathStays
    <3> QED BY <3>1, <3>3
  <2> QED BY <2>2, <2>3
<1>2. /\ DOMAIN g[n].rows["incident_cases"] = DOMAIN g[0].rows["incident_cases"]
      /\ DOMAIN g[n].rows["case_events"] = DOMAIN g[0].rows["case_events"]
      /\ \A c \in DOMAIN g[0].rows["incident_cases"] : CaseOf(g[n], c) = CaseOf(g[0], c)
      /\ \A c \in DOMAIN g[0].rows["case_events"] : EventOf(g[n], c) = EventOf(g[0], c)
  BY <1>1 DEF CaseTables, CaseOf, EventOf
<1>3. \A c, r, e : PairOk(a, c, r, e) => PairOk(b, c, r, e)
  BY DEF PairOk
<1> QED BY <1>2, <1>3 DEF CasesOk, SameCases

LEMMA CasesUp ==
  ASSUME NEW g, NEW k, Steps(g, Upgrade0014, k, 33), CaseTables \subseteq DOMAIN g[0].rows,
         CasesOk(g[0], 13),
         \A c \in DOMAIN g[0].rows["incident_cases"] :
           DOMAIN CaseOf(g[0], c) = CasesBefore14 /\ DOMAIN EventOf(g[0], c) = EventColumnsKept
  PROVE  CasesOk(g[33], 14) /\ SameCases(g[0], g[33])
<1>1. \A t \in CaseTables : t \in DOMAIN g[0].rows /\ \A i \in 1..33 : Keeps(Upgrade0014[i], t)
  <2>1. ASSUME NEW t \in CaseTables, NEW i \in 1..33 PROVE Keeps(Upgrade0014[i], t)
    <3>1. CASE i \in { 1, 3, 22 }
      BY <3>1, UpStatements DEF Keeps, AddTrack, AddColumns, EmicTrack, CopyWhere, DropDispatched, DropColumns, Rewriting
    <3>2. CASE i = 2 \/ i \in 23..33
      BY <3>2, UpStatements DEF Keeps, CaseTables, Kept
    <3>3. CASE i \in 4..21
      <4>1. PICK j \in 1..9 : i = 2 * j + 2 \/ i = 2 * j + 3
        BY <3>3
      <4> QED BY <4>1, UpStatements DEF Keeps, RenameCase, RenameEvent, Remap, Rewriting
    <3> QED BY <3>1, <3>2, <3>3
  <2> QED BY <2>1
<1>2. 33 \in Nat
  OBVIOUS
<1>3. /\ DOMAIN g[33].rows["incident_cases"] = DOMAIN g[0].rows["incident_cases"]
      /\ \A c \in DOMAIN g[0].rows["incident_cases"] :
           \E r : /\ RowPath(r, "incident_cases", Upgrade0014, k, 33)
                  /\ r[0] = CaseOf(g[0], c) /\ r[33] = CaseOf(g[33], c)
  <2>1. "incident_cases" \in CaseTables
    BY DEF CaseTables
  <2> QED BY <1>1, <1>2, <2>1, RowMoves DEF CaseOf
<1>4. /\ DOMAIN g[33].rows["case_events"] = DOMAIN g[0].rows["case_events"]
      /\ \A c \in DOMAIN g[0].rows["case_events"] :
           \E e : /\ RowPath(e, "case_events", Upgrade0014, k, 33)
                  /\ e[0] = EventOf(g[0], c) /\ e[33] = EventOf(g[33], c)
  <2>1. "case_events" \in CaseTables
    BY DEF CaseTables
  <2> QED BY <1>1, <1>2, <2>1, RowMoves DEF EventOf
<1>5. ASSUME NEW c \in DOMAIN g[0].rows["incident_cases"]
      PROVE  /\ PairOk(14, c, CaseOf(g[33], c), EventOf(g[33], c))
             /\ Finished(CaseOf(g[0], c)) <=> Finished(CaseOf(g[33], c))
  <2>1. c \in DOMAIN g[0].rows["case_events"] /\ PairOk(13, c, CaseOf(g[0], c), EventOf(g[0], c))
    BY DEF CasesOk
  <2>2. PICK r : /\ RowPath(r, "incident_cases", Upgrade0014, k, 33)
                 /\ r[0] = CaseOf(g[0], c) /\ r[33] = CaseOf(g[33], c)
    BY <1>3
  <2>3. PICK e : /\ RowPath(e, "case_events", Upgrade0014, k, 33)
                 /\ e[0] = EventOf(g[0], c) /\ e[33] = EventOf(g[33], c)
    BY <1>4, <2>1
  <2>4. OldPair(r[0], e[0]) /\ r[0]["platform_id"] = c
    BY <2>1, <2>2, <2>3 DEF PairOk
  <2>5. DOMAIN r[0] = CasesBefore14 /\ DOMAIN e[0] = EventColumnsKept
    BY <2>2, <2>3
  <2>6. NewPair(r[33], e[33]) /\ SameCase(r[0], r[33])
    BY <2>2, <2>3, <2>4, <2>5, CaseUp
  <2>7. r[33]["platform_id"] = c /\ (Finished(r[0]) <=> Finished(r[33]))
    BY <2>4, <2>6 DEF SameCase
  <2> QED BY <2>2, <2>3, <2>6, <2>7 DEF PairOk
<1> QED BY <1>3, <1>4, <1>5 DEF CasesOk, SameCases

LEMMA CasesDown ==
  ASSUME NEW g, NEW k, Steps(g, Downgrade0014, k, 25), CaseTables \subseteq DOMAIN g[0].rows,
         CasesOk(g[0], 14),
         \A c \in DOMAIN g[0].rows["incident_cases"] :
           DOMAIN CaseOf(g[0], c) = CasesFrom14 /\ DOMAIN EventOf(g[0], c) = EventColumnsKept
  PROVE  CasesOk(g[25], 13) /\ SameCases(g[0], g[25])
<1>1. \A t \in CaseTables : t \in DOMAIN g[0].rows /\ \A i \in 1..25 : Keeps(Downgrade0014[i], t)
  <2>1. ASSUME NEW t \in CaseTables, NEW i \in 1..25 PROVE Keeps(Downgrade0014[i], t)
    <3>1. CASE i \in { 12, 13, 25 }
      BY <3>1, DownStatements
         DEF Keeps, AddDispatched, AddColumns, CopyBack, CopyWhere, DropTrack, DropColumns, Rewriting
    <3>2. CASE i = 24 \/ i \in 1..11
      BY <3>2, DownStatements DEF Keeps, CaseTables, Kept
    <3>3. CASE i \in 14..23
      <4>1. PICK j \in 1..5 : i = 2 * j + 12 \/ i = 2 * j + 13
        BY <3>3
      <4> QED BY <4>1, DownStatements DEF Keeps, RenameCase, RenameEvent, Remap, Rewriting
    <3> QED BY <3>1, <3>2, <3>3
  <2> QED BY <2>1
<1>2. 25 \in Nat
  OBVIOUS
<1>3. /\ DOMAIN g[25].rows["incident_cases"] = DOMAIN g[0].rows["incident_cases"]
      /\ \A c \in DOMAIN g[0].rows["incident_cases"] :
           \E r : /\ RowPath(r, "incident_cases", Downgrade0014, k, 25)
                  /\ r[0] = CaseOf(g[0], c) /\ r[25] = CaseOf(g[25], c)
  <2>1. "incident_cases" \in CaseTables
    BY DEF CaseTables
  <2> QED BY <1>1, <1>2, <2>1, RowMoves DEF CaseOf
<1>4. /\ DOMAIN g[25].rows["case_events"] = DOMAIN g[0].rows["case_events"]
      /\ \A c \in DOMAIN g[0].rows["case_events"] :
           \E e : /\ RowPath(e, "case_events", Downgrade0014, k, 25)
                  /\ e[0] = EventOf(g[0], c) /\ e[25] = EventOf(g[25], c)
  <2>1. "case_events" \in CaseTables
    BY DEF CaseTables
  <2> QED BY <1>1, <1>2, <2>1, RowMoves DEF EventOf
<1>5. ASSUME NEW c \in DOMAIN g[0].rows["incident_cases"]
      PROVE  /\ PairOk(13, c, CaseOf(g[25], c), EventOf(g[25], c))
             /\ Finished(CaseOf(g[0], c)) <=> Finished(CaseOf(g[25], c))
  <2>1. c \in DOMAIN g[0].rows["case_events"] /\ PairOk(14, c, CaseOf(g[0], c), EventOf(g[0], c))
    BY DEF CasesOk
  <2>2. PICK r : /\ RowPath(r, "incident_cases", Downgrade0014, k, 25)
                 /\ r[0] = CaseOf(g[0], c) /\ r[25] = CaseOf(g[25], c)
    BY <1>3
  <2>3. PICK e : /\ RowPath(e, "case_events", Downgrade0014, k, 25)
                 /\ e[0] = EventOf(g[0], c) /\ e[25] = EventOf(g[25], c)
    BY <1>4, <2>1
  <2>4. NewPair(r[0], e[0]) /\ r[0]["platform_id"] = c
    BY <2>1, <2>2, <2>3 DEF PairOk
  <2>5. DOMAIN r[0] = CasesFrom14 /\ DOMAIN e[0] = EventColumnsKept
    BY <2>2, <2>3
  <2>6. OldPair(r[25], e[25]) /\ SameCase(r[0], r[25])
    BY <2>2, <2>3, <2>4, <2>5, CaseDown
  <2>7. r[25]["platform_id"] = c /\ (Finished(r[0]) <=> Finished(r[25]))
    BY <2>4, <2>6 DEF SameCase
  <2> QED BY <2>2, <2>3, <2>6, <2>7 DEF PairOk
<1> QED BY <1>3, <1>4, <1>5 DEF CasesOk, SameCases

-----------------------------------------------------------------------------
(* Personal data along a script *)

\* The value of a column that holds personal data at version n; on: the key is
\* configured.
Stored(v, n, on) ==
  \/ v = Null
  \/ n = Newest /\ IsEncrypted(v) /\ (on => v = ConfiguredKey)
  \/ n # Newest /\ ~ IsEncrypted(v) /\ (on => v = Plain)

RowStored(r, n, on) == \A c \in DOMAIN r : Stored(r[c], n, on)

ReportsOk(d, n, on) == \A i \in DOMAIN d.rows["reports"] : RowStored(d.rows["reports"][i], n, on)

RightKey(k, on) == IF on THEN k = ConfiguredKey ELSE k \in Keys \ { ConfiguredKey }

LEMMA MildRow ==
  ASSUME NEW r, NEW s, NEW k, NEW n, NEW on, RowStored(r, n, on), Mild(s), Keeps(s, "reports")
  PROVE  RowStored(After(r, s, "reports", k), n, on)
<1>1. CASE Aside(s, "reports")
  BY <1>1 DEF After
<1>2. CASE ~ Aside(s, "reports")
  <2>1. PICK r1 : r1 = RowAfter(r, s, k)
    OBVIOUS
  <2>2. s.op = "add" \/ s.op = "remove"
    BY <1>2 DEF Aside, Keeps, Mild, Rewriting
  <2>3. RowStored(r1, n, on)
    <3>1. CASE s.op = "add"
      <4>1. r1 = [c \in DOMAIN r \cup (s.cols \cap Kept[s.on]) |-> IF c \in DOMAIN r THEN r[c] ELSE Null]
        BY <2>1, <3>1 DEF RowAfter
      <4> QED BY <4>1 DEF RowStored, Stored
    <3>2. CASE s.op = "remove"
      <4>1. r1 = [c \in DOMAIN r \ s.cols |-> r[c]]
        BY <2>1, <3>2 DEF RowAfter, Without
      <4> QED BY <4>1 DEF RowStored
    <3> QED BY <2>2, <3>1, <3>2
  <2> QED BY <1>2, <2>1, <2>3 DEF After
<1> QED BY <1>1, <1>2

LEMMA ReportsMild ==
  ASSUME NEW g, NEW script, NEW k, NEW n \in Nat, Steps(g, script, k, n), "reports" \in DOMAIN g[0].rows,
         \A i \in 1..n : Keeps(script[i], "reports") /\ Mild(script[i]),
         NEW a, NEW b, a = Newest <=> b = Newest, NEW on, ReportsOk(g[0], a, on)
  PROVE  ReportsOk(g[n], b, on)
<1>1. PICK ids : ids = DOMAIN g[0].rows["reports"]
  OBVIOUS
<1>2. /\ DOMAIN g[n].rows["reports"] = ids
      /\ \A c \in ids : \E r : /\ RowPath(r, "reports", script, k, n)
                              /\ r[0] = g[0].rows["reports"][c] /\ r[n] = g[n].rows["reports"][c]
  BY <1>1, RowMoves
<1>3. ASSUME NEW c \in ids PROVE RowStored(g[n].rows["reports"][c], b, on)
  <2>1. PICK r : /\ RowPath(r, "reports", script, k, n)
                 /\ r[0] = g[0].rows["reports"][c] /\ r[n] = g[n].rows["reports"][c]
    BY <1>2
  <2>2. PICK T : T = { i \in 0..n : RowStored(r[i], a, on) }
    OBVIOUS
  <2>3. 0 \in T
    BY <1>1, <2>1, <2>2 DEF ReportsOk
  <2>4. ASSUME NEW i \in 1..n, i - 1 \in T PROVE i \in T
    <3>1. r[i] = After(r[i - 1], script[i], "reports", k) /\ RowStored(r[i - 1], a, on) /\ i \in 0..n
      BY <2>1, <2>2, <2>4 DEF RowPath
    <3>2. RowStored(r[i], a, on)
      BY <3>1, MildRow
    <3> QED BY <2>2, <3>1, <3>2
  <2>5. n \in T
    <3>1. \A i \in 0..n : i \in T
      BY <2>3, <2>4, UpTo
    <3> QED BY <3>1
  <2>6. RowStored(r[n], a, on)
    BY <2>2, <2>5
  <2> QED BY <2>1, <2>6 DEF RowStored, Stored
<1> QED BY <1>2, <1>3 DEF ReportsOk

\* 0015, both ways.
LEMMA Recoded ==
  ASSUME NEW r, NEW how, NEW k, NEW r1, r1 = After(r, Recode("reports", PersonalColumns, how), "reports", k),
         DOMAIN r \subseteq PersonalColumns
  PROVE  /\ DOMAIN r1 = DOMAIN r
         /\ \A c \in DOMAIN r : r1[c] = IF how = "encrypt" THEN Encrypt(r[c], k) ELSE Decrypt(r[c], k)
<1>1. PICK s : s = Recode("reports", PersonalColumns, how)
  OBVIOUS
<1>2. s.op = "recode" /\ s.on = "reports" /\ s.cols = PersonalColumns /\ s.how = how
  BY <1>1 DEF Recode
<1>3. r1 = RowAfter(r, s, k)
  BY <1>1, <1>2 DEF After, Aside
<1>4. r1 = [c \in DOMAIN r |-> IF c \notin s.cols THEN r[c]
                               ELSE IF s.how = "encrypt" THEN Encrypt(r[c], k) ELSE Decrypt(r[c], k)]
  BY <1>2, <1>3 DEF RowAfter
<1> QED BY <1>2, <1>4

LEMMA EncryptStored ==
  ASSUME NEW v, NEW n, n # Newest, NEW on \in BOOLEAN, NEW k, Stored(v, n, on), RightKey(k, on)
  PROVE  Stored(Encrypt(v, k), Newest, on)
<1>1. IsEncrypted(k) /\ (on => k = ConfiguredKey)
  BY KeysAssumption DEF RightKey
<1>2. ~ IsEncrypted(Null)
  BY DEF IsEncrypted
<1> QED BY <1>1, <1>2 DEF Stored, Encrypt

LEMMA DecryptStored ==
  ASSUME NEW v, NEW n, n # Newest, NEW on \in BOOLEAN, NEW k, Stored(v, Newest, on), RightKey(k, on)
  PROVE  Stored(Decrypt(v, k), n, on)
<1>1. on => k = ConfiguredKey
  BY DEF RightKey
<1>2. ~ IsEncrypted(Null) /\ ~ IsEncrypted(Plain) /\ ~ IsEncrypted(Unreadable)
  BY DEF IsEncrypted
<1> QED BY <1>1, <1>2 DEF Stored, Decrypt

LEMMA ReportsUp ==
  ASSUME NEW g, NEW k, Steps(g, Upgrade0015, k, 1), "reports" \in DOMAIN g[0].rows,
         \A i \in DOMAIN g[0].rows["reports"] : DOMAIN g[0].rows["reports"][i] \subseteq PersonalColumns,
         NEW on \in BOOLEAN, RightKey(k, on), ReportsOk(g[0], 14, on)
  PROVE  ReportsOk(g[1], Newest, on)
<1>0. Upgrade0015[1] = Recode("reports", PersonalColumns, "encrypt")
  BY DEF Upgrade0015
<1>1. PICK ids : ids = DOMAIN g[0].rows["reports"]
  OBVIOUS
<1>2. /\ DOMAIN g[1].rows["reports"] = ids
      /\ \A c \in ids : \E r : /\ RowPath(r, "reports", Upgrade0015, k, 1)
                              /\ r[0] = g[0].rows["reports"][c] /\ r[1] = g[1].rows["reports"][c]
  <2>1. \A i \in 1..1 : Keeps(Upgrade0015[i], "reports")
    BY <1>0 DEF Keeps, Rewriting, Recode
  <2> QED BY <1>1, <2>1, RowMoves
<1>3. ASSUME NEW i \in ids PROVE RowStored(g[1].rows["reports"][i], Newest, on)
  <2>1. PICK r : /\ RowPath(r, "reports", Upgrade0015, k, 1)
                 /\ r[0] = g[0].rows["reports"][i] /\ r[1] = g[1].rows["reports"][i]
    BY <1>2
  <2>2. r[1] = After(r[1 - 1], Upgrade0015[1], "reports", k)
    BY <2>1 DEF RowPath
  <2>3. /\ DOMAIN r[1] = DOMAIN r[0]
        /\ \A c \in DOMAIN r[0] : r[1][c] = Encrypt(r[0][c], k)
    BY <1>0, <1>1, <2>1, <2>2, Recoded
  <2>4. \A c \in DOMAIN r[0] : Stored(r[0][c], 14, on)
    BY <1>1, <2>1 DEF ReportsOk, RowStored
  <2>5. \A c \in DOMAIN r[0] : Stored(Encrypt(r[0][c], k), Newest, on)
    BY <2>4, EncryptStored DEF Newest
  <2> QED BY <2>1, <2>3, <2>5 DEF RowStored
<1> QED BY <1>2, <1>3 DEF ReportsOk


LEMMA ReportsDown ==
  ASSUME NEW g, NEW k, Steps(g, Downgrade0015, k, 1), "reports" \in DOMAIN g[0].rows,
         \A i \in DOMAIN g[0].rows["reports"] : DOMAIN g[0].rows["reports"][i] \subseteq PersonalColumns,
         NEW on \in BOOLEAN, RightKey(k, on), ReportsOk(g[0], Newest, on)
  PROVE  ReportsOk(g[1], 14, on)
<1>0. Downgrade0015[1] = Recode("reports", PersonalColumns, "decrypt")
  BY DEF Downgrade0015
<1>1. PICK ids : ids = DOMAIN g[0].rows["reports"]
  OBVIOUS
<1>2. /\ DOMAIN g[1].rows["reports"] = ids
      /\ \A c \in ids : \E r : /\ RowPath(r, "reports", Downgrade0015, k, 1)
                              /\ r[0] = g[0].rows["reports"][c] /\ r[1] = g[1].rows["reports"][c]
  <2>1. \A i \in 1..1 : Keeps(Downgrade0015[i], "reports")
    BY <1>0 DEF Keeps, Rewriting, Recode
  <2> QED BY <1>1, <2>1, RowMoves
<1>3. ASSUME NEW i \in ids PROVE RowStored(g[1].rows["reports"][i], 14, on)
  <2>1. PICK r : /\ RowPath(r, "reports", Downgrade0015, k, 1)
                 /\ r[0] = g[0].rows["reports"][i] /\ r[1] = g[1].rows["reports"][i]
    BY <1>2
  <2>2. r[1] = After(r[1 - 1], Downgrade0015[1], "reports", k)
    BY <2>1 DEF RowPath
  <2>3. /\ DOMAIN r[1] = DOMAIN r[0]
        /\ \A c \in DOMAIN r[0] : r[1][c] = Decrypt(r[0][c], k)
    BY <1>0, <1>1, <2>1, <2>2, Recoded
  <2>4. \A c \in DOMAIN r[0] : Stored(r[0][c], Newest, on)
    BY <1>1, <2>1 DEF ReportsOk, RowStored
  <2>5. \A c \in DOMAIN r[0] : Stored(Decrypt(r[0][c], k), 14, on)
    BY <2>4, DecryptStored DEF Newest
  <2> QED BY <2>1, <2>3, <2>5 DEF RowStored
<1> QED BY <1>2, <1>3 DEF ReportsOk

-----------------------------------------------------------------------------
(* The schema along a script *)

DatabaseFields == { "tables", "keys", "indexes", "rows" }

\* A database of version n: a schema an installation may have there, with rows.
SchemaOk(d, n) == DOMAIN d = DatabaseFields /\ Sound(d) /\ \E x \in Schemas[n] : Like(d, x)

LEMMA ShapeLike ==
  ASSUME NEW d, NEW x, Like(d, x)
  PROVE  Shape(d) = Shape(x)
BY DEF Like, Shape

LEMMA SchemaFacts ==
  ASSUME NEW n \in 0..Newest, NEW d, SchemaOk(d, n)
  PROVE  /\ DOMAIN d.rows = IF n < 10 THEN {} ELSE DOMAIN Kept
         /\ \A t \in DOMAIN d.rows : d.tables[t] \cap Kept[t] = ColumnsAt(n, t)
         /\ \A t \in DOMAIN d.rows : \A i \in DOMAIN d.rows[t] : DOMAIN d.rows[t][i] = ColumnsAt(n, t)
         /\ Shape(d) = BuiltShape[n]
         /\ n = Newest => MatchesModels(Shape(d))
<1>1. PICK x \in Schemas[n] : Like(d, x)
  BY DEF SchemaOk
<1>2. /\ DOMAIN x.rows = IF n < 10 THEN {} ELSE DOMAIN Kept
      /\ \A t \in DOMAIN x.rows : x.tables[t] \cap Kept[t] = ColumnsAt(n, t)
      /\ Shape(x) = BuiltShape[n]
      /\ n = Newest => MatchesModels(Shape(x))
  BY SchemasAssumption
<1>3. Shape(d) = Shape(x)
  BY <1>1, ShapeLike
<1>4. DOMAIN d.rows = DOMAIN x.rows /\ d.tables = x.tables
  BY <1>1 DEF Like
<1>5. \A t \in DOMAIN d.rows : \A i \in DOMAIN d.rows[t] : DOMAIN d.rows[t][i] = Kept[t] \cap d.tables[t]
  BY DEF SchemaOk, Sound
<1> QED BY <1>2, <1>3, <1>4, <1>5

\* A script leads from d to e through the databases of g.
Passes(g, d, script, k, e) == Steps(g, script, k, Len(script)) /\ g[0] = d /\ g[Len(script)] = e

\* A script that goes through leads from a schema of one version to one of the next.
LEMMA SchemaNext ==
  ASSUME NEW n \in 0..Newest, NEW d, SchemaOk(d, n), NEW script, Len(script) \in Nat, NEW k,
         Run(d, script, k).ok, NEW m,
         \A x \in Schemas[n] : Run(x, script, Null).ok => Run(x, script, Null).db \in Schemas[m]
  PROVE  /\ SchemaOk(Run(d, script, k).db, m)
         /\ \E g : Passes(g, d, script, k, Run(d, script, k).db)
<1>1. PICK x \in Schemas[n] : Like(d, x)
  BY DEF SchemaOk
<1>2. PICK e : e = Run(d, script, k).db
  OBVIOUS
<1>3. Empty(x.rows)
  BY SchemasAssumption DEF Empty
<1>4. Run(x, script, Null).ok /\ Like(Run(d, script, k).db, Run(x, script, Null).db)
  BY <1>1, <1>3, RunLike
<1>5. \E y \in Schemas[m] : Like(e, y)
  BY <1>2, <1>4
<1>6. Sound(e)
  <2>1. PICK f : Trace(f, d, script, k, Len(script)) /\ Run(d, script, k) = f[Len(script)]
    BY RunTrace
  <2>2. Len(script) \in 0..Len(script)
    OBVIOUS
  <2>3. f[Len(script)].ok
    BY <2>1
  <2>4. Sound(f[Len(script)].db)
    BY <2>1, <2>2, <2>3, RunSound DEF SchemaOk
  <2> QED BY <1>2, <2>1, <2>4
<1>7. PICK g : /\ Steps(g, script, k, Len(script)) /\ g[0] = d
               /\ g[Len(script)] = Run(d, script, k).db
  BY RunSteps
<1>8. DOMAIN e = DatabaseFields
  <2>1. CASE Len(script) = 0
    BY <1>2, <1>7, <2>1 DEF SchemaOk
  <2>2. CASE Len(script) # 0
    <3>1. Len(script) \in 1..Len(script)
      BY <2>2
    <3>2. g[Len(script)] = Exec(g[Len(script) - 1], script[Len(script)], k)
      BY <1>7, <3>1 DEF Steps
    <3> QED BY <1>2, <1>7, <3>2 DEF Exec, DatabaseFields
  <2> QED BY <2>1, <2>2
<1> QED BY <1>2, <1>5, <1>6, <1>7, <1>8 DEF SchemaOk, Passes

\* A key on a column without kept values is in the way of no row.
LEMMA FitsClear ==
  ASSUME NEW d, Sound(d), NEW s, Fits(s)
  PROVE  NoClash(d, s)
<1>1. CASE NewKey(s) /\ s.on \in DOMAIN d.rows
  <2>1. PICK c \in s.key.cols : c \notin Kept[s.on]
    BY <1>1 DEF Fits
  <2>2. \A i \in DOMAIN d.rows[s.on] : c \notin DOMAIN d.rows[s.on][i]
    BY <1>1, <2>1 DEF Sound
  <2> QED BY <2>1, <2>2 DEF NoClash
<1>2. CASE ~ (NewKey(s) /\ s.on \in DOMAIN d.rows)
  BY <1>2 DEF NoClash, NewKey
<1> QED BY <1>1, <1>2

LEMMA FitGoes ==
  ASSUME NEW d, NEW x, Like(d, x), Empty(x.rows), Sound(d), NEW script, FitAll(script), NEW k,
         Run(x, script, Null).ok
  PROVE  Run(d, script, k).ok
<1>0. Len(script) \in Nat
  BY DEF FitAll
<1>1. PICK f : Trace(f, d, script, k, Len(script)) /\ Run(d, script, k) = f[Len(script)]
  BY <1>0, RunTrace
<1>2. ASSUME NEW i \in 1..Len(script), f[i - 1].ok PROVE NoClash(f[i - 1].db, script[i])
  <2>1. i - 1 \in 0..Len(script)
    BY <1>0
  <2>2. Sound(f[i - 1].db)
    BY <1>0, <1>1, <1>2, <2>1, RunSound
  <2>3. Fits(script[i])
    BY DEF FitAll
  <2> QED BY <2>2, <2>3, FitsClear
<1>3. f[Len(script)].ok
  BY <1>0, <1>1, <1>2, RunBack
<1> QED BY <1>1, <1>3

\* 0012: a platform numbers its own cases; a case of the model has its platform
\* to itself.
LEMMA NumberGoes ==
  ASSUME NEW d, NEW x, Like(d, x), Empty(x.rows), "incident_cases" \in DOMAIN d.rows,
         \A c \in DOMAIN d.rows["incident_cases"] : CaseOf(d, c)["platform_id"] = c,
         NEW k, Run(x, Upgrade0012, Null).ok
  PROVE  Run(d, Upgrade0012, k).ok
<1>0. Len(Upgrade0012) = 2
  BY DEF Upgrade0012
<1>a. PICK f : Trace(f, d, Upgrade0012, k, Len(Upgrade0012)) /\ Run(d, Upgrade0012, k) = f[Len(Upgrade0012)]
  <2>1. Len(Upgrade0012) \in Nat
    BY <1>0
  <2> QED BY <2>1, RunTrace
<1>1. Trace(f, d, Upgrade0012, k, 2) /\ Run(d, Upgrade0012, k) = f[2]
  BY <1>0, <1>a
<1>2. ASSUME NEW i \in 1..2, f[i - 1].ok PROVE NoClash(f[i - 1].db, Upgrade0012[i])
  <2>1. CASE i = 1
    BY <2>1 DEF Upgrade0012, DropKey, NoClash
  <2>2. CASE i = 2
    <3>1. f[0].db = d /\ f[1].ok
      BY <1>1, <1>2, <2>2, TraceStart
    <3>2. f[1].db = Exec(f[1 - 1].db, Upgrade0012[1], k)
      BY <1>1, <3>1, TraceStep
    <3>3. f[1].db.rows = d.rows
      <4>1. Upgrade0012[1].op = "unkey"
        BY DEF Upgrade0012, DropKey
      <4>2. RowsAfter(d.rows, Upgrade0012[1], k) = d.rows
        BY <4>1, RowsAlone DEF Rewriting
      <4> QED BY <3>1, <3>2, <4>2, ExecFields
    <3>4. /\ Upgrade0012[2].on = "incident_cases"
          /\ Upgrade0012[2].key.cols = { "platform_id", "case_number" }
      BY DEF Upgrade0012, AddKey, PlatformNumber, UniqueKey
    <3> QED BY <2>2, <3>3, <3>4 DEF NoClash, CaseOf
  <2> QED BY <2>1, <2>2
<1>3. f[2].ok
  <2>1. Len(Upgrade0012) \in Nat
    BY <1>0
  <2>2. \A i \in 1..Len(Upgrade0012) : f[i - 1].ok => NoClash(f[i - 1].db, Upgrade0012[i])
    BY <1>0, <1>2
  <2>3. f[Len(Upgrade0012)].ok
    BY <1>a, <2>1, <2>2, RunBack
  <2> QED BY <1>0, <2>3
<1> QED BY <1>1, <1>3

-----------------------------------------------------------------------------
(* Each script *)

\* What is known of a database of version n; on: the key is configured.
DbInv(d, n, on) ==
  /\ SchemaOk(d, n)
  /\ n >= 10 => CasesOk(d, n) /\ ReportsOk(d, n, on)

ReportsKept(script) ==
  Len(script) \in Nat /\ \A i \in 1..Len(script) : Keeps(script[i], "reports") /\ Mild(script[i])

CasesAlone(script) ==
  Len(script) \in Nat /\ \A i \in 1..Len(script) : \A t \in CaseTables : Aside(script[i], t)

LEMMA QuietFacts ==
  ASSUME NEW script, QuietAll(script)
  PROVE  ReportsKept(script) /\ CasesAlone(script)
<1>1. /\ "reports" \in DOMAIN Kept /\ CaseTables \subseteq DOMAIN Kept
  BY DEF Kept, CaseTables
<1>2. \A i \in 1..Len(script) : Aside(script[i], "reports")
  BY <1>1 DEF QuietAll
<1>3. \A s : Aside(s, "reports") => Keeps(s, "reports") /\ Mild(s)
  BY DEF Aside, Keeps, Mild
<1>4. ReportsKept(script)
  BY <1>2, <1>3 DEF ReportsKept, QuietAll
<1>5. CasesAlone(script)
  BY <1>1 DEF CasesAlone, QuietAll
<1> QED BY <1>4, <1>5

LEMMA Reports14 == ReportsKept(Upgrade0014) /\ ReportsKept(Downgrade0014)
<1>1. \A s : s.on # "reports" => Keeps(s, "reports") /\ Mild(s)
  BY DEF Keeps, Mild, Aside
<1>2. ASSUME NEW i \in 1..33 PROVE Keeps(Upgrade0014[i], "reports") /\ Mild(Upgrade0014[i])
  <2>1. CASE i \in { 1, 3, 22 }
    BY <1>1, <2>1, UpStatements DEF AddTrack, AddColumns, EmicTrack, CopyWhere, DropDispatched, DropColumns
  <2>2. CASE i = 2
    <3>1. Upgrade0014[2].on = "incident_cases"
      BY Upgrade14 DEF Track0014, CreateIndexes
    <3> QED BY <1>1, <2>2, <3>1
  <2>3. CASE i \in 4..21
    <3>1. PICK j \in 1..9 : i = 2 * j + 2 \/ i = 2 * j + 3
      BY <2>3
    <3>2. Upgrade0014[i].on # "reports"
      BY <3>1, UpStatements DEF RenameCase, RenameEvent, Remap
    <3> QED BY <1>1, <3>2
  <2>4. CASE i \in 23..33
    <3>1. PICK j \in 2..12 : i = 21 + j
      BY <2>4
    <3>2. Upgrade0014[i] = Accounts0014[j] /\ Mild(Accounts0014[j])
      BY <3>1, Upgrade14, Accounts14
    <3>3. Keeps(Accounts0014[j], "reports")
      <4>1. CASE j = 2
        BY <4>1 DEF Accounts0014, Keeps, AddColumns, Rewriting
      <4>2. CASE j \in 3..12
        BY <4>2, Accounts14 DEF Kept, Keeps
      <4> QED BY <3>1, <4>1, <4>2
    <3> QED BY <3>2, <3>3
  <2> QED BY <2>1, <2>2, <2>3, <2>4
<1>3. ASSUME NEW i \in 1..25 PROVE Keeps(Downgrade0014[i], "reports") /\ Mild(Downgrade0014[i])
  <2>1. CASE i \in 1..13
    <3>1. Downgrade0014[i] = Dispatch0014[i]
      BY <2>1, Downgrade14
    <3>2. Keeps(Dispatch0014[i], "reports") /\ Mild(Dispatch0014[i])
      BY <2>1 DEF Dispatch0014, Keeps, Mild, Aside, Rewriting, CreateTable, CreateIndexes, DropTable,
                  DropKey, DropColumns, AddColumns, CopyWhere
    <3> QED BY <3>1, <3>2
  <2>2. CASE i \in 14..23
    <3>1. PICK j \in 1..5 : i = 2 * j + 12 \/ i = 2 * j + 13
      BY <2>2
    <3>2. Downgrade0014[i].on # "reports"
      BY <3>1, DownStatements DEF RenameCase, RenameEvent, Remap
    <3> QED BY <1>1, <3>2
  <2>3. CASE i = 24
    <3>1. Downgrade0014[23 + 1].on # "reports"
      BY Downgrade14 DEF Untrack0014, DropIndexes
    <3> QED BY <1>1, <2>3, <3>1
  <2>4. CASE i = 25
    BY <1>1, <2>4, DownStatements DEF DropTrack, DropColumns
  <2> QED BY <2>1, <2>2, <2>3, <2>4
<1> QED BY <1>2, <1>3, Upgrade14, Downgrade14 DEF ReportsKept

LEMMA Cases15 == CasesAlone(Upgrade0015) /\ CasesAlone(Downgrade0015)
BY DEF CasesAlone, CaseTables, Upgrade0015, Downgrade0015, Recode, Aside

LEMMA Chain ==
  /\ Upgrade[12] = Upgrade0012 /\ Upgrade[14] = Upgrade0014 /\ Upgrade[15] = Upgrade0015
  /\ Downgrade[14] = Downgrade0014 /\ Downgrade[15] = Downgrade0015
BY DEF Upgrade, Downgrade

LEMMA Lengths == \A n \in 1..15 : Len(Upgrade[n]) \in Nat /\ Len(Downgrade[n]) \in Nat
<1>1. \A n \in 1..15 : n # 12 => Len(Upgrade[n]) \in Nat
  BY UpgradesFit DEF FitAll
<1>2. Len(Upgrade[12]) \in Nat
  BY QuietScripts DEF QuietAll
<1>3. \A n \in 1..15 : Len(Downgrade[n]) \in Nat
  BY DowngradesFinite DEF Finite
<1> QED BY <1>1, <1>2, <1>3

\* The tables with rows, and the columns of their rows.
LEMMA Columns ==
  ASSUME NEW n \in 10..Newest, NEW d, SchemaOk(d, n), CasesOk(d, n)
  PROVE  /\ CaseTables \subseteq DOMAIN d.rows /\ "reports" \in DOMAIN d.rows
         /\ \A c \in DOMAIN d.rows["incident_cases"] :
              /\ DOMAIN CaseOf(d, c) = IF n < 14 THEN CasesBefore14 ELSE CasesFrom14
              /\ DOMAIN EventOf(d, c) = EventColumnsKept
         /\ \A i \in DOMAIN d.rows["reports"] : DOMAIN d.rows["reports"][i] \subseteq PersonalColumns
<1>0. n \in 0..Newest /\ ~ n < 10
  BY DEF Newest
<1>1. /\ DOMAIN d.rows = DOMAIN Kept
      /\ \A t \in DOMAIN d.rows : \A i \in DOMAIN d.rows[t] : DOMAIN d.rows[t][i] = ColumnsAt(n, t)
  BY <1>0, SchemaFacts
<1>2. { "incident_cases", "case_events", "reports" } = DOMAIN Kept
  BY DEF Kept
<1>3. /\ ColumnsAt(n, "incident_cases") = IF n < 14 THEN CasesBefore14 ELSE CasesFrom14
      /\ ColumnsAt(n, "case_events") = EventColumnsKept
      /\ ColumnsAt(n, "reports") \subseteq PersonalColumns
  BY DEF ColumnsAt, CasesBefore14, CasesFrom14, EventColumnsKept, PersonalColumns, Kept
<1>4. DOMAIN d.rows["case_events"] = DOMAIN d.rows["incident_cases"]
  BY DEF CasesOk
<1> QED BY <1>1, <1>2, <1>3, <1>4 DEF CaseTables, CaseOf, EventOf

\* No upgrade is refused.
LEMMA UpgradeRuns ==
  ASSUME NEW n \in 0..Newest - 1, NEW d, NEW on, DbInv(d, n, on), NEW k
  PROVE  Run(d, Upgrade[n + 1], k).ok
<1>1. PICK x \in Schemas[n] : Like(d, x)
  BY DEF DbInv, SchemaOk
<1>2. n \in 0..Newest /\ n < Newest /\ n + 1 \in 1..15
  BY DEF Newest
<1>3. Empty(x.rows) /\ Run(x, Upgrade[n + 1], Null).ok
  BY <1>2, SchemasAssumption DEF Empty
<1>4. Sound(d)
  BY DEF DbInv, SchemaOk
<1>5. CASE n # 11
  <2>1. FitAll(Upgrade[n + 1])
    BY <1>2, <1>5, UpgradesFit
  <2> QED BY <1>1, <1>3, <1>4, <2>1, FitGoes
<1>6. CASE n = 11
  <2>1. SchemaOk(d, n) /\ CasesOk(d, n) /\ n \in 10..Newest
    BY <1>6 DEF DbInv, Newest
  <2>2. "incident_cases" \in DOMAIN d.rows
    BY <2>1, Columns DEF CaseTables
  <2>3. \A c \in DOMAIN d.rows["incident_cases"] : CaseOf(d, c)["platform_id"] = c
    BY <2>1 DEF CasesOk, PairOk
  <2>4. Run(x, Upgrade0012, Null).ok
    BY <1>3, <1>6, Chain
  <2>5. Run(d, Upgrade0012, k).ok
    BY <1>1, <1>3, <2>2, <2>3, <2>4, NumberGoes
  <2> QED BY <1>6, <2>5, Chain
<1> QED BY <1>5, <1>6


LEMMA UpgradeKeeps ==
  ASSUME NEW n \in 0..Newest - 1, NEW d, NEW on \in BOOLEAN, DbInv(d, n, on), NEW k, RightKey(k, on),
         Run(d, Upgrade[n + 1], k).ok
  PROVE  /\ DbInv(Run(d, Upgrade[n + 1], k).db, n + 1, on)
         /\ n >= 10 => SameCases(d, Run(d, Upgrade[n + 1], k).db)
<1>0. n \in 0..Newest /\ n + 1 \in 0..Newest /\ n + 1 \in 1..15 /\ Newest = 15
  BY DEF Newest
<1>1. PICK script : script = Upgrade[n + 1]
  OBVIOUS
<1>2. PICK e : e = Run(d, script, k).db
  OBVIOUS
<1>3. Len(script) \in Nat /\ Run(d, script, k).ok /\ SchemaOk(d, n)
  BY <1>0, <1>1, Lengths DEF DbInv
<1>4. \A x \in Schemas[n] : Run(x, script, Null).ok => Run(x, script, Null).db \in Schemas[n + 1]
  BY <1>0, <1>1, SchemasAssumption
<1>5. SchemaOk(e, n + 1) /\ \E g : Passes(g, d, script, k, e)
  <2>1. PICK m : m = n + 1
    OBVIOUS
  <2>2. \A x \in Schemas[n] : Run(x, script, Null).ok => Run(x, script, Null).db \in Schemas[m]
    BY <1>4, <2>1
  <2>3. SchemaOk(Run(d, script, k).db, m) /\ \E g : Passes(g, d, script, k, Run(d, script, k).db)
    BY <1>0, <1>3, <2>2, SchemaNext
  <2> QED BY <1>2, <2>1, <2>3
<1>6. PICK g : Steps(g, script, k, Len(script)) /\ g[0] = d /\ g[Len(script)] = e
  BY <1>5 DEF Passes
<1>7. CASE n < 10
  <2>1. Empty(g[0].rows)
    BY <1>0, <1>3, <1>6, <1>7, SchemaFacts DEF Empty
  <2>2. PICK T : T = { i \in 0..Len(script) : Empty(g[i].rows) }
    OBVIOUS
  <2>3. 0 \in T
    BY <1>3, <2>1, <2>2
  <2>4. ASSUME NEW i \in 1..Len(script), i - 1 \in T PROVE i \in T
    <3>1. Empty(g[i - 1].rows) /\ g[i] = Exec(g[i - 1], script[i], k) /\ i \in 0..Len(script)
      BY <1>3, <1>6, <2>2, <2>4 DEF Steps
    <3>2. Empty(g[i].rows)
      BY <3>1, EmptyStays, ExecFields
    <3> QED BY <2>2, <3>1, <3>2
  <2>5. Len(script) \in T
    <3>1. \A i \in 0..Len(script) : i \in T
      BY <1>3, <2>3, <2>4, UpTo
    <3> QED BY <1>3, <3>1
  <2>6. Empty(e.rows)
    BY <1>6, <2>2, <2>5
  <2>7. ASSUME n + 1 >= 10 PROVE CasesOk(e, n + 1) /\ ReportsOk(e, n + 1, on)
    <3>1. DOMAIN e.rows = DOMAIN Kept
      BY <1>0, <1>5, <2>7, SchemaFacts
    <3>2. /\ DOMAIN e.rows["incident_cases"] = {} /\ DOMAIN e.rows["case_events"] = {}
          /\ DOMAIN e.rows["reports"] = {}
      BY <2>6, <3>1 DEF Empty, Kept
    <3> QED BY <3>2 DEF CasesOk, ReportsOk
  <2> QED BY <1>0, <1>1, <1>2, <1>5, <1>7, <2>7 DEF DbInv
<1>8. CASE n >= 10
  <2>0. CasesOk(d, n) /\ ReportsOk(d, n, on) /\ n \in 10..Newest
    BY <1>0, <1>8 DEF DbInv
  <2>1. /\ CaseTables \subseteq DOMAIN g[0].rows /\ "reports" \in DOMAIN g[0].rows
        /\ \A c \in DOMAIN g[0].rows["incident_cases"] :
             /\ DOMAIN CaseOf(g[0], c) = IF n < 14 THEN CasesBefore14 ELSE CasesFrom14
             /\ DOMAIN EventOf(g[0], c) = EventColumnsKept
        /\ \A i \in DOMAIN g[0].rows["reports"] : DOMAIN g[0].rows["reports"][i] \subseteq PersonalColumns
    BY <1>3, <1>6, <2>0, Columns
  <2> SUFFICES CasesOk(e, n + 1) /\ SameCases(d, e) /\ ReportsOk(e, n + 1, on)
    BY <1>1, <1>2, <1>5, <1>8 DEF DbInv
  <2>2. CASE n + 1 \in { 11, 12, 13 }
    <3>1. ReportsKept(script) /\ CasesAlone(script)
      BY <1>1, <2>2, QuietScripts, QuietFacts
    <3>2. CasesOk(e, n + 1) /\ SameCases(d, e)
      <4>1. (n < 14 <=> n + 1 < 14) /\ n \in Nat /\ n + 1 \in Nat
        BY <2>2
      <4> QED BY <1>6, <2>0, <2>1, <3>1, <4>1, CasesAside DEF CasesAlone
    <3>3. ReportsOk(e, n + 1, on)
      <4>1. n = Newest <=> n + 1 = Newest
        BY <1>0, <2>2
      <4> QED BY <1>6, <2>0, <2>1, <3>1, <4>1, ReportsMild DEF ReportsKept
    <3> QED BY <3>2, <3>3
  <2>3. CASE n + 1 = 14
    <3>1. script = Upgrade0014 /\ Len(script) = 33
      BY <1>1, <2>3, Chain, Upgrade14
    <3>2. CasesOk(e, n + 1) /\ SameCases(d, e)
      <4>1. Steps(g, Upgrade0014, k, 33) /\ g[0] = d /\ g[33] = e
        BY <1>6, <3>1
      <4>2. CasesOk(g[0], 13) /\ 13 = n /\ 14 = n + 1
        BY <2>0, <2>3, <4>1
      <4>3. \A c \in DOMAIN g[0].rows["incident_cases"] :
              DOMAIN CaseOf(g[0], c) = CasesBefore14 /\ DOMAIN EventOf(g[0], c) = EventColumnsKept
        BY <2>1, <4>2
      <4>4. CasesOk(g[33], 14) /\ SameCases(g[0], g[33])
        BY <2>1, <4>1, <4>2, <4>3, CasesUp
      <4> QED BY <4>1, <4>2, <4>4
    <3>3. ReportsOk(e, n + 1, on)
      <4>1. (n = Newest <=> n + 1 = Newest) /\ ReportsKept(script)
        BY <1>0, <2>3, <3>1, Reports14
      <4> QED BY <1>6, <2>0, <2>1, <4>1, ReportsMild DEF ReportsKept
    <3> QED BY <3>2, <3>3
  <2>4. CASE n + 1 = 15
    <3>1. script = Upgrade0015 /\ Len(script) = 1
      BY <1>1, <2>4, Chain DEF Upgrade0015
    <3>2. CasesOk(e, n + 1) /\ SameCases(d, e)
      <4>1. (n < 14 <=> n + 1 < 14) /\ n \in Nat /\ n + 1 \in Nat /\ CasesAlone(script)
        BY <2>4, <3>1, Cases15
      <4> QED BY <1>6, <2>0, <2>1, <4>1, CasesAside DEF CasesAlone
    <3>3. ReportsOk(e, n + 1, on)
      <4>1. Steps(g, Upgrade0015, k, 1) /\ g[0] = d /\ g[1] = e
        BY <1>6, <3>1
      <4>2. ReportsOk(g[0], 14, on) /\ 14 = n /\ Newest = n + 1
        BY <1>0, <2>0, <2>4, <4>1
      <4>3. ReportsOk(g[1], Newest, on)
        BY <2>1, <4>1, <4>2, ReportsUp
      <4> QED BY <4>1, <4>2, <4>3
    <3> QED BY <3>2, <3>3
  <2> QED BY <1>0, <1>8, <2>2, <2>3, <2>4
<1> QED BY <1>0, <1>7, <1>8


LEMMA DowngradeKeeps ==
  ASSUME NEW n \in 1..Newest, NEW d, NEW on \in BOOLEAN, DbInv(d, n, on), NEW k, RightKey(k, on),
         Run(d, Downgrade[n], k).ok
  PROVE  /\ DbInv(Run(d, Downgrade[n], k).db, n - 1, on)
         /\ n - 1 >= 10 => SameCases(d, Run(d, Downgrade[n], k).db)
<1>0. n \in 0..Newest /\ n - 1 \in 0..Newest /\ n \in 1..15 /\ Newest = 15
  BY DEF Newest
<1>1. PICK script : script = Downgrade[n]
  OBVIOUS
<1>2. PICK e : e = Run(d, script, k).db
  OBVIOUS
<1>3. Len(script) \in Nat /\ Run(d, script, k).ok /\ SchemaOk(d, n)
  BY <1>0, <1>1, Lengths DEF DbInv
<1>4. \A x \in Schemas[n] : Run(x, script, Null).ok => Run(x, script, Null).db \in Schemas[n - 1]
  <2>1. n \in 0..Newest /\ n > 0
    BY <1>0
  <2>2. \A x \in Schemas[n] :
          Run(x, Downgrade[n], Null).ok => Run(x, Downgrade[n], Null).db \in Schemas[n - 1]
    BY <2>1, SchemasAssumption, Zenon
  <2> QED BY <1>1, <2>2
<1>5. SchemaOk(e, n - 1) /\ \E g : Passes(g, d, script, k, e)
  <2>1. PICK m : m = n - 1
    OBVIOUS
  <2>2. \A x \in Schemas[n] : Run(x, script, Null).ok => Run(x, script, Null).db \in Schemas[m]
    BY <1>4, <2>1
  <2>3. SchemaOk(Run(d, script, k).db, m) /\ \E g : Passes(g, d, script, k, Run(d, script, k).db)
    BY <1>0, <1>3, <2>2, SchemaNext
  <2> QED BY <1>2, <2>1, <2>3
<1>6. PICK g : Steps(g, script, k, Len(script)) /\ g[0] = d /\ g[Len(script)] = e
  BY <1>5 DEF Passes
<1>7. CASE n - 1 < 10
  BY <1>0, <1>1, <1>2, <1>5, <1>7 DEF DbInv
<1>8. CASE n - 1 >= 10
  <2>0. CasesOk(d, n) /\ ReportsOk(d, n, on) /\ n \in 10..Newest
    BY <1>0, <1>8 DEF DbInv
  <2>1. /\ CaseTables \subseteq DOMAIN g[0].rows /\ "reports" \in DOMAIN g[0].rows
        /\ \A c \in DOMAIN g[0].rows["incident_cases"] :
             /\ DOMAIN CaseOf(g[0], c) = IF n < 14 THEN CasesBefore14 ELSE CasesFrom14
             /\ DOMAIN EventOf(g[0], c) = EventColumnsKept
        /\ \A i \in DOMAIN g[0].rows["reports"] : DOMAIN g[0].rows["reports"][i] \subseteq PersonalColumns
    BY <1>3, <1>6, <2>0, Columns
  <2> SUFFICES CasesOk(e, n - 1) /\ SameCases(d, e) /\ ReportsOk(e, n - 1, on)
    BY <1>1, <1>2, <1>5, <1>8 DEF DbInv
  <2>2. CASE n \in { 11, 12, 13 }
    <3>1. ReportsKept(script) /\ CasesAlone(script)
      BY <1>1, <2>2, QuietScripts, QuietFacts
    <3>2. CasesOk(e, n - 1) /\ SameCases(d, e)
      <4>1. (n < 14 <=> n - 1 < 14) /\ n \in Nat /\ n - 1 \in Nat
        BY <2>2
      <4> QED BY <1>6, <2>0, <2>1, <3>1, <4>1, CasesAside DEF CasesAlone
    <3>3. ReportsOk(e, n - 1, on)
      <4>1. n = Newest <=> n - 1 = Newest
        BY <1>0, <2>2
      <4> QED BY <1>6, <2>0, <2>1, <3>1, <4>1, ReportsMild DEF ReportsKept
    <3> QED BY <3>2, <3>3
  <2>3. CASE n = 14
    <3>1. script = Downgrade0014 /\ Len(script) = 25
      BY <1>1, <2>3, Chain, Downgrade14
    <3>2. CasesOk(e, n - 1) /\ SameCases(d, e)
      <4>1. Steps(g, Downgrade0014, k, 25) /\ g[0] = d /\ g[25] = e
        BY <1>6, <3>1
      <4>2. CasesOk(g[0], 14) /\ 14 = n /\ 13 = n - 1
        BY <2>0, <2>3, <4>1
      <4>3. \A c \in DOMAIN g[0].rows["incident_cases"] :
              DOMAIN CaseOf(g[0], c) = CasesFrom14 /\ DOMAIN EventOf(g[0], c) = EventColumnsKept
        BY <2>1, <4>2
      <4>4. CasesOk(g[25], 13) /\ SameCases(g[0], g[25])
        BY <2>1, <4>1, <4>2, <4>3, CasesDown
      <4> QED BY <4>1, <4>2, <4>4
    <3>3. ReportsOk(e, n - 1, on)
      <4>1. (n = Newest <=> n - 1 = Newest) /\ ReportsKept(script)
        BY <1>0, <2>3, <3>1, Reports14
      <4> QED BY <1>6, <2>0, <2>1, <4>1, ReportsMild DEF ReportsKept
    <3> QED BY <3>2, <3>3
  <2>4. CASE n = 15
    <3>1. script = Downgrade0015 /\ Len(script) = 1
      BY <1>1, <2>4, Chain DEF Downgrade0015
    <3>2. CasesOk(e, n - 1) /\ SameCases(d, e)
      <4>1. (n < 14 <=> n - 1 < 14) /\ n \in Nat /\ n - 1 \in Nat /\ CasesAlone(script)
        BY <2>4, <3>1, Cases15
      <4> QED BY <1>6, <2>0, <2>1, <4>1, CasesAside DEF CasesAlone
    <3>3. ReportsOk(e, n - 1, on)
      <4>1. Steps(g, Downgrade0015, k, 1) /\ g[0] = d /\ g[1] = e
        BY <1>6, <3>1
      <4>2. ReportsOk(g[0], Newest, on) /\ Newest = n /\ 14 = n - 1
        BY <1>0, <2>0, <2>4, <4>1
      <4>3. ReportsOk(g[1], 14, on)
        BY <2>1, <4>1, <4>2, ReportsDown
      <4> QED BY <4>1, <4>2, <4>3
    <3> QED BY <3>2, <3>3
  <2> QED BY <1>0, <1>8, <2>2, <2>3, <2>4
<1> QED BY <1>0, <1>7, <1>8

-----------------------------------------------------------------------------
(* The command and the application *)

Control ==
  /\ version \in 0 .. Newest
  /\ DOMAIN tx = { "on", "up", "target", "at", "db", "key" }
  /\ tx.on => /\ tx.at \in 0 .. Newest /\ tx.target \in 0 .. Newest /\ key = Null
              /\ tx.key \in Keys
              /\ IF tx.up THEN tx.at <= tx.target ELSE tx.at >= tx.target
  /\ key # Null => version = Newest /\ key \in Keys
  /\ keyed \in BOOLEAN
  /\ failed \in { Null, "upgrade", "downgrade" }

\* The inductive invariant: the database, and the copy that a command works on,
\* have a schema and rows of their version; keys are the configured one or none
\* of it is; no upgrade has failed.
Inv ==
  /\ Control
  /\ DbInv(db, version, keyed)
  /\ tx.on => DbInv(tx.db, tx.at, keyed) /\ RightKey(tx.key, keyed)
  /\ key # Null => RightKey(key, keyed)
  /\ failed # "upgrade"

LEMMA BuiltOk ==
  ASSUME NEW n \in 0..Newest, NEW on
  PROVE  DbInv(Built[n], n, on)
<1>1. PICK x : x = Built[n]
  OBVIOUS
<1>2. x \in Schemas[n]
  BY <1>1 DEF Schemas
<1>3. /\ DOMAIN x = DatabaseFields
      /\ DOMAIN x.rows = IF n < 10 THEN {} ELSE DOMAIN Kept
      /\ \A t \in DOMAIN x.rows : DOMAIN x.rows[t] = {} /\ t \in DOMAIN x.tables
  BY <1>2, SchemasAssumption DEF DatabaseFields
<1>4. Sound(x)
  BY <1>3 DEF Sound
<1>5. Like(x, x)
  BY DEF Like
<1>6. SchemaOk(x, n)
  BY <1>2, <1>3, <1>4, <1>5 DEF SchemaOk
<1>7. ASSUME n >= 10 PROVE CasesOk(x, n) /\ ReportsOk(x, n, on)
  <2>1. /\ DOMAIN x.rows["incident_cases"] = {} /\ DOMAIN x.rows["case_events"] = {}
        /\ DOMAIN x.rows["reports"] = {}
    BY <1>3, <1>7 DEF Kept
  <2> QED BY <2>1 DEF CasesOk, ReportsOk
<1> QED BY <1>1, <1>6, <1>7 DEF DbInv

LEMMA InitInv == Init => Inv
<1> SUFFICES ASSUME Init PROVE Inv
  OBVIOUS
<1>1. version \in 0..Newest /\ keyed \in BOOLEAN
  BY VersionsAssumption DEF Init
<1>2. DbInv(db, version, keyed)
  BY <1>1, BuiltOk DEF Init
<1>3. tx = NoTx /\ DOMAIN NoTx = { "on", "up", "target", "at", "db", "key" } /\ ~ NoTx.on
  BY DEF Init, NoTx
<1>4. Control
  BY <1>1, <1>3 DEF Control, Init
<1> QED BY <1>2, <1>3, <1>4 DEF Inv, Init, Null

LEMMA StartInv ==
  ASSUME Inv, NEW target \in 0..Newest, NEW k, Start(target, k)
  PROVE  Inv'
<1>1. tx' = [ on |-> TRUE, up |-> target > version, target |-> target, at |-> version,
              db |-> db, key |-> k ]
  BY DEF Start
<1>2. /\ DOMAIN tx' = { "on", "up", "target", "at", "db", "key" }
      /\ tx'.at = version /\ tx'.target = target /\ tx'.db = db /\ tx'.key = k
      /\ tx'.up <=> target > version
  BY <1>1
<1>3. RightKey(k, keyed) /\ k \in Keys
  BY KeysAssumption DEF Start, KeyOf, RightKey
<1>4. Control'
  <2>1. IF tx'.up THEN tx'.at <= tx'.target ELSE tx'.at >= tx'.target
    BY <1>2 DEF Inv, Control, Newest
  <2> QED BY <1>2, <1>3, <2>1 DEF Inv, Control, Start
<1> QED BY <1>2, <1>3, <1>4 DEF Inv, Start

\* The next script: what it makes of the copy, and how it ends.
LEMMA Script1 ==
  ASSUME Inv, tx.on, tx.at # tx.target
  PROVE  LET run == Run(tx.db, Script, tx.key)
             at  == IF tx.up THEN tx.at + 1 ELSE tx.at - 1
         IN  /\ at \in 0..Newest
             /\ IF tx.up THEN at <= tx.target ELSE at >= tx.target
             /\ tx.up => run.ok
             /\ run.ok => DbInv(run.db, at, keyed)
             /\ run.ok /\ tx.at >= 10 /\ at >= 10 => SameCases(tx.db, run.db)
<1>1. PICK d, n, k, t : d = tx.db /\ n = tx.at /\ k = tx.key /\ t = tx.target
  OBVIOUS
<1>2. /\ n \in 0..Newest /\ t \in 0..Newest /\ n # t /\ Newest = 15
      /\ DbInv(d, n, keyed) /\ RightKey(k, keyed) /\ keyed \in BOOLEAN
      /\ IF tx.up THEN n <= t ELSE n >= t
  BY <1>1 DEF Inv, Control, Newest
<1>3. CASE tx.up
  <2>1. n \in 0..Newest - 1 /\ n + 1 \in 0..Newest /\ n + 1 <= t
    BY <1>2, <1>3
  <2>2. Run(d, Upgrade[n + 1], k).ok
    BY <1>2, <2>1, UpgradeRuns
  <2>3. /\ DbInv(Run(d, Upgrade[n + 1], k).db, n + 1, keyed)
        /\ n >= 10 => SameCases(d, Run(d, Upgrade[n + 1], k).db)
    BY <1>2, <2>1, <2>2, UpgradeKeeps
  <2> QED BY <1>1, <1>3, <2>1, <2>2, <2>3 DEF Script
<1>4. CASE ~ tx.up
  <2>1. n \in 1..Newest /\ n - 1 \in 0..Newest /\ n - 1 >= t
    BY <1>2, <1>4
  <2>2. Run(d, Downgrade[n], k).ok =>
          /\ DbInv(Run(d, Downgrade[n], k).db, n - 1, keyed)
          /\ n - 1 >= 10 => SameCases(d, Run(d, Downgrade[n], k).db)
    BY <1>2, <2>1, DowngradeKeeps
  <2> QED BY <1>1, <1>4, <2>1, <2>2 DEF Script
<1> QED BY <1>3, <1>4

LEMMA AdvanceInv ==
  ASSUME Inv, Advance
  PROVE  Inv'
<1>1. PICK run, at : run = Run(tx.db, Script, tx.key) /\ at = IF tx.up THEN tx.at + 1 ELSE tx.at - 1
  OBVIOUS
<1>2. tx.on /\ tx.at # tx.target
  BY DEF Advance
<1>3. /\ at \in 0..Newest
      /\ IF tx.up THEN at <= tx.target ELSE at >= tx.target
      /\ tx.up => run.ok
      /\ run.ok => DbInv(run.db, at, keyed)
  BY <1>1, <1>2, Script1
<1>4. CASE run.ok
  <2>1. tx' = [tx EXCEPT !.db = run.db, !.at = at] /\ failed' = failed
    BY <1>1, <1>4 DEF Advance
  <2>2. /\ DOMAIN tx' = DOMAIN tx /\ tx'.on = tx.on /\ tx'.up = tx.up /\ tx'.target = tx.target
        /\ tx'.key = tx.key /\ tx'.db = run.db /\ tx'.at = at
    BY <2>1 DEF Inv, Control
  <2>3. Control'
    BY <1>2, <1>3, <2>1, <2>2 DEF Inv, Control, Advance
  <2> QED BY <1>2, <1>3, <1>4, <2>1, <2>2, <2>3 DEF Inv, Advance
<1>5. CASE ~ run.ok
  <2>1. tx' = NoTx /\ failed' = "downgrade"
    BY <1>1, <1>3, <1>5 DEF Advance
  <2>2. DOMAIN NoTx = { "on", "up", "target", "at", "db", "key" } /\ ~ NoTx.on
    BY DEF NoTx
  <2>3. Control'
    BY <2>1, <2>2 DEF Inv, Control, Advance
  <2> QED BY <2>1, <2>2, <2>3 DEF Inv, Advance
<1> QED BY <1>4, <1>5

LEMMA EndInv ==
  ASSUME Inv, Commit \/ Crash \/ Stop \/ \E k \in Keys : Boot(k)
  PROVE  Inv'
<1>1. DOMAIN NoTx = { "on", "up", "target", "at", "db", "key" } /\ ~ NoTx.on
  BY DEF NoTx
<1>2. CASE Commit
  <2>1. Control'
    BY <1>1, <1>2 DEF Inv, Control, Commit
  <2> QED BY <1>1, <1>2, <2>1 DEF Inv, Control, Commit
<1>3. CASE Crash
  <2>1. Control'
    BY <1>1, <1>3 DEF Inv, Control, Crash
  <2> QED BY <1>1, <1>3, <2>1 DEF Inv, Crash
<1>4. CASE Stop
  BY <1>4 DEF Inv, Control, Stop
<1>5. CASE \E k \in Keys : Boot(k)
  BY <1>5 DEF Inv, Control, Boot, KeyOf, RightKey
<1> QED BY <1>2, <1>3, <1>4, <1>5

-----------------------------------------------------------------------------
(* What the releases write *)

\* Rows with the columns of their table leave the schema as it is.
LEMMA SchemaWritten ==
  ASSUME NEW n, NEW d, SchemaOk(d, n), NEW e, DOMAIN e = DatabaseFields,
         e.tables = d.tables, e.keys = d.keys, e.indexes = d.indexes, DOMAIN e.rows = DOMAIN d.rows,
         \A t \in DOMAIN d.rows : \A i \in DOMAIN e.rows[t] : DOMAIN e.rows[t][i] = Kept[t] \cap d.tables[t]
  PROVE  SchemaOk(e, n)
<1>1. Sound(e)
  BY DEF SchemaOk, Sound
<1>2. PICK x \in Schemas[n] : Like(d, x)
  BY DEF SchemaOk
<1>3. Like(e, x)
  BY <1>2 DEF Like
<1> QED BY <1>1, <1>2, <1>3 DEF SchemaOk

LEMMA CaseWritten ==
  ASSUME Inv, version \in 10..Newest, NEW c, NEW row, WriteCase(c, row),
         PairOk(version, c, KeptOf("incident_cases", row),
                KeptOf("case_events", [ from_status |-> Null, to_status |-> row.status ]))
  PROVE  DbInv(db', version, keyed)
<1>1. PICK r, e : /\ r = KeptOf("incident_cases", row)
                  /\ e = KeptOf("case_events", [ from_status |-> Null, to_status |-> row.status ])
  OBVIOUS
<1>2. /\ db' = [db EXCEPT !.rows.incident_cases = With(@, c, r), !.rows.case_events = With(@, c, e)]
      /\ c \notin DOMAIN db.rows["incident_cases"] /\ PairOk(version, c, r, e)
  BY <1>1 DEF WriteCase
<1>3. SchemaOk(db, version) /\ CasesOk(db, version) /\ ReportsOk(db, version, keyed)
  BY DEF Inv, DbInv, Newest
<1>4. CaseTables \subseteq DOMAIN db.rows /\ "reports" \in DOMAIN db.rows
  BY <1>3, Columns
<1>5. DOMAIN db = DatabaseFields
  BY <1>3 DEF SchemaOk
<1>6. /\ DOMAIN db' = DatabaseFields /\ db'.tables = db.tables /\ db'.keys = db.keys
      /\ db'.indexes = db.indexes /\ DOMAIN db'.rows = DOMAIN db.rows
      /\ db'.rows["incident_cases"] = With(db.rows["incident_cases"], c, r)
      /\ db'.rows["case_events"] = With(db.rows["case_events"], c, e)
      /\ \A t \in DOMAIN db.rows \ CaseTables : db'.rows[t] = db.rows[t]
  BY <1>2, <1>4, <1>5 DEF CaseTables, DatabaseFields
<1>7. /\ DOMAIN db'.rows["incident_cases"] = DOMAIN db.rows["incident_cases"] \cup { c }
      /\ DOMAIN db'.rows["case_events"] = DOMAIN db.rows["case_events"] \cup { c }
      /\ CaseOf(db', c) = r /\ EventOf(db', c) = e
      /\ \A i \in DOMAIN db.rows["incident_cases"] : i # c => CaseOf(db', i) = CaseOf(db, i)
      /\ \A i \in DOMAIN db.rows["case_events"] : i # c => EventOf(db', i) = EventOf(db, i)
  <2>1. PICK f, h : f = db.rows["incident_cases"] /\ h = db.rows["case_events"]
    OBVIOUS
  <2>2. db'.rows["incident_cases"] = With(f, c, r) /\ db'.rows["case_events"] = With(h, c, e)
    BY <1>6, <2>1
  <2>3. /\ DOMAIN With(f, c, r) = DOMAIN f \cup { c } /\ With(f, c, r)[c] = r
        /\ \A i \in DOMAIN f : i # c => With(f, c, r)[i] = f[i]
    BY DEF With
  <2>4. /\ DOMAIN With(h, c, e) = DOMAIN h \cup { c } /\ With(h, c, e)[c] = e
        /\ \A i \in DOMAIN h : i # c => With(h, c, e)[i] = h[i]
    BY DEF With
  <2> QED BY <2>1, <2>2, <2>3, <2>4 DEF CaseOf, EventOf
<1>8. SchemaOk(db', version)
  <2>1. \A t \in DOMAIN db.rows : \A i \in DOMAIN db.rows[t] : DOMAIN db.rows[t][i] = Kept[t] \cap db.tables[t]
    BY <1>3 DEF SchemaOk, Sound
  <2>2. /\ DOMAIN r = Kept["incident_cases"] \cap db.tables["incident_cases"]
        /\ DOMAIN e = Kept["case_events"] \cap db.tables["case_events"]
    BY <1>1 DEF KeptOf
  <2>3. ASSUME NEW t \in DOMAIN db.rows, NEW i \in DOMAIN db'.rows[t]
        PROVE  DOMAIN db'.rows[t][i] = Kept[t] \cap db.tables[t]
    <3>1. CASE t = "incident_cases"
      <4>1. CASE i = c
        BY <1>7, <2>2, <3>1, <4>1 DEF CaseOf
      <4>2. CASE i # c
        BY <1>7, <2>1, <2>3, <3>1, <4>2 DEF CaseOf
      <4> QED BY <4>1, <4>2
    <3>2. CASE t = "case_events"
      <4>1. CASE i = c
        BY <1>7, <2>2, <3>2, <4>1 DEF EventOf
      <4>2. CASE i # c
        BY <1>7, <2>1, <2>3, <3>2, <4>2 DEF EventOf
      <4> QED BY <4>1, <4>2
    <3>3. CASE t \notin CaseTables
      BY <1>6, <2>1, <2>3, <3>3
    <3> QED BY <3>1, <3>2, <3>3 DEF CaseTables
  <2> QED BY <1>3, <1>6, <2>3, SchemaWritten
<1>9. CasesOk(db', version)
  BY <1>2, <1>3, <1>7 DEF CasesOk
<1>10. ReportsOk(db', version, keyed)
  <2>1. db'.rows["reports"] = db.rows["reports"]
    BY <1>4, <1>6 DEF CaseTables
  <2> QED BY <1>3, <2>1 DEF ReportsOk
<1> QED BY <1>8, <1>9, <1>10 DEF DbInv

LEMMA WriteInv ==
  ASSUME Inv, NEW first, NEW last, MayWrite(first, last), DbInv(db', version, keyed)
  PROVE  Inv'
BY DEF Inv, Control, MayWrite

\* The columns of a case, by version.
LEMMA RowKept ==
  ASSUME NEW n \in 10..Newest, SchemaOk(db, n), CasesOk(db, n), NEW row
  PROVE  /\ KeptOf("incident_cases", row) =
              [c \in (IF n < 14 THEN CasesBefore14 ELSE CasesFrom14) |-> row[c]]
         /\ KeptOf("case_events", row) = [c \in EventColumnsKept |-> row[c]]
         /\ DOMAIN KeptOf("reports", row) \subseteq { "reporter_contact", "reporter_email" }
         /\ \A c \in DOMAIN KeptOf("reports", row) : KeptOf("reports", row)[c] = row[c]
<1>1. n \in 0..Newest /\ ~ n < 10
  BY DEF Newest
<1>2. CaseTables \subseteq DOMAIN db.rows
  BY Columns
<1>3. /\ db.tables["incident_cases"] \cap Kept["incident_cases"] = ColumnsAt(n, "incident_cases")
      /\ db.tables["case_events"] \cap Kept["case_events"] = ColumnsAt(n, "case_events")
  BY <1>1, <1>2, SchemaFacts DEF CaseTables
<1>4. /\ Kept["incident_cases"] \cap db.tables["incident_cases"] = IF n < 14 THEN CasesBefore14 ELSE CasesFrom14
      /\ Kept["case_events"] \cap db.tables["case_events"] = EventColumnsKept
  BY <1>3 DEF ColumnsAt, CasesBefore14, CasesFrom14, EventColumnsKept, Kept
<1>5. Kept["reports"] = { "reporter_contact", "reporter_email" }
  BY DEF Kept
<1> QED BY <1>4, <1>5 DEF KeptOf

LEMMA OldCaseInv ==
  ASSUME Inv, NEW c, NEW number, NEW status \in OldStatuses, OldCase(c, number, status)
  PROVE  Inv'
<1>1. PICK dispatched \in (IF status = "closed" THEN BOOLEAN ELSE { status \in DispatchStatuses }) :
        WriteCase(c, CaseRow(c, number, status, Null, dispatched, Null))
  BY DEF OldCase
<1>2. version \in 10..13 /\ version \in 10..Newest /\ MayWrite(10, 13)
  BY DEF OldCase, MayWrite, Newest
<1>3. PICK row : row = CaseRow(c, number, status, Null, dispatched, Null)
  OBVIOUS
<1>4. /\ row["platform_id"] = c /\ row["status"] = status
      /\ row["dispatched_at"] = (IF dispatched THEN "set" ELSE Null)
  BY <1>3 DEF CaseRow
<1>5. PICK r, e : /\ r = KeptOf("incident_cases", row)
                  /\ e = KeptOf("case_events", [ from_status |-> Null, to_status |-> row.status ])
  OBVIOUS
<1>6. SchemaOk(db, version) /\ CasesOk(db, version)
  BY <1>2 DEF Inv, DbInv
<1>7. r = [x \in CasesBefore14 |-> row[x]] /\ e["to_status"] = status
  <2>1. r = [x \in CasesBefore14 |-> row[x]]
    BY <1>2, <1>5, <1>6, RowKept
  <2>2. e = [x \in EventColumnsKept |-> [ from_status |-> Null, to_status |-> row.status ][x]]
    BY <1>2, <1>5, <1>6, RowKept
  <2>3. e["to_status"] = row.status
    BY <2>2 DEF EventColumnsKept
  <2> QED BY <1>4, <2>1, <2>3
<1>8. /\ r["platform_id"] = c /\ r["status"] = status
      /\ r["dispatched_at"] = (IF dispatched THEN "set" ELSE Null)
  BY <1>4, <1>7 DEF CasesBefore14
<1>9. status \in Waiting \cup Handed \cup { "resolved", "closed" }
  <2>1. ASSUME NEW i \in DOMAIN StatusUp PROVE StatusUp[i][1] \in Waiting \cup Handed \cup { "resolved" }
    BY DEF StatusUp, Waiting, Handed
  <2> QED BY <2>1 DEF OldStatuses
<1>10. /\ status \in Waiting => r["dispatched_at"] = Null
       /\ status \in Handed => r["dispatched_at"] # Null
  BY <1>1, <1>8 DEF Waiting, Handed, DispatchStatuses, Null
<1>11. OldPair(r, e)
  BY <1>7, <1>8, <1>9, <1>10 DEF OldPair, FinalStatuses
<1>12. PairOk(version, c, r, e)
  BY <1>2, <1>8, <1>11 DEF PairOk
<1>13. DbInv(db', version, keyed)
  BY <1>1, <1>2, <1>3, <1>5, <1>12, CaseWritten
<1> QED BY <1>2, <1>13, WriteInv

LEMMA NewCaseInv ==
  ASSUME Inv, NEW c, NEW number, NEW status \in CaseStatus, NEW channel, NewCase(c, number, status, channel)
  PROVE  Inv'
<1>1. PICK track \in TracksOf(status) : WriteCase(c, CaseRow(c, number, status, track, FALSE, channel))
  BY DEF NewCase
<1>2. version \in 14..Newest /\ version \in 10..Newest /\ MayWrite(14, Newest)
  BY DEF NewCase, MayWrite, Newest
<1>3. PICK row : row = CaseRow(c, number, status, track, FALSE, channel)
  OBVIOUS
<1>4. /\ row["platform_id"] = c /\ row["status"] = status /\ row["track"] = track
      /\ row["reviewed_at"] = (IF status = "pending_review" THEN Null ELSE "set")
      /\ row["emic_reported_at"] = (IF track = "emic" THEN "set" ELSE Null)
  BY <1>3 DEF CaseRow
<1>5. PICK r, e : /\ r = KeptOf("incident_cases", row)
                  /\ e = KeptOf("case_events", [ from_status |-> Null, to_status |-> row.status ])
  OBVIOUS
<1>6. SchemaOk(db, version) /\ CasesOk(db, version)
  BY <1>2 DEF Inv, DbInv
<1>7. r = [x \in CasesFrom14 |-> row[x]] /\ e["to_status"] = status
  <2>1. r = [x \in CasesFrom14 |-> row[x]]
    BY <1>2, <1>5, <1>6, RowKept
  <2>2. e = [x \in EventColumnsKept |-> [ from_status |-> Null, to_status |-> row.status ][x]]
    BY <1>2, <1>5, <1>6, RowKept
  <2>3. e["to_status"] = row.status
    BY <2>2 DEF EventColumnsKept
  <2> QED BY <1>4, <2>1, <2>3
<1>8. /\ r["platform_id"] = c /\ r["status"] = status /\ r["track"] = track
      /\ r["reviewed_at"] = (IF status = "pending_review" THEN Null ELSE "set")
      /\ r["emic_reported_at"] = (IF track = "emic" THEN "set" ELSE Null)
  BY <1>4, <1>7 DEF CasesFrom14
<1>9. /\ status \in EmicStatuses => track = "emic"
      /\ status \in CommunityStatuses => track # "emic"
      /\ status = "pending_review" => track = Null
  BY <1>1 DEF TracksOf, TrackOf, EmicStatuses, CommunityStatuses
<1>10. NewPair(r, e)
  BY <1>7, <1>8, <1>9 DEF NewPair, EmicStatuses, Null
<1>11. PairOk(version, c, r, e)
  BY <1>2, <1>8, <1>10 DEF PairOk
<1>12. DbInv(db', version, keyed)
  BY <1>1, <1>2, <1>3, <1>5, <1>11, CaseWritten
<1> QED BY <1>2, <1>12, WriteInv

LEMMA NewReportInv ==
  ASSUME Inv, NEW id, NewReport(id)
  PROVE  Inv'
<1>1. PICK stored : stored = IF version = Newest THEN Encrypt(Plain, key) ELSE Plain
  OBVIOUS
<1>2. version \in 10..Newest /\ (version = Newest => key # Null) /\ MayWrite(10, Newest)
  BY DEF NewReport, MayWrite
<1>3. PICK email \in { stored, Null } :
        db' = [db EXCEPT !.rows.reports =
                 With(@, id, KeptOf("reports", [ reporter_contact |-> stored, reporter_email |-> email ]))]
  BY <1>1 DEF NewReport
<1>4. PICK row, r : /\ row = [ reporter_contact |-> stored, reporter_email |-> email ]
                    /\ r = KeptOf("reports", row)
  OBVIOUS
<1>5. SchemaOk(db, version) /\ CasesOk(db, version) /\ ReportsOk(db, version, keyed)
  BY <1>2 DEF Inv, DbInv
<1>6. Stored(stored, version, keyed)
  <2>1. ~ IsEncrypted(Plain) /\ Plain # Null
    BY DEF IsEncrypted, Plain, Null
  <2>2. CASE version = Newest
    <3>1. RightKey(key, keyed) /\ key \in Keys
      BY <1>2, <2>2 DEF Inv, Control
    <3>2. IsEncrypted(key) /\ (keyed => key = ConfiguredKey)
      BY <3>1, KeysAssumption DEF RightKey
    <3>3. stored = key
      BY <1>1, <2>1, <2>2 DEF Encrypt
    <3> QED BY <2>2, <3>2, <3>3 DEF Stored
  <2>3. CASE version # Newest
    BY <1>1, <2>1, <2>3 DEF Stored
  <2> QED BY <2>2, <2>3
<1>7. RowStored(r, version, keyed)
  <2>1. /\ DOMAIN r \subseteq { "reporter_contact", "reporter_email" }
        /\ \A c \in DOMAIN r : r[c] = row[c]
    BY <1>2, <1>4, <1>5, RowKept
  <2>2. row["reporter_contact"] = stored /\ row["reporter_email"] = email
    BY <1>4
  <2>3. Stored(Null, version, keyed)
    BY DEF Stored
  <2> QED BY <1>3, <1>6, <2>1, <2>2, <2>3 DEF RowStored
<1>8. CaseTables \subseteq DOMAIN db.rows /\ "reports" \in DOMAIN db.rows /\ DOMAIN db = DatabaseFields
  BY <1>2, <1>5, Columns DEF SchemaOk
<1>9. /\ DOMAIN db' = DatabaseFields /\ db'.tables = db.tables /\ db'.keys = db.keys
      /\ db'.indexes = db.indexes /\ DOMAIN db'.rows = DOMAIN db.rows
      /\ db'.rows["reports"] = With(db.rows["reports"], id, r)
      /\ \A t \in DOMAIN db.rows \ { "reports" } : db'.rows[t] = db.rows[t]
  BY <1>3, <1>4, <1>8 DEF DatabaseFields
<1>10. /\ DOMAIN db'.rows["reports"] = DOMAIN db.rows["reports"] \cup { id }
       /\ db'.rows["reports"][id] = r
       /\ \A i \in DOMAIN db.rows["reports"] : i # id => db'.rows["reports"][i] = db.rows["reports"][i]
  <2>1. PICK f : f = db.rows["reports"]
    OBVIOUS
  <2>2. /\ DOMAIN With(f, id, r) = DOMAIN f \cup { id } /\ With(f, id, r)[id] = r
        /\ \A i \in DOMAIN f : i # id => With(f, id, r)[i] = f[i]
    BY DEF With
  <2> QED BY <1>9, <2>1, <2>2
<1>11. SchemaOk(db', version)
  <2>1. \A t \in DOMAIN db.rows : \A i \in DOMAIN db.rows[t] : DOMAIN db.rows[t][i] = Kept[t] \cap db.tables[t]
    BY <1>5 DEF SchemaOk, Sound
  <2>2. DOMAIN r = Kept["reports"] \cap db.tables["reports"]
    BY <1>4 DEF KeptOf
  <2>3. ASSUME NEW t \in DOMAIN db.rows, NEW i \in DOMAIN db'.rows[t]
        PROVE  DOMAIN db'.rows[t][i] = Kept[t] \cap db.tables[t]
    <3>1. CASE t = "reports" /\ i = id
      BY <1>10, <2>2, <3>1
    <3>2. CASE t = "reports" /\ i # id
      BY <1>10, <2>1, <2>3, <3>2
    <3>3. CASE t # "reports"
      BY <1>9, <2>1, <2>3, <3>3
    <3> QED BY <3>1, <3>2, <3>3
  <2> QED BY <1>5, <1>9, <2>3, SchemaWritten
<1>12. CasesOk(db', version)
  <2>1. /\ db'.rows["incident_cases"] = db.rows["incident_cases"]
        /\ db'.rows["case_events"] = db.rows["case_events"]
    BY <1>8, <1>9 DEF CaseTables
  <2> QED BY <1>5, <2>1 DEF CasesOk, CaseOf, EventOf
<1>13. ReportsOk(db', version, keyed)
  BY <1>5, <1>7, <1>10 DEF ReportsOk
<1>14. DbInv(db', version, keyed)
  BY <1>11, <1>12, <1>13 DEF DbInv
<1> QED BY <1>2, <1>14, WriteInv

-----------------------------------------------------------------------------
(* The theorems *)

LEMMA NextInv == Inv /\ [Next]_vars => Inv'
<1> SUFFICES ASSUME Inv, [Next]_vars PROVE Inv'
  OBVIOUS
<1>1. ASSUME NEW k \in Keys, UpgradeHead(k) PROVE Inv'
  <2>1. Newest \in 0..Newest
    BY DEF Newest
  <2> QED BY <1>1, <2>1, StartInv DEF UpgradeHead
<1>2. ASSUME NEW k \in Keys, NEW n \in Targets, DowngradeTo(n, k) PROVE Inv'
  <2>1. n \in 0..Newest
    BY VersionsAssumption
  <2> QED BY <1>2, <2>1, StartInv DEF DowngradeTo
<1>3. CASE Advance
  BY <1>3, AdvanceInv
<1>4. CASE Commit \/ Crash \/ Stop \/ \E k \in Keys : Boot(k)
  BY <1>4, EndInv
<1>5. ASSUME NEW c \in Cases, NEW number \in Numbers, NEW status \in OldStatuses, OldCase(c, number, status)
      PROVE  Inv'
  BY <1>5, OldCaseInv
<1>6. ASSUME NEW c \in Cases, NEW number \in Numbers, NEW status \in CaseStatus,
             NEW channel \in { "manual", "api" }, NewCase(c, number, status, channel)
      PROVE  Inv'
  BY <1>6, NewCaseInv
<1>7. ASSUME NEW id \in Reports, NewReport(id) PROVE Inv'
  BY <1>7, NewReportInv
<1>8. CASE UNCHANGED vars
  BY <1>8 DEF vars, Inv, Control
<1> QED BY <1>1, <1>2, <1>3, <1>4, <1>5, <1>6, <1>7, <1>8 DEF Next

\* What the scripts and the releases keep of a database: its schema and its rows
\* are those of its version (the alembic command with all fifteen scripts, the
\* releases' writes).
THEOREM Invariant == Spec => []Inv
BY InitInv, NextInv, PTL DEF Spec

\* The state is a database of a version between 0 and 15, at most one command is
\* at work on a copy of it, the application runs on the newest schema only, and
\* every row has exactly the columns of its table.
THEOREM TypeCorrect == Spec => []TypeOK
<1>1. Inv => TypeOK
  BY DEF Inv, Control, TypeOK, DbInv, SchemaOk, Sound
<1> QED BY <1>1, Invariant, PTL

\* However often, from wherever and however far the database goes back and forth,
\* its tables, columns, keys and indexes are those of its version, and at the
\* newest one those the application declares (the upgrade and the downgrade
\* functions of alembic/versions, db/models.py).
THEOREM SchemasFollow == Spec => []SchemaFollowsVersion
<1>1. ASSUME Inv PROVE SchemaFollowsVersion
  <2>1. version \in 0..Newest /\ SchemaOk(db, version)
    BY <1>1 DEF Inv, Control, DbInv
  <2>2. tx.on => tx.at \in 0..Newest /\ SchemaOk(tx.db, tx.at)
    BY <1>1 DEF Inv, Control, DbInv
  <2>3. Shape(db) = BuiltShape[version] /\ (version = Newest => MatchesModels(Shape(db)))
    BY <2>1, SchemaFacts
  <2>4. tx.on => Shape(tx.db) = BuiltShape[tx.at]
    BY <2>2, SchemaFacts
  <2> QED BY <2>3, <2>4 DEF SchemaFollowsVersion
<1> QED BY <1>1, Invariant, PTL

\* No upgrade is refused, whatever rows earlier releases left and whatever
\* constraints earlier downgrades brought back without their names.
THEOREM UpgradesNeverFail == Spec => []UpgradesSucceed
<1>1. Inv => UpgradesSucceed
  BY DEF Inv, UpgradesSucceed
<1> QED BY <1>1, Invariant, PTL

\* From revision 14 on, every case and its history are in the vocabulary of the
\* state machine and satisfy what it assumes of them, for any number of cases,
\* written before or after any migration (0014, both ways).
THEOREM RowsSpeakOneLanguage == Spec => []RowsTranslated
<1>1. ASSUME Inv PROVE RowsTranslated
  <2>1. ASSUME version >= 14, NEW c \in DOMAIN db.rows.incident_cases
        PROVE  NewPair(CaseOf(db, c), EventOf(db, c))
    <3>1. CasesOk(db, version)
      BY <1>1, <2>1 DEF Inv, Control, DbInv
    <3>2. ~ version < 14
      BY <1>1, <2>1 DEF Inv, Control
    <3> QED BY <2>1, <3>1, <3>2 DEF CasesOk, PairOk
  <2> QED BY <2>1 DEF RowsTranslated, NewPair, CaseOf, EventOf
<1> QED BY <1>1, Invariant, PTL

\* Personal data is never plain text at the newest version, and with a configured
\* key the release that runs can read it: encrypted once, with that key, from
\* revision 15 on, plain before (0015, db/crypto.py).
THEOREM PersonalDataStaysSafe == Spec => []PersonalDataSafe
<1>1. ASSUME Inv PROVE PersonalDataSafe
  <2>1. version \in 0..Newest /\ SchemaOk(db, version)
    BY <1>1 DEF Inv, Control, DbInv
  <2>2. ASSUME NEW v \in PersonalData(db) \ { Null } PROVE Stored(v, version, keyed)
    <3>1. "reports" \in DOMAIN db.rows
      BY <2>2 DEF PersonalData
    <3>2. PICK i \in DOMAIN db.rows["reports"] : \E c \in DOMAIN db.rows["reports"][i] : v = db.rows["reports"][i][c]
      BY <2>2, <3>1 DEF PersonalData
    <3>3. DOMAIN db.rows = IF version < 10 THEN {} ELSE DOMAIN Kept
      BY <2>1, SchemaFacts
    <3>4. version >= 10
      BY <2>1, <3>1, <3>3
    <3>5. ReportsOk(db, version, keyed)
      BY <1>1, <3>4 DEF Inv, DbInv
    <3> QED BY <3>2, <3>5 DEF ReportsOk, RowStored
  <2>3. ~ IsEncrypted(Plain)
    BY DEF IsEncrypted
  <2> QED BY <2>2, <2>3 DEF PersonalDataSafe, Stored
<1> QED BY <1>1, Invariant, PTL

\* No script reopens a finished case or finishes an open one (0014, both ways).
THEOREM FinishedCasesStay == Spec => FinishedStays
<1>1. ASSUME Inv, [Next]_vars, tx.on, tx'.on,
             "incident_cases" \in DOMAIN tx.db.rows \cap DOMAIN tx'.db.rows,
             NEW c \in DOMAIN tx.db.rows.incident_cases
      PROVE  Finished(tx.db.rows.incident_cases[c]) <=> Finished(tx'.db.rows.incident_cases[c])
  <2>1. CASE Advance
    <3>1. PICK run, at : run = Run(tx.db, Script, tx.key) /\ at = IF tx.up THEN tx.at + 1 ELSE tx.at - 1
      OBVIOUS
    <3>2. run.ok
      <4>1. ~ NoTx.on
        BY DEF NoTx
      <4> QED BY <1>1, <2>1, <3>1, <4>1 DEF Advance
    <3>3. tx'.db = run.db
      <4>1. tx' = [tx EXCEPT !.db = run.db, !.at = at]
        BY <2>1, <3>1, <3>2 DEF Advance
      <4> QED BY <1>1, <4>1 DEF Inv, Control
    <3>4. tx.on /\ tx.at # tx.target /\ tx.at \in 0..Newest
      BY <1>1, <2>1 DEF Advance, Inv, Control
    <3>5. /\ at \in 0..Newest /\ DbInv(run.db, at, keyed)
          /\ tx.at >= 10 /\ at >= 10 => SameCases(tx.db, run.db)
      BY <1>1, <3>1, <3>2, <3>4, Script1
    <3>6. tx.at >= 10
      <4>1. SchemaOk(tx.db, tx.at)
        BY <1>1 DEF Inv, DbInv
      <4>2. DOMAIN tx.db.rows = IF tx.at < 10 THEN {} ELSE DOMAIN Kept
        BY <3>4, <4>1, SchemaFacts
      <4> QED BY <1>1, <3>4, <4>2
    <3>7. at >= 10
      <4>1. SchemaOk(run.db, at)
        BY <3>5 DEF DbInv
      <4>2. DOMAIN run.db.rows = IF at < 10 THEN {} ELSE DOMAIN Kept
        BY <3>5, <4>1, SchemaFacts
      <4> QED BY <1>1, <3>3, <3>5, <4>2
    <3> QED BY <1>1, <3>3, <3>5, <3>6, <3>7 DEF SameCases, CaseOf
  <2>2. CASE tx' = tx
    BY <2>2
  <2>3. CASE tx' = NoTx
    <3>1. ~ NoTx.on
      BY DEF NoTx
    <3> QED BY <1>1, <2>3, <3>1
  <2>4. Advance \/ tx' = tx \/ tx' = NoTx \/ ~ tx.on
    BY <1>1 DEF Next, vars, UpgradeHead, DowngradeTo, Start, Commit, Crash, Boot, Stop, OldCase, NewCase,
                NewReport, MayWrite
  <2> QED BY <1>1, <2>1, <2>2, <2>3, <2>4
<1>2. Inv /\ [Next]_vars =>
        [(tx.on /\ tx'.on /\ "incident_cases" \in DOMAIN tx.db.rows \cap DOMAIN tx'.db.rows) =>
           \A c \in DOMAIN tx.db.rows.incident_cases :
              Finished(tx.db.rows.incident_cases[c]) <=> Finished(tx'.db.rows.incident_cases[c])]_vars
  BY <1>1
<1> QED BY <1>2, Invariant, PTL DEF Spec, FinishedStays
=============================================================================
