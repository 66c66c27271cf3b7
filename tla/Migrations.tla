----------------------------- MODULE Migrations -----------------------------
(***************************************************************************)
(* The alembic command at work (apps/api/alembic/env.py): it runs the      *)
(* scripts between the version of the database and its target in one       *)
(* transaction.  The image starts with "alembic upgrade head" and then the *)
(* application (apps/api/Dockerfile); an operator may downgrade while the  *)
(* application is stopped, and start an older release on the result.       *)
(*                                                                         *)
(* Between commands the releases of the application write: the rows they   *)
(* leave are those their state machines allow.  Personal data is encrypted *)
(* from revision 15 on, with the configured key or, in development without *)
(* one, with a key that each process makes for itself (app/db/crypto.py).  *)
(***************************************************************************)
EXTENDS Revisions, CaseStates

CONSTANTS
  Cases,       \* cases, each of a platform of its own
  Reports,
  Numbers,     \* case numbers; platforms of one county use the same ones
  Keys,        \* encryption keys; the first is the configured one
  ConfiguredKey,
  Installed,   \* versions an installation may be found at, by the release it runs
  Targets,     \* versions an operator may downgrade to
  MaxCommands, \* bound: alembic commands
  MaxWrites    \* bound: rows the application writes

ASSUME KeysAssumption == ConfiguredKey \in Keys /\ \A k \in Keys : IsEncrypted(k)
ASSUME VersionsAssumption == Installed \subseteq 0 .. Newest /\ Targets \subseteq 0 .. Newest
ASSUME BoundsAssumption == MaxCommands \in Nat /\ MaxWrites \in Nat

VARIABLES
  version,   \* alembic_version
  db,        \* the committed database
  tx,        \* the command in progress, or none
  key,       \* the key of the running application, or Null
  keyed,     \* DATA_ENCRYPTION_KEY is set
  failed,    \* the direction of the last command that failed
  commands, writes

vars == <<version, db, tx, key, keyed, failed, commands, writes>>

-----------------------------------------------------------------------------
(* Databases *)

EmptyDb == [ tables |-> << >>, keys |-> {}, indexes |-> {}, rows |-> << >> ]

\* The database that upgrades alone make, by version.
BuiltUp == FoldLeft(LAMBDA dbs, script : Append(dbs, Run(Last(dbs), script, Null).db),
                    << EmptyDb >>, Upgrade)
Built   == [n \in 0 .. Newest |-> BuiltUp[n + 1]]

\* What a schema lets the application do: names of keys do not matter, and a
\* unique index is a unique constraint.
Shape(d) ==
  [ tables  |-> d.tables,
    keys    |-> { Named(k, Unnamed) : k \in d.keys } \cup
                { UniqueKey(Unnamed, i.on, i.cols) : i \in { j \in d.indexes : j.unique } },
    indexes |-> { [ on |-> i.on, cols |-> i.cols ] : i \in d.indexes } ]

BuiltShape == [n \in 0 .. Newest |-> Shape(Built[n])]

\* A shape has what the application declares.
MatchesModels(shape) ==
  /\ DOMAIN shape.tables = { m.on : m \in Models }
  /\ \A m \in Models :
       /\ shape.tables[m.on] = m.cols
       /\ { k \in shape.keys : k.on = m.on } = m.keys
       /\ { [ on |-> m.on, cols |-> c ] : c \in m.indexes } \subseteq shape.indexes

\* What a downgrade of the newest schema leaves at each version: some constraints
\* come back without their names, and then no script can take them away.  Where
\* that refuses a downgrade, one that starts at its version goes on.
WornDown ==
  FoldLeft(LAMBDA dbs, n :
             IF dbs = << >> THEN << Built[n] >>
             ELSE LET run == Run(Head(dbs), Downgrade[n + 1], Null) IN
                  << IF run.ok THEN run.db ELSE Run(Built[n + 1], Downgrade[n + 1], Null).db >> \o dbs,
           << >>, [i \in 1 .. Newest + 1 |-> Newest + 1 - i])

\* The schemas an installation may have at each version.
Schemas == [n \in 0 .. Newest |-> { Built[n], WornDown[n + 1] }]

\* The columns kept of a table, by version (0010, 0014).
ColumnsAt(n, t) ==
  CASE t = "incident_cases" ->
         IF n < 14 THEN { "platform_id", "case_number", "status", "dispatched_at" }
         ELSE Kept[t] \ { "dispatched_at" }
    [] t = "case_events" -> Kept[t]
    [] t = "reports" -> IF n < 14 THEN { "reporter_contact" } ELSE Kept[t]

\* The scripts are fixed, so what they make of these schemas depends on no
\* constant: evaluating it settles it.  Every upgrade is accepted and leads to a
\* schema of the next version, every downgrade that is accepted to one of the
\* version before; at each version they agree up to the names of keys, and from
\* revision 10 on they have the tables whose rows are kept, without rows.
ASSUME SchemasAssumption ==
  \A n \in 0 .. Newest : \A x \in Schemas[n] :
    /\ DOMAIN x = { "tables", "keys", "indexes", "rows" }
    /\ DOMAIN x.rows = IF n < 10 THEN {} ELSE DOMAIN Kept
    /\ \A t \in DOMAIN x.rows :
         DOMAIN x.rows[t] = {} /\ t \in DOMAIN x.tables /\ x.tables[t] \cap Kept[t] = ColumnsAt(n, t)
    /\ Shape(x) = BuiltShape[n]
    /\ n = Newest => MatchesModels(Shape(x))
    /\ n < Newest => LET run == Run(x, Upgrade[n + 1], Null) IN run.ok /\ run.db \in Schemas[n + 1]
    /\ n > 0 => LET run == Run(x, Downgrade[n], Null) IN run.ok => run.db \in Schemas[n - 1]

NoTx == [ on |-> FALSE, up |-> TRUE, target |-> 0, at |-> 0, db |-> EmptyDb, key |-> Null ]

Init ==
  /\ version \in Installed
  /\ db = Built[version]
  /\ tx = NoTx
  /\ key = Null
  /\ keyed \in BOOLEAN
  /\ failed = Null
  /\ commands = 0 /\ writes = 0

-----------------------------------------------------------------------------
(* The alembic command *)

KeyOf(k) == IF keyed THEN k = ConfiguredKey ELSE k \in Keys \ { ConfiguredKey }

Start(target, k) ==
  /\ ~ tx.on /\ key = Null /\ KeyOf(k)
  /\ commands < MaxCommands
  /\ commands' = commands + 1
  /\ tx' = [ on |-> TRUE, up |-> target > version, target |-> target, at |-> version,
             db |-> db, key |-> k ]
  /\ UNCHANGED <<version, db, key, keyed, failed, writes>>

UpgradeHead(k)    == version < Newest /\ Start(Newest, k)
DowngradeTo(n, k) == n < version /\ Start(n, k)

\* The next script of the command in progress: its result, or failure of all.
Script == IF tx.up THEN Upgrade[tx.at + 1] ELSE Downgrade[tx.at]

\* Slip: what was done when a script is refused stays.
Advance_slip ==
  LET run == Run(tx.db, Script, tx.key) IN
  /\ tx.on /\ tx.at # tx.target
  /\ IF run.ok
     THEN /\ tx' = [tx EXCEPT !.db = run.db, !.at = IF tx.up THEN @ + 1 ELSE @ - 1]
          /\ UNCHANGED <<db, failed>>
     ELSE /\ tx' = NoTx /\ db' = run.db
          /\ failed' = IF tx.up THEN "upgrade" ELSE "downgrade"
  /\ UNCHANGED <<version, key, keyed, commands, writes>>

Advance ==
  LET run == Run(tx.db, Script, tx.key) IN
  /\ tx.on /\ tx.at # tx.target
  /\ IF run.ok
     THEN /\ tx' = [tx EXCEPT !.db = run.db, !.at = IF tx.up THEN @ + 1 ELSE @ - 1]
          /\ UNCHANGED failed
     ELSE /\ tx' = NoTx
          /\ failed' = IF tx.up THEN "upgrade" ELSE "downgrade"
  /\ UNCHANGED <<version, db, key, keyed, commands, writes>>

Commit ==
  /\ tx.on /\ tx.at = tx.target
  /\ version' = tx.at /\ db' = tx.db
  /\ tx' = NoTx
  /\ UNCHANGED <<key, keyed, failed, commands, writes>>

\* Slip: what the scripts had done so far stays.
Crash_slip ==
  /\ tx.on
  /\ tx' = NoTx /\ db' = tx.db
  /\ UNCHANGED <<version, key, keyed, failed, commands, writes>>

Crash ==
  /\ tx.on
  /\ tx' = NoTx
  /\ UNCHANGED <<version, db, key, keyed, failed, commands, writes>>

-----------------------------------------------------------------------------
(* The application *)

\* uvicorn starts behind a successful upgrade.
Boot(k) ==
  /\ version = Newest /\ ~ tx.on /\ key = Null /\ KeyOf(k)
  /\ key' = k
  /\ UNCHANGED <<version, db, tx, keyed, failed, commands, writes>>

Stop ==
  /\ key # Null
  /\ key' = Null
  /\ UNCHANGED <<version, db, tx, keyed, failed, commands, writes>>

KeptOf(t, row) == [c \in Kept[t] \cap db.tables[t] |-> row[c]]

MayWrite(first, last) ==
  /\ version \in first .. last /\ ~ tx.on /\ (version = Newest => key # Null)
  /\ writes < MaxWrites
  /\ writes' = writes + 1
  /\ UNCHANGED <<version, tx, key, keyed, failed, commands>>

\* A case as the release leaves it, with the event that led to its status.  Up
\* to revision 11 its number is taken if a case of any platform has it.
WriteCase(c, row) ==
  /\ c \notin DOMAIN db.rows.incident_cases
  /\ GlobalNumber \in db.keys =>
       \A d \in DOMAIN db.rows.incident_cases :
          db.rows.incident_cases[d].case_number # row.case_number
  /\ db' = [db EXCEPT
       !.rows.incident_cases = With(@, c, KeptOf("incident_cases", row)),
       !.rows.case_events =
          With(@, c, KeptOf("case_events", [ from_status |-> Null, to_status |-> row.status ]))]

CaseRow(c, number, status, track, dispatched, channel) ==
  [ platform_id |-> c, case_number |-> number, status |-> status, track |-> track,
    dispatched_at |-> IF dispatched THEN "set" ELSE Null,
    reviewed_at |-> IF status = "pending_review" THEN Null ELSE "set",
    emic_reported_at |-> IF track = "emic" THEN "set" ELSE Null,
    emic_channel |-> IF track = "emic" THEN channel ELSE Null ]

\* Of the releases of revisions 10 to 13 only what their successor's script says
\* is known: these statuses, and dispatched_at if an agency had the case.
DispatchStatuses == { "assigned", "en_route", "on_site", "processing", "resolved" }
OldStatuses      == { StatusUp[i][1] : i \in DOMAIN StatusUp } \cup { "closed" }

OldCase(c, number, status) ==
  /\ MayWrite(10, 13)
  /\ \E dispatched \in IF status = "closed" THEN BOOLEAN ELSE { status \in DispatchStatuses } :
       WriteCase(c, CaseRow(c, number, status, Null, dispatched, Null))

\* The tracks a case of this status may be on.
TracksOf(status) ==
  CASE status = "closed"    -> { "emic", "community" }
    [] status = "dismissed" -> { "community", Null }
    [] status = "pending_review" -> { Null }
    [] OTHER -> { TrackOf(status) }

\* Later releases leave the rows that CaseLifecycle describes.
NewCase(c, number, status, channel) ==
  /\ MayWrite(14, Newest)
  /\ \E track \in TracksOf(status) :
       WriteCase(c, CaseRow(c, number, status, track, FALSE, channel))

\* Personal data: up to revision 14 the releases write it as it is.
NewReport(id) ==
  LET stored == IF version = Newest THEN Encrypt(Plain, key) ELSE Plain IN
  /\ MayWrite(10, Newest)
  /\ id \notin DOMAIN db.rows.reports
  /\ \E email \in { stored, Null } :
       db' = [db EXCEPT !.rows.reports =
                With(@, id, KeptOf("reports", [ reporter_contact |-> stored, reporter_email |-> email ]))]

Next ==
  \/ \E k \in Keys : UpgradeHead(k) \/ Boot(k) \/ \E n \in Targets : DowngradeTo(n, k)
  \/ Advance \/ Commit \/ Crash \/ Stop
  \/ \E c \in Cases, number \in Numbers :
       \/ \E status \in OldStatuses : OldCase(c, number, status)
       \/ \E status \in CaseStatus, channel \in { "manual", "api" } : NewCase(c, number, status, channel)
  \/ \E id \in Reports : NewReport(id)

Spec == Init /\ [][Next]_vars

-----------------------------------------------------------------------------
(* Properties *)

\* The state is a database, at most one command at a time is at work on a copy
\* of it, and the application runs on the newest schema only.
TypeOK ==
  /\ version \in 0 .. Newest
  /\ tx.on => /\ tx.at \in 0 .. Newest /\ tx.target \in 0 .. Newest /\ key = Null
              /\ tx.key \in Keys
              /\ IF tx.up THEN tx.at <= tx.target ELSE tx.at >= tx.target
  /\ key # Null => version = Newest /\ key \in Keys
  /\ keyed \in BOOLEAN
  /\ failed \in { Null, "upgrade", "downgrade" }
  /\ \A t \in DOMAIN db.rows, i \in Cases \cup Reports :
        i \in DOMAIN db.rows[t] => DOMAIN db.rows[t][i] = Kept[t] \cap db.tables[t]

\* The tables, columns, keys and indexes depend on the version alone, however
\* often and however far the database went back and forth: a downgrade undoes
\* its upgrade, though some recreate tables that several scripts had shaped.
\* At the newest version every table the application declares (db/models.py) is
\* there with exactly its columns and keys, and with at least its indexes.
SchemaFollowsVersion ==
  /\ Shape(db) = BuiltShape[version]
  /\ tx.on => Shape(tx.db) = BuiltShape[tx.at]
  /\ version = Newest => MatchesModels(Shape(db))

\* An upgrade is never refused, whatever earlier releases and downgrades left:
\* the image runs it at every start, and does not start without it (0014, 0015).
UpgradesSucceed == failed # "upgrade"

\* From revision 14 on, rows and history speak the vocabulary of the state
\* machine: the history still ends at the status of its row; a case that EMIC has
\* in hand is on the EMIC track, reviewed and reported; one that waits for review
\* is on none.  CaseLifecycle starts from such rows.
RowsTranslated ==
  version >= 14 =>
    \A c \in DOMAIN db.rows.incident_cases :
      LET row == db.rows.incident_cases[c] IN
      /\ row.status \in CaseStatus
      /\ db.rows.case_events[c].to_status = row.status
      /\ row.status \in EmicStatuses =>
           row.track = "emic" /\ row.reviewed_at # Null /\ row.emic_reported_at # Null
      /\ row.status = "pending_review" => row.track = Null /\ row.reviewed_at = Null

\* No script reopens a finished case or finishes an open one (0014, both ways).
Finished(row) == row.status \in FinalStatuses \cup { "resolved" }

FinishedStays ==
  [][(tx.on /\ tx'.on /\ "incident_cases" \in DOMAIN tx.db.rows \cap DOMAIN tx'.db.rows) =>
       \A c \in DOMAIN tx.db.rows.incident_cases :
          Finished(tx.db.rows.incident_cases[c]) <=> Finished(tx'.db.rows.incident_cases[c])]_vars

PersonalData(d) ==
  IF "reports" \notin DOMAIN d.rows THEN {}
  ELSE UNION { { d.rows.reports[i][c] : c \in DOMAIN d.rows.reports[i] } : i \in DOMAIN d.rows.reports }

\* Personal data is never plain text at the newest version; with a configured key
\* the release that runs can read it, whatever migrations came between: encrypted
\* once and with that key from revision 15 on, plain before (0015, db/crypto.py).
PersonalDataSafe ==
  \A v \in PersonalData(db) \ { Null } :
    /\ version = Newest => v # Plain
    /\ keyed => v = IF version = Newest THEN ConfiguredKey ELSE Plain

\* "a rollback to the ResQLink schema is still possible" (0011): no downgrade
\* is refused.
RollbackPossible == failed # "downgrade"
=============================================================================
