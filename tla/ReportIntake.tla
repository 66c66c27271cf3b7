---------------------------- MODULE ReportIntake ----------------------------
(***************************************************************************)
(* From citizens' reports to cases at one spot: intake and clustering      *)
(* (report_service.create_report, cluster_service.process_report), the     *)
(* promotion of a cluster to a case, by threshold or by an officer         *)
(* (case_service.create_case_from_cluster), and the rejection of a report. *)
(*                                                                         *)
(* Places, categories and times are not in the state: whether pick_cluster *)
(* finds a new report close, alike and recent enough to a candidate, and   *)
(* to which, is open.                                                      *)
(*                                                                         *)
(* A request is one transaction at READ COMMITTED.  Its SELECTs see what   *)
(* is committed when they run and its own writes; a row it loaded it keeps *)
(* as loaded; its UPDATEs wait for the row lock and then write the columns *)
(* it changed.  The steps below are cut where another request can come in. *)
(***************************************************************************)
EXTENDS Naturals, FiniteSets

CONSTANTS
  Reports,         \* the reports citizens may send, each at most once
  Keys,            \* reporter keys
  Null,            \* no key, no cluster, no case, no lock holder
  KeyOf,           \* KeyOf[r]: who sent report r, Null when anonymous
  Required,        \* policy.required_unique_reporters
  CountAnonymous,  \* policy.count_anonymous_reporters
  Workers,         \* request handlers
  MaxClusters,     \* bound: clusters that can be opened
  MaxCases,        \* bound: cases that can be created
  MaxFinished,     \* bound: cases that can be closed or dismissed
  MaxAborts        \* bound: transactions that die by themselves

ASSUME NullAssumption   == Null \notin Keys \cup Reports \cup Workers \cup Nat
ASSUME KeysAssumption   == KeyOf \in [Reports -> Keys \cup { Null }]
ASSUME PolicyAssumption == Required \in Nat \ { 0 } /\ CountAnonymous \in BOOLEAN
ASSUME BoundsAssumption == MaxClusters \in Nat /\ MaxCases \in Nat /\ MaxFinished \in Nat
                           /\ MaxAborts \in Nat
ASSUME FiniteAssumption == IsFiniteSet(Reports)

VARIABLES
  reports,   \* committed reports
  clusters,  \* committed report_clusters; the cluster that report r opened is r
  cases,     \* committed incident_cases
  req,       \* req[w]: the transaction of worker w
  lock,      \* lock[k]: the worker that holds the lock of cluster row k
  aborts     \* transactions that died by themselves so far

vars == <<reports, clusters, cases, req, lock, aborts>>

-----------------------------------------------------------------------------
(* The shape of the data *)

CaseIds  == 1..MaxCases
Clusters == Reports

Tally == [ count : Nat, unique : Nat ]
Zero  == [ count |-> 0, unique |-> 0 ]

ReportRow ==
  [ status : { "absent", "clustered", "promoted", "rejected" },
    cluster : Clusters \cup { Null }, case : CaseIds \cup { Null } ]

ClusterRow ==
  [ status : { "absent", "open", "promoted", "finished" },
    case : CaseIds \cup { Null }, tally : Tally ]

CaseRow ==
  [ status : { "absent", "unfinished", "finished" },
    cluster : Clusters \cup { Null }, tally : Tally,
    trigger : { "none", "threshold", "manual" } ]

NoReport  == [ status |-> "absent", cluster |-> Null, case |-> Null ]
NoCluster == [ status |-> "absent", case |-> Null, tally |-> Zero ]
EmptyCase == [ status |-> "absent", cluster |-> Null, tally |-> Zero,
               trigger |-> "none" ]

\* What a transaction carries: the report it is about, the cluster it works on
\* and that row as loaded, the tally it wants on it, the case it works on (a
\* new one if it creates) with the tally it loaded, the reports it links, and
\* those among them whose status it changes.
Transaction ==
  [ pc : { "idle", "recount", "lock", "decide", "commit" },
    kind : { "none", "intake", "promote", "reject" },
    report : Reports \cup { Null }, k : Clusters \cup { Null },
    loaded : ClusterRow, tally : Tally,
    outcome : { "none", "attach", "create" },
    case : CaseIds \cup { Null }, caseTally : Tally,
    members : SUBSET Reports, turned : SUBSET Reports ]

Idle ==
  [ pc |-> "idle", kind |-> "none", report |-> Null, k |-> Null,
    loaded |-> NoCluster, tally |-> Zero, outcome |-> "none",
    case |-> Null, caseTally |-> Zero, members |-> {}, turned |-> {} ]

Init ==
  /\ reports = [r \in Reports |-> NoReport]
  /\ clusters = [k \in Clusters |-> NoCluster]
  /\ cases = [c \in CaseIds |-> EmptyCase]
  /\ req = [w \in Workers |-> Idle]
  /\ lock = [k \in Clusters |-> Null]
  /\ aborts = 0

-----------------------------------------------------------------------------
(* Counting *)

\* count_unique_reporters: a key counts once; an anonymous report counts as one
\* person, or as nobody.
UniqueReporters(S) ==
  Cardinality({ KeyOf[r] : r \in S } \ { Null }) +
    IF CountAnonymous THEN Cardinality({ r \in S : KeyOf[r] = Null }) ELSE 0

TallyOf(S) == [ count |-> Cardinality(S), unique |-> UniqueReporters(S) ]

\* The operators marked "slip" are mistakes a change to the next operator could
\* make; no action uses them.
Standing_slip(k) == { r \in Reports : reports[r].cluster = k }

\* The committed reports of cluster k that were not rejected.
Standing(k) ==
  { r \in Reports : reports[r].cluster = k /\ reports[r].status # "rejected" }

OpenCandidates_slip == { k \in Clusters : clusters[k].status # "absent" }

\* Clusters a new report may join.
OpenCandidates == { k \in Clusters : clusters[k].status \in { "open", "promoted" } }

Col(old, new, cur) == IF new # old THEN new ELSE cur

Written(old, new, cur) ==
  [ count  |-> Col(old.count, new.count, cur.count),
    unique |-> Col(old.unique, new.unique, cur.unique) ]

-----------------------------------------------------------------------------
(* Intake: match, recount, lock, decide, commit *)

\* The bound on clusters is not reached, requests under way included.
MayOpen ==
  Cardinality({ k \in Clusters : \/ clusters[k].status # "absent"
                                 \/ \E v \in Workers : req[v].k = k }) < MaxClusters

\* The bound on cases leaves one to every request that may create one.
CaseRoom ==
  Cardinality({ c \in CaseIds : cases[c].status # "absent" })
    + Cardinality({ v \in Workers : req[v].kind \in { "intake", "promote" } }) < MaxCases

\* The report is inserted and a cluster chosen among the committed candidates,
\* or opened.  The chosen row stays in the session as it was loaded here.
SubmitReport(w, r) ==
  /\ req[w].pc = "idle"
  /\ reports[r].status = "absent" /\ CaseRoom
  /\ \A v \in Workers : req[v].report # r
  /\ \E k \in OpenCandidates \cup (IF MayOpen THEN { r } ELSE {}) :
       req' = [req EXCEPT ![w] =
         [Idle EXCEPT !.pc = "recount", !.kind = "intake", !.report = r, !.k = k,
                      !.loaded = IF k = r THEN [NoCluster EXCEPT !.status = "open"]
                                 ELSE clusters[k]]]
  /\ UNCHANGED <<reports, clusters, cases, lock, aborts>>

\* Slip: the row is only written, and the intake only goes on, at the threshold.
Recount_slip(w) ==
  /\ req[w].pc = "recount"
  /\ \E t \in { TallyOf(Standing(req[w].k) \cup { req[w].report }) } :
       req' = [req EXCEPT ![w].pc = IF t.unique >= Required THEN "lock" ELSE "recount",
                          ![w].tally = t]
  /\ UNCHANGED <<reports, clusters, cases, lock, aborts>>

\* _recount: the committed reports of the cluster and the transaction's own.
Recount(w) ==
  LET r == req[w] IN
  /\ r.pc = "recount"
  /\ req' = [req EXCEPT ![w].pc = "lock",
                        ![w].tally = TallyOf(Standing(r.k) \cup { r.report })]
  /\ UNCHANGED <<reports, clusters, cases, lock, aborts>>

\* The UPDATE of the cluster row waits for the transaction that holds it.
LockCluster(w) ==
  LET k == req[w].k IN
  /\ req[w].pc = "lock"
  /\ lock[k] = Null
  /\ lock' = [lock EXCEPT ![k] = w]
  /\ req' = [req EXCEPT ![w].pc = IF req[w].kind = "intake" THEN "decide" ELSE "commit"]
  /\ UNCHANGED <<reports, clusters, cases, aborts>>

\* The identifiers no case has; CaseRoom leaves one to each request that needs it.
Unused == { c \in CaseIds : cases[c].status = "absent" /\ \A v \in Workers : req[v].case # c }

\* uuid4
FreshCase == CHOOSE c \in Unused : TRUE

Reached_slip1(tally) == tally.unique > Required

Reached_slip2(tally) == tally.count >= Required

\* The threshold rule, on the tally just counted.
Reached(tally) == tally.unique >= Required

ToTurn_slip(S) == { r \in S : reports[r].status = "promoted" }

\* The standing reports of S that the session loads as not yet promoted.
ToTurn(S) == { r \in S : reports[r].status # "promoted" }

\* The reports a new case takes over: all that stand, and the report in hand.
Takeover_slip(t) == IF t.report = Null THEN Standing(t.k) ELSE { t.report }

Takeover(t) == Standing(t.k) \cup IF t.report = Null THEN {} ELSE { t.report }

\* A cluster that has a case as loaded gets the report attached; one that has
\* none and has reached the threshold gets a case with all its reports.
DecideIntake(w) ==
  LET r == req[w] IN
  /\ r.pc = "decide" /\ r.kind = "intake" /\ Unused # {}
  /\ req' = [req EXCEPT ![w] =
       IF r.loaded.case # Null THEN
         [r EXCEPT !.pc = "commit", !.outcome = "attach", !.case = r.loaded.case,
                   !.caseTally = cases[r.loaded.case].tally,
                   !.members = { r.report }, !.turned = { r.report }]
       ELSE IF Reached(r.tally) THEN
         [r EXCEPT !.pc = "commit", !.outcome = "create", !.case = FreshCase,
                   !.members = Takeover(r), !.turned = ToTurn(Takeover(r))]
       ELSE [r EXCEPT !.pc = "commit"]]
  /\ UNCHANGED <<reports, clusters, cases, lock, aborts>>

-----------------------------------------------------------------------------
(* The officer's two requests *)

PromoteCluster_slip(w, k) ==
  /\ req[w].pc = "idle"
  /\ clusters[k].status # "absent" /\ CaseRoom
  /\ req' = [req EXCEPT ![w] =
       [Idle EXCEPT !.pc = "decide", !.kind = "promote", !.k = k,
                    !.loaded = clusters[k], !.tally = clusters[k].tally]]
  /\ UNCHANGED <<reports, clusters, cases, lock, aborts>>

\* promote_cluster: a cluster that already has a case is left alone.
PromoteCluster(w, k) ==
  /\ req[w].pc = "idle"
  /\ clusters[k].status # "absent"
  /\ clusters[k].case = Null /\ CaseRoom
  /\ req' = [req EXCEPT ![w] =
       [Idle EXCEPT !.pc = "decide", !.kind = "promote", !.k = k,
                    !.loaded = clusters[k], !.tally = clusters[k].tally]]
  /\ UNCHANGED <<reports, clusters, cases, lock, aborts>>

DecidePromote(w) ==
  LET r == req[w] IN
  /\ r.pc = "decide" /\ r.kind = "promote" /\ Unused # {}
  /\ req' = [req EXCEPT ![w] =
       [r EXCEPT !.pc = "lock", !.outcome = "create", !.case = FreshCase,
                 !.members = Takeover(r), !.turned = ToTurn(Takeover(r))]]
  /\ UNCHANGED <<reports, clusters, cases, lock, aborts>>

\* The transactions that have written, and so locked, the row of report r.
Holds(v, r) == req[v].kind = "reject" /\ r \in req[v].turned

\* The recount of reject_report, after the flush of the rejected report.
TallyWithout(k, r) == TallyOf(Standing(k) \ { r })

\* reject_report: the report is written first, if it was not rejected before,
\* then the cluster and its case are read and recounted without it.
RejectReport(w, r) ==
  LET k == reports[r].cluster
      c == clusters[k].case
  IN
  /\ req[w].pc = "idle"
  /\ reports[r].status # "absent"
  /\ \A v \in Workers : ~ Holds(v, r)
  /\ req' = [req EXCEPT ![w] =
       [Idle EXCEPT !.pc = "lock", !.kind = "reject", !.report = r, !.k = k,
                    !.loaded = clusters[k], !.tally = TallyWithout(k, r),
                    !.outcome = IF c = Null THEN "none" ELSE "attach",
                    !.case = c,
                    !.turned = IF reports[r].status = "rejected" THEN {} ELSE { r },
                    !.caseTally = IF c = Null THEN Zero ELSE cases[c].tally]]
  /\ UNCHANGED <<reports, clusters, cases, lock, aborts>>

FinishRoom == Cardinality({ c \in CaseIds : cases[c].status = "finished" }) < MaxFinished

\* transition() to closed or dismissed, both "finished" here: the case and its
\* cluster leave the map together (module CaseLifecycle has the details).
FinishCase(w, c) ==
  LET k == cases[c].cluster IN
  /\ req[w].pc = "idle"
  /\ cases[c].status = "unfinished" /\ FinishRoom
  /\ lock[k] = Null
  /\ cases' = [cases EXCEPT ![c].status = "finished"]
  /\ clusters' = [clusters EXCEPT ![k].status = "finished"]
  /\ UNCHANGED <<reports, req, lock, aborts>>

-----------------------------------------------------------------------------
(* The end of a transaction *)

\* The row of a member may be locked by the transaction that is rejecting it.
WaitsForReport(w, v) ==
  v # w /\ req[w].outcome = "create" /\ \E m \in req[w].members : Holds(v, m)

ReportsAfter(t) ==
  [r \in Reports |->
     CASE t.kind = "reject" /\ r \in t.turned -> [reports[r] EXCEPT !.status = "rejected"]
       [] t.kind = "intake" /\ r = t.report ->
            [ status |-> IF t.outcome = "none" THEN "clustered" ELSE "promoted",
              cluster |-> t.k, case |-> t.case ]
       [] t.kind # "reject" /\ r # t.report /\ r \in t.members ->
            [reports[r] EXCEPT !.case = t.case,
                               !.status = IF r \in t.turned THEN "promoted" ELSE @]
       [] OTHER -> reports[r]]

ClusterAfter_slip1(t) ==
  LET cur == IF clusters[t.k].status = "absent" THEN t.loaded ELSE clusters[t.k]
  IN  [ status |-> cur.status,
        case   |-> IF t.outcome = "create" THEN t.case ELSE cur.case,
        tally  |-> Written(t.loaded.tally, t.tally, cur.tally) ]

\* Slip: the cluster takes the word the case has for its status.
ClusterAfter_slip2(t) ==
  LET cur == IF clusters[t.k].status = "absent" THEN t.loaded ELSE clusters[t.k]
  IN  [ status |-> IF t.outcome = "none" THEN cur.status ELSE cases[t.case].status,
        case   |-> IF t.outcome = "create" THEN t.case ELSE cur.case,
        tally  |-> Written(t.loaded.tally, t.tally, cur.tally) ]

ClusterAfter(t) ==
  LET cur == IF clusters[t.k].status = "absent" THEN t.loaded ELSE clusters[t.k]
  IN  [ status |-> IF t.outcome = "create" THEN "promoted" ELSE cur.status,
        case   |-> IF t.outcome = "create" THEN t.case ELSE cur.case,
        tally  |-> Written(t.loaded.tally, t.tally, cur.tally) ]

CasesAfter(t) ==
  CASE t.outcome = "none"   -> cases
    [] t.outcome = "create" ->
         [cases EXCEPT ![t.case] =
            [ status |-> "unfinished", cluster |-> t.k, tally |-> t.tally,
              trigger |-> IF t.kind = "promote" THEN "manual" ELSE "threshold" ]]
    [] t.outcome = "attach" ->
         [cases EXCEPT ![t.case].tally = Written(t.caseTally, t.tally, @)]

Released(w) == [k \in Clusters |-> IF lock[k] = w THEN Null ELSE lock[k]]

Commit(w) ==
  LET t == req[w] IN
  /\ t.pc = "commit"
  /\ \A v \in Workers : ~ WaitsForReport(w, v)
  /\ reports' = ReportsAfter(t)
  /\ clusters' = [clusters EXCEPT ![t.k] = ClusterAfter(t)]
  /\ cases' = CasesAfter(t)
  /\ lock' = Released(w)
  /\ req' = [req EXCEPT ![w] = Idle]
  /\ UNCHANGED aborts

Rollback(w) ==
  /\ lock' = Released(w)
  /\ req' = [req EXCEPT ![w] = Idle]
  /\ UNCHANGED <<reports, clusters, cases>>

\* The process or its connection dies; the citizen or officer may try again.
Abort(w) ==
  /\ req[w].pc # "idle"
  /\ aborts < MaxAborts
  /\ aborts' = aborts + 1
  /\ Rollback(w)

WaitsForCluster(w, v) == req[w].pc = "lock" /\ lock[req[w].k] = v

\* PostgreSQL ends a cycle of waiting transactions by failing one of them.
DeadlockVictim(w) ==
  /\ \E v \in Workers :
       \/ WaitsForCluster(w, v) /\ req[v].pc = "commit" /\ WaitsForReport(v, w)
       \/ WaitsForCluster(v, w) /\ req[w].pc = "commit" /\ WaitsForReport(w, v)
  /\ Rollback(w)
  /\ UNCHANGED aborts

-----------------------------------------------------------------------------
(* The specification *)

Begin(w) ==
  \/ \E r \in Reports : SubmitReport(w, r) \/ RejectReport(w, r)
  \/ \E k \in Clusters : PromoteCluster(w, k)
  \/ \E c \in CaseIds : FinishCase(w, c)

Proceed(w) == Recount(w) \/ DecideIntake(w) \/ DecidePromote(w)

Next == \E w \in Workers :
  Begin(w) \/ Proceed(w) \/ LockCluster(w) \/ Commit(w) \/ DeadlockVictim(w) \/ Abort(w)

Spec == Init /\ [][Next]_vars

\* A request runs on by itself; PostgreSQL grants a row lock in the order it
\* was asked for, so a waiting write is not overtaken for ever, and resolves
\* deadlocks after deadlock_timeout.
Fairness ==
  \A w \in Workers : /\ WF_vars(Proceed(w))
                     /\ SF_vars(LockCluster(w))
                     /\ SF_vars(Commit(w))
                     /\ WF_vars(DeadlockVictim(w))

FairSpec == Spec /\ Fairness

-----------------------------------------------------------------------------
(* What holds however many requests overlap *)

\* Every variable has its type (the columns of db/models.py).
TypeOK ==
  /\ reports \in [Reports -> ReportRow]
  /\ clusters \in [Clusters -> ClusterRow]
  /\ cases \in [CaseIds -> CaseRow]
  /\ req \in [Workers -> Transaction]
  /\ lock \in [Clusters -> Workers \cup { Null }]
  /\ aborts \in Nat

\* A cluster carries a case exactly when it is no longer collecting reports,
\* and that case was created from it: the map never shows a promoted spot
\* without a case, nor a case behind an open spot.
CaseIffPromoted ==
  \A k \in Clusters :
    /\ clusters[k].case # Null <=> clusters[k].status \notin { "absent", "open" }
    /\ clusters[k].case # Null => cases[clusters[k].case].cluster = k

\* A report that belongs to a case says so in its status, and the case is one
\* of its own cluster, whichever promotion took it over last.
LinkedReports ==
  \A r \in Reports :
    /\ reports[r].status = "clustered" => reports[r].case = Null
    /\ reports[r].status = "promoted" => reports[r].case # Null
    /\ reports[r].case # Null => cases[reports[r].case].cluster = reports[r].cluster

\* No request hangs: intake, promotion and rejection lock the same rows in
\* different orders, and each still ends, by commit or by rollback.
IntakeEnds == \A w \in Workers : req[w].pc # "idle" ~> req[w].pc = "idle"

-----------------------------------------------------------------------------
(* What holds when the requests of a spot do not overlap *)

Quiet == \A w \in Workers : req[w].pc = "idle"

Exists(c) == cases[c].status # "absent"

\* "promoted to an IncidentCase exactly once" (cluster_service.py): no two
\* cases come from one cluster.
OneCasePerCluster ==
  \A c, d \in CaseIds :
    Exists(c) /\ Exists(d) /\ cases[c].cluster = cases[d].cluster => c = d

\* "When a cluster reaches required_unique_reporters it is promoted": between
\* requests no open cluster holds enough distinct reporters.
ThresholdHonoured ==
  Quiet => \A k \in Clusters :
             clusters[k].status = "open" => UniqueReporters(Standing(k)) < Required

\* The counts officers and citizens see, of the cluster and of its case, are
\* those of the reports that stand, also after rejections.
TalliesMatch ==
  \A k \in Clusters :
    /\ clusters[k].tally = TallyOf(Standing(k))
    /\ clusters[k].case # Null => cases[clusters[k].case].tally = clusters[k].tally

\* No report is left behind: each that stands belongs to the case of its
\* cluster as soon as there is one.
ReportsFollowCluster ==
  \A r \in Reports :
    reports[r].status \in { "clustered", "promoted" } =>
      reports[r].case = clusters[reports[r].cluster].case

\* Cluster, case and reports agree on who is counted where.
BooksBalance == TalliesMatch /\ ReportsFollowCluster

\* "marks a report as not credible" (report_service.reject_report): a rejected
\* report never counts again.
RejectedStays ==
  [][\A r \in Reports :
       reports[r].status = "rejected" => reports'[r].status = "rejected"]_reports

\* A new report is never swallowed by a spot that was already dealt with: the
\* case it is attached to is one officers still work on.
NewReportOnMap ==
  [][\A r \in Reports :
       reports[r].status = "absent" /\ reports'[r].status = "promoted" =>
         cases'[reports'[r].case].status = "unfinished"]_reports

\* A threshold case starts with as many distinct standing reporters as the
\* policy requires, the same person sending twice counted once.
ThresholdBacked ==
  [][\A c \in CaseIds :
       ~ Exists(c) /\ cases'[c].trigger = "threshold" =>
         UniqueReporters({ r \in Reports :
           reports'[r].case = c /\ reports'[r].status # "rejected" }) >= Required]_cases
=============================================================================
