------------------------ MODULE ReportIntake_proofs ------------------------
(***************************************************************************)
(* Proofs about ReportIntake, for every set of reports, keys and workers   *)
(* and every bound, however the requests overlap: the map never shows a    *)
(* promoted spot without its case, and no report is linked to the case of  *)
(* another spot.                                                           *)
(***************************************************************************)
EXTENDS ReportIntake, FiniteSetTheorems, TLAPS

-----------------------------------------------------------------------------
(* The inductive invariant *)

\* A report that was committed lies in a cluster; one that was not has nothing.
ReportsPlaced ==
  \A r \in Reports :
    IF reports[r].status = "absent" THEN reports[r].cluster = Null /\ reports[r].case = Null
    ELSE reports[r].cluster # Null

\* A case that was committed came from a cluster, and that cluster has a case.
CasesPlaced ==
  \A c \in CaseIds :
    IF cases[c].status = "absent" THEN cases[c].cluster = Null
    ELSE cases[c].cluster # Null /\ clusters[cases[c].cluster].case # Null

\* A request in progress is about a cluster.  If the row it loaded has a case,
\* it is one of that cluster.
LoadedSound(t) ==
  /\ t.pc # "idle" => t.k # Null
  /\ t.loaded.case # Null <=> t.loaded.status \notin { "absent", "open" }
  /\ t.loaded.case # Null => t.k # Null /\ cases[t.loaded.case].cluster = t.k

\* The report of an intake is not committed yet, the one a rejection writes is.
ReportInHand(t) ==
  /\ t.pc = "recount" => t.kind = "intake"
  /\ t.kind = "intake" => t.report # Null /\ reports[t.report].status = "absent"
  /\ t.kind = "reject" => \A m \in t.turned : reports[m].status # "absent"

\* The case a request attaches to is one of its cluster; the one it creates is
\* not committed.
CaseInHand(t) ==
  /\ t.outcome = "none" => t.case = Null
  /\ t.outcome = "attach" => t.case # Null /\ t.k # Null /\ cases[t.case].cluster = t.k
  /\ t.outcome = "create" => t.case # Null /\ t.kind # "reject" /\ cases[t.case].cluster = Null

\* The reports a request links, beside its own, are committed ones of its
\* cluster, and those whose status it leaves alone already belong to a case.
MembersSound(t) ==
  \A m \in t.members :
    m # t.report => /\ t.outcome = "create"
                    /\ reports[m].status # "absent" /\ reports[m].cluster = t.k
                    /\ m \notin t.turned => reports[m].status # "clustered"

RequestSound(t) == LoadedSound(t) /\ ReportInHand(t) /\ CaseInHand(t) /\ MembersSound(t)

\* Two requests are about to insert the same report or the same case.
Clash(t, u) ==
  \/ t.kind = "intake" /\ t.report = u.report
  \/ t.outcome = "create" /\ u.outcome = "create" /\ t.case = u.case

RequestsSound ==
  /\ \A w \in Workers : RequestSound(req[w])
  /\ \A v, w \in Workers : v # w => ~ Clash(req[v], req[w])

IInv == /\ TypeOK /\ CaseIffPromoted /\ LinkedReports
        /\ ReportsPlaced /\ CasesPlaced /\ RequestsSound

-----------------------------------------------------------------------------
(* Types *)

\* What a rejection and a creation make of a request.
Rejecting(r, k, row, tally, outcome, c, turned, caseTally) ==
  [Idle EXCEPT !.pc = "lock", !.kind = "reject", !.report = r, !.k = k, !.loaded = row,
               !.tally = tally, !.outcome = outcome, !.case = c, !.turned = turned,
               !.caseTally = caseTally]

LEMMA RejectTyped ==
  ASSUME NEW r \in Reports, NEW k \in Clusters, NEW row \in ClusterRow, NEW tally \in Tally,
         NEW outcome \in { "none", "attach" }, NEW c \in CaseIds \cup { Null },
         NEW turned \in SUBSET Reports, NEW caseTally \in Tally
  PROVE  Rejecting(r, k, row, tally, outcome, c, turned, caseTally) \in Transaction
BY DEF Rejecting, Idle, Transaction

LEMMA CreateTyped ==
  ASSUME NEW x \in Transaction, NEW pc \in { "lock", "commit" }, NEW c \in CaseIds,
         NEW M \in SUBSET Reports, NEW T \in SUBSET Reports
  PROVE  [x EXCEPT !.pc = pc, !.outcome = "create", !.case = c, !.members = M, !.turned = T]
           \in Transaction
BY DEF Transaction

LEMMA IdleTyped == Idle \in Transaction
BY DEF Idle, Transaction, NoCluster, ClusterRow, Zero, Tally

\* No case has the name Null, nor has any cluster.
LEMMA NullApart == Null \notin CaseIds /\ Null \notin Clusters /\ Null \notin Workers
BY NullAssumption, BoundsAssumption DEF CaseIds, Clusters

\* Counting reports and the people behind them gives a tally.
LEMMA TallyTyped == ASSUME NEW S \in SUBSET Reports PROVE TallyOf(S) \in Tally
<1> DEFINE Of == { KeyOf[r] : r \in S }
           Sender == [r \in S |-> KeyOf[r]]
           Anonymous == { r \in S : KeyOf[r] = Null }
<1>1. IsFiniteSet(S) /\ Cardinality(S) \in Nat
  BY FiniteAssumption, FS_Subset, FS_CardinalityType
<1>2. Sender \in Surjection(S, Of)
  BY DEF Surjection
<1> HIDE DEF Sender, Of
<1>3. IsFiniteSet(Of)
  BY <1>1, <1>2, FS_Surjection
<1>4. Of \ { Null } \in SUBSET Of /\ Anonymous \in SUBSET S
  OBVIOUS
<1> HIDE DEF Anonymous
<1>5. Cardinality(Of \ { Null }) \in Nat
  BY <1>3, <1>4, FS_Subset, FS_CardinalityType
<1>6. Cardinality(Anonymous) \in Nat
  BY <1>1, <1>4, FS_Subset, FS_CardinalityType
<1>7. UniqueReporters(S) \in Nat
  BY <1>5, <1>6 DEF UniqueReporters, Of, Anonymous
<1> QED BY <1>1, <1>7 DEF TallyOf, Tally

\* An UPDATE that names the changed columns writes a tally.
LEMMA WrittenTyped ==
  ASSUME NEW t \in Tally, NEW u \in Tally, NEW v \in Tally
  PROVE  Written(t, u, v) \in Tally
BY DEF Written, Col, Tally

LEMMA StandingTyped == ASSUME NEW k PROVE Standing(k) \in SUBSET Reports
BY DEF Standing

LEMMA StandingCommitted ==
  ASSUME TypeOK, ReportsPlaced, NEW k \in Clusters, NEW m \in Standing(k)
  PROVE  m \in Reports /\ reports[m].status # "absent" /\ reports[m].cluster = k
BY NullApart DEF Standing, TypeOK, ReportRow, ReportsPlaced

LEMMA FreshCaseUnused ==
  ASSUME Unused # {}
  PROVE  FreshCase \in CaseIds /\ cases[FreshCase].status = "absent"
         /\ \A v \in Workers : req[v].case # FreshCase
<1>1. FreshCase \in Unused
  BY DEF FreshCase
<1> QED BY <1>1 DEF Unused

-----------------------------------------------------------------------------
(* Steps that only change what a request holds *)

\* The request of w becomes q, and the tables keep what requests rely on.
LEMMA Goto ==
  ASSUME IInv, NEW w \in Workers, NEW q \in Transaction,
         req' = [req EXCEPT ![w] = q], UNCHANGED <<reports, clusters, cases>>,
         RequestSound(q),
         \A v \in Workers \ { w } : ~ Clash(q, req[v]) /\ ~ Clash(req[v], q)
  PROVE  /\ req' \in [Workers -> Transaction] /\ RequestsSound'
         /\ CaseIffPromoted' /\ LinkedReports' /\ ReportsPlaced' /\ CasesPlaced'
<1>1. /\ req' \in [Workers -> Transaction]
      /\ \A v \in Workers : req'[v] = IF v = w THEN q ELSE req[v]
  BY DEF IInv, TypeOK
<1>2. ASSUME NEW v \in Workers PROVE RequestSound(req[v])'
  <2>1. RequestSound(req'[v])
    BY <1>1 DEF IInv, RequestsSound
  <2> QED
    BY <2>1 DEF RequestSound, LoadedSound, ReportInHand, CaseInHand, MembersSound
<1>3. \A v \in Workers : RequestSound(req[v])'
  BY <1>2
<1>4. \A u, v \in Workers : u # v => ~ Clash(req'[u], req'[v])
  BY <1>1 DEF IInv, RequestsSound
<1>5. RequestsSound'
  BY <1>3, <1>4 DEF RequestsSound, Clash
<1> QED
  BY <1>1, <1>5 DEF IInv, CaseIffPromoted, LinkedReports, ReportsPlaced, CasesPlaced

\* The locks and the count of aborts have their types.
Rest == lock \in [Clusters -> Workers \cup { Null }] /\ aborts \in Nat

\* With typed locks, that is all of the invariant.
LEMMA Gone ==
  ASSUME IInv, NEW w \in Workers, NEW q \in Transaction,
         req' = [req EXCEPT ![w] = q], UNCHANGED <<reports, clusters, cases>>,
         RequestSound(q), Rest',
         \A v \in Workers \ { w } : ~ Clash(q, req[v]) /\ ~ Clash(req[v], q)
  PROVE  IInv'
<1>1. TypeOK'
  BY Goto DEF IInv, TypeOK, Rest
<1> QED BY <1>1, Goto DEF IInv

LEMMA IdleSound == RequestSound(Idle) /\ \A t : ~ Clash(Idle, t)
BY DEF RequestSound, LoadedSound, ReportInHand, CaseInHand, MembersSound, Clash, Idle, NoCluster

\* No request is about to insert a report that is Null, or is done with.
LEMMA IdleNoClash ==
  ASSUME IInv, NEW v \in Workers PROVE ~ Clash(req[v], Idle)
BY DEF IInv, RequestsSound, RequestSound, ReportInHand, Clash, Idle

\* A row of clusters satisfies what a request asks of the row it loaded.
LEMMA ClusterLoaded ==
  ASSUME IInv, NEW k \in Clusters
  PROVE  /\ clusters[k] \in ClusterRow
         /\ clusters[k].case # Null <=> clusters[k].status \notin { "absent", "open" }
         /\ clusters[k].case # Null => clusters[k].case \in CaseIds /\ cases[clusters[k].case].cluster = k
BY DEF IInv, TypeOK, CaseIffPromoted, ClusterRow

LEMMA SubmitKeeps ==
  ASSUME IInv, NEW w \in Workers, NEW r \in Reports, SubmitReport(w, r) PROVE IInv'
<1> PICK k \in OpenCandidates \cup { r } :
      req' = [req EXCEPT ![w] =
         [Idle EXCEPT !.pc = "recount", !.kind = "intake", !.report = r, !.k = k,
                      !.loaded = IF k = r THEN [NoCluster EXCEPT !.status = "open"]
                                 ELSE clusters[k]]]
  BY DEF SubmitReport
<1> DEFINE row == IF k = r THEN [NoCluster EXCEPT !.status = "open"] ELSE clusters[k]
           q == [Idle EXCEPT !.pc = "recount", !.kind = "intake", !.report = r, !.k = k,
                             !.loaded = row]
<1>1. k \in Clusters /\ k # Null /\ r # Null
  BY NullAssumption DEF OpenCandidates, Clusters
<1>2. row \in ClusterRow /\ (row.case # Null <=> row.status \notin { "absent", "open" })
      /\ (row.case # Null => cases[row.case].cluster = k)
  <2>1. CASE k = r
    BY <2>1 DEF NoCluster, ClusterRow, Zero, Tally
  <2>2. CASE k # r
    BY <2>2, <1>1, ClusterLoaded
  <2> QED BY <2>1, <2>2
<1> HIDE DEF row
<1>3. q \in Transaction /\ q.pc = "recount" /\ q.kind = "intake" /\ q.report = r /\ q.k = k
      /\ q.loaded = row /\ q.outcome = "none" /\ q.case = Null /\ q.members = {} /\ q.turned = {}
  BY <1>1, <1>2 DEF Idle, Transaction, Zero, Tally
<1>4. req' = [req EXCEPT ![w] = q] /\ UNCHANGED <<reports, clusters, cases>> /\ Rest'
  BY DEF row, SubmitReport, IInv, TypeOK, Rest
<1> HIDE DEF q
<1>5. reports[r].status = "absent" /\ \A v \in Workers : req[v].report # r
  BY DEF SubmitReport
<1>6. RequestSound(q)
  BY <1>1, <1>2, <1>3, <1>5
  DEF RequestSound, LoadedSound, ReportInHand, CaseInHand, MembersSound
<1>7. \A v \in Workers \ { w } : ~ Clash(q, req[v]) /\ ~ Clash(req[v], q)
  BY <1>3, <1>5 DEF Clash
<1> QED BY <1>3, <1>4, <1>6, <1>7, Gone

\* A request that changes its place and its tally, and keeps the rest.
LEMMA StepKeeps ==
  ASSUME IInv, NEW w \in Workers, NEW q \in Transaction,
         req[w].pc # "idle", q.pc # "recount",
         q.kind = req[w].kind, q.report = req[w].report, q.k = req[w].k,
         q.loaded = req[w].loaded, q.outcome = req[w].outcome, q.case = req[w].case,
         q.members = req[w].members, q.turned = req[w].turned,
         req' = [req EXCEPT ![w] = q], UNCHANGED <<reports, clusters, cases>>, Rest'
  PROVE  IInv'
<1>1. RequestSound(req[w])
  BY DEF IInv, RequestsSound
<1>2. RequestSound(q)
  BY <1>1 DEF RequestSound, LoadedSound, ReportInHand, CaseInHand, MembersSound
<1>3. \A v \in Workers \ { w } : ~ Clash(q, req[v]) /\ ~ Clash(req[v], q)
  BY DEF Clash, IInv, RequestsSound
<1> QED BY <1>2, <1>3, Gone

LEMMA RecountKeeps == ASSUME IInv, NEW w \in Workers, Recount(w) PROVE IInv'
<1> PICK tally : tally = TallyOf(Standing(req[w].k) \cup { req[w].report })
  OBVIOUS
<1> DEFINE q == [req[w] EXCEPT !.pc = "lock", !.tally = tally]
<1>1. req[w] \in Transaction /\ RequestSound(req[w]) /\ req[w].pc = "recount"
  BY DEF IInv, TypeOK, RequestsSound, Recount
<1>2. req[w].report \in Reports
  BY <1>1 DEF RequestSound, ReportInHand, Transaction
<1>3. tally \in Tally
  BY <1>2, TallyTyped, StandingTyped
<1>4. /\ q \in Transaction /\ q.pc = "lock" /\ q.kind = req[w].kind /\ q.report = req[w].report
      /\ q.k = req[w].k /\ q.loaded = req[w].loaded /\ q.outcome = req[w].outcome
      /\ q.case = req[w].case /\ q.members = req[w].members /\ q.turned = req[w].turned
  BY <1>1, <1>3 DEF Transaction
<1>5. req' = [req EXCEPT ![w] = q] /\ UNCHANGED <<reports, clusters, cases>> /\ Rest'
  BY DEF Recount, IInv, TypeOK, Rest
<1> HIDE DEF q
<1> QED BY <1>1, <1>4, <1>5, StepKeeps

LEMMA LockKeeps == ASSUME IInv, NEW w \in Workers, LockCluster(w) PROVE IInv'
<1> PICK pc \in { "decide", "commit" } : req' = [req EXCEPT ![w].pc = pc]
  BY DEF LockCluster
<1> DEFINE q == [req[w] EXCEPT !.pc = pc]
<1>1. req[w] \in Transaction /\ req[w].pc # "idle"
  BY DEF IInv, TypeOK, LockCluster
<1>2. /\ q \in Transaction /\ q.pc = pc /\ q.kind = req[w].kind /\ q.report = req[w].report
      /\ q.k = req[w].k /\ q.loaded = req[w].loaded /\ q.outcome = req[w].outcome
      /\ q.case = req[w].case /\ q.members = req[w].members /\ q.turned = req[w].turned
  BY <1>1 DEF Transaction
<1>3. req' = [req EXCEPT ![w] = q] /\ UNCHANGED <<reports, clusters, cases>>
  BY DEF LockCluster, IInv, TypeOK
<1>4. Rest'
  BY DEF LockCluster, IInv, TypeOK, Rest
<1> HIDE DEF q
<1> QED BY <1>1, <1>2, <1>3, <1>4, StepKeeps

\* What a request takes over when it creates a case.
LEMMA TakeoverSound ==
  ASSUME IInv, NEW w \in Workers, req[w].pc # "idle"
  PROVE  /\ Takeover(req[w]) \in SUBSET Reports /\ ToTurn(Takeover(req[w])) \in SUBSET Reports
         /\ \A m \in Takeover(req[w]) :
              m # req[w].report =>
                /\ reports[m].status # "absent" /\ reports[m].cluster = req[w].k
                /\ m \notin ToTurn(Takeover(req[w])) => reports[m].status # "clustered"
<1>1. req[w] \in Transaction /\ LoadedSound(req[w]) /\ TypeOK /\ ReportsPlaced
  BY DEF IInv, TypeOK, RequestsSound, RequestSound
<1>2. req[w].k \in Clusters /\ req[w].report \in Reports \cup { Null }
  BY <1>1 DEF LoadedSound, Transaction
<1>3. Takeover(req[w]) \in SUBSET Reports
  BY <1>2, StandingTyped DEF Takeover
<1>4. \A m \in Takeover(req[w]) : m # req[w].report => m \in Standing(req[w].k)
  BY DEF Takeover
<1> QED BY <1>1, <1>2, <1>3, <1>4, StandingCommitted DEF ToTurn

\* A decision to create a case.
LEMMA CreateKeeps ==
  ASSUME IInv, NEW w \in Workers, NEW pc \in { "lock", "commit" },
         req[w].pc = "decide", req[w].kind # "reject", Unused # {},
         req' = [req EXCEPT ![w] =
           [req[w] EXCEPT !.pc = pc, !.outcome = "create", !.case = FreshCase,
                          !.members = Takeover(req[w]), !.turned = ToTurn(Takeover(req[w]))]],
         UNCHANGED <<reports, clusters, cases, lock, aborts>>
  PROVE  IInv'
<1> PICK c, M, T : c = FreshCase /\ M = Takeover(req[w]) /\ T = ToTurn(Takeover(req[w]))
  OBVIOUS
<1> DEFINE q == [req[w] EXCEPT !.pc = pc, !.outcome = "create", !.case = c,
                               !.members = M, !.turned = T]
<1>1. req[w] \in Transaction /\ RequestSound(req[w])
  BY DEF IInv, TypeOK, RequestsSound
<1>2. c \in CaseIds /\ c # Null /\ cases[c].cluster = Null
  BY FreshCaseUnused, NullApart DEF IInv, CasesPlaced
<1>3. \A v \in Workers : req[v].case # c
  BY FreshCaseUnused
<1>4. /\ M \in SUBSET Reports /\ T \in SUBSET Reports
      /\ \A m \in M : m # req[w].report =>
            /\ reports[m].status # "absent" /\ reports[m].cluster = req[w].k
            /\ m \notin T => reports[m].status # "clustered"
  BY TakeoverSound
<1>5. /\ q \in Transaction /\ q.pc = pc /\ q.kind = req[w].kind /\ q.report = req[w].report
      /\ q.k = req[w].k /\ q.loaded = req[w].loaded /\ q.outcome = "create"
      /\ q.case = c /\ q.members = M /\ q.turned = T
  <2>1. M \in SUBSET Reports /\ T \in SUBSET Reports /\ req[w] \in Transaction
    BY <1>1, <1>4
  <2>2. c \in CaseIds
    BY <1>2
  <2>3. q \in Transaction
    BY <2>1, <2>2, CreateTyped
  <2> QED BY <2>1, <2>3 DEF Transaction
<1>6. req' = [req EXCEPT ![w] = q] /\ UNCHANGED <<reports, clusters, cases>> /\ Rest'
  BY DEF IInv, TypeOK, Rest
<1> HIDE DEF q
<1>7. RequestSound(q)
  BY <1>1, <1>2, <1>4, <1>5
  DEF RequestSound, LoadedSound, ReportInHand, CaseInHand, MembersSound
<1>8. \A v \in Workers \ { w } : ~ Clash(q, req[v]) /\ ~ Clash(req[v], q)
  BY <1>3, <1>5 DEF Clash, IInv, RequestsSound
<1> QED BY <1>5, <1>6, <1>7, <1>8, Gone

\* A decision to attach the report.
LEMMA AttachKeeps ==
  ASSUME IInv, NEW w \in Workers, DecideIntake(w), req[w].loaded.case # Null PROVE IInv'
<1> PICK c, tally : c = req[w].loaded.case /\ tally = cases[c].tally
  OBVIOUS
<1> DEFINE q == [req[w] EXCEPT !.pc = "commit", !.outcome = "attach", !.case = c,
                               !.caseTally = tally,
                               !.members = { req[w].report }, !.turned = { req[w].report }]
<1>1. req[w] \in Transaction /\ RequestSound(req[w]) /\ req[w].kind = "intake"
  BY DEF IInv, TypeOK, RequestsSound, DecideIntake
<1>2. req[w].report \in Reports /\ c \in CaseIds /\ req[w].k # Null /\ cases[c].cluster = req[w].k
  BY <1>1 DEF RequestSound, ReportInHand, LoadedSound, Transaction, ClusterRow
<1>3. tally \in Tally
  BY <1>2 DEF IInv, TypeOK, CaseRow
<1>4. /\ q \in Transaction /\ q.pc = "commit" /\ q.kind = req[w].kind /\ q.report = req[w].report
      /\ q.k = req[w].k /\ q.loaded = req[w].loaded /\ q.outcome = "attach"
      /\ q.case = c /\ q.members = { req[w].report } /\ q.turned = { req[w].report }
  BY <1>1, <1>2, <1>3 DEF Transaction
<1>5. req' = [req EXCEPT ![w] = q] /\ UNCHANGED <<reports, clusters, cases>> /\ Rest'
  BY DEF DecideIntake, IInv, TypeOK, Rest
<1> HIDE DEF q
<1>6. RequestSound(q)
  BY <1>1, <1>2, <1>4
  DEF RequestSound, LoadedSound, ReportInHand, CaseInHand, MembersSound
<1>7. \A v \in Workers \ { w } : ~ Clash(q, req[v]) /\ ~ Clash(req[v], q)
  BY <1>4 DEF Clash, IInv, RequestsSound
<1> QED BY <1>4, <1>5, <1>6, <1>7, Gone

LEMMA DecideIntakeKeeps == ASSUME IInv, NEW w \in Workers, DecideIntake(w) PROVE IInv'
<1>1. CASE req[w].loaded.case # Null
  BY <1>1, AttachKeeps
<1>2. CASE req[w].loaded.case = Null /\ Reached(req[w].tally)
  BY <1>2, CreateKeeps DEF DecideIntake
<1>3. CASE req[w].loaded.case = Null /\ ~ Reached(req[w].tally)
  <2> DEFINE q == [req[w] EXCEPT !.pc = "commit"]
  <2>1. req[w] \in Transaction /\ req[w].pc # "idle"
    BY DEF IInv, TypeOK, DecideIntake
  <2>2. /\ q \in Transaction /\ q.pc = "commit" /\ q.kind = req[w].kind
        /\ q.report = req[w].report /\ q.k = req[w].k /\ q.loaded = req[w].loaded
        /\ q.outcome = req[w].outcome /\ q.case = req[w].case
        /\ q.members = req[w].members /\ q.turned = req[w].turned
    BY <2>1 DEF Transaction
  <2>3. req' = [req EXCEPT ![w] = q] /\ UNCHANGED <<reports, clusters, cases>> /\ Rest'
    BY <1>3 DEF DecideIntake, IInv, TypeOK, Rest
  <2> HIDE DEF q
  <2> QED BY <2>1, <2>2, <2>3, StepKeeps
<1> QED BY <1>1, <1>2, <1>3

LEMMA DecidePromoteKeeps == ASSUME IInv, NEW w \in Workers, DecidePromote(w) PROVE IInv'
BY CreateKeeps DEF DecidePromote

LEMMA PromoteKeeps ==
  ASSUME IInv, NEW w \in Workers, NEW k \in Clusters, PromoteCluster(w, k) PROVE IInv'
<1> PICK row : row = clusters[k]
  OBVIOUS
<1> DEFINE q == [Idle EXCEPT !.pc = "decide", !.kind = "promote", !.k = k,
                             !.loaded = row, !.tally = row.tally]
<1>1. k # Null /\ row \in ClusterRow /\ (row.case # Null <=> row.status \notin { "absent", "open" })
      /\ (row.case # Null => cases[row.case].cluster = k)
  BY ClusterLoaded, NullApart
<1>2. /\ q \in Transaction /\ q.pc = "decide" /\ q.kind = "promote" /\ q.report = Null
      /\ q.k = k /\ q.loaded = row /\ q.outcome = "none"
      /\ q.case = Null /\ q.members = {} /\ q.turned = {}
  BY <1>1 DEF Idle, Transaction, Zero, Tally, ClusterRow
<1>3. req' = [req EXCEPT ![w] = q] /\ UNCHANGED <<reports, clusters, cases>> /\ Rest'
  BY DEF PromoteCluster, IInv, TypeOK, Rest
<1> HIDE DEF q
<1>4. RequestSound(q)
  BY <1>1, <1>2 DEF RequestSound, LoadedSound, ReportInHand, CaseInHand, MembersSound
<1>5. \A v \in Workers \ { w } : ~ Clash(q, req[v]) /\ ~ Clash(req[v], q)
  BY <1>2 DEF Clash, IInv, RequestsSound, RequestSound, ReportInHand
<1> QED BY <1>2, <1>3, <1>4, <1>5, Gone

LEMMA RejectKeeps ==
  ASSUME IInv, NEW w \in Workers, NEW r \in Reports, RejectReport(w, r) PROVE IInv'
<1> PICK k, row, c, tally, outcome, turned, caseTally :
      /\ k = reports[r].cluster /\ row = clusters[k] /\ c = row.case
      /\ tally = TallyWithout(k, r)
      /\ turned = IF reports[r].status = "rejected" THEN {} ELSE { r }
      /\ outcome = IF c = Null THEN "none" ELSE "attach"
      /\ caseTally = IF c = Null THEN Zero ELSE cases[c].tally
  OBVIOUS
<1> DEFINE q == [Idle EXCEPT !.pc = "lock", !.kind = "reject", !.report = r, !.k = k,
                    !.loaded = row, !.tally = tally,
                    !.outcome = outcome,
                    !.case = c, !.turned = turned, !.caseTally = caseTally]
<1>1. reports[r].status # "absent" /\ k \in Clusters /\ k # Null
  BY NullApart DEF RejectReport, IInv, ReportsPlaced, TypeOK, ReportRow
<1>2. row \in ClusterRow /\ (row.case # Null <=> row.status \notin { "absent", "open" })
      /\ (c # Null => c \in CaseIds /\ cases[c].cluster = k)
  BY <1>1, ClusterLoaded
<1>3. tally \in Tally
  BY TallyTyped, StandingTyped DEF TallyWithout
<1>4. /\ caseTally \in Tally /\ turned \in SUBSET { r } /\ turned \in SUBSET Reports
      /\ c \in CaseIds \cup { Null } /\ outcome \in { "none", "attach" }
  BY <1>2 DEF IInv, TypeOK, CaseRow, Zero, Tally
<1>5. /\ q \in Transaction /\ q.pc = "lock" /\ q.kind = "reject" /\ q.report = r
      /\ q.k = k /\ q.loaded = row /\ q.outcome = outcome
      /\ q.case = c /\ q.members = {} /\ q.turned = turned
  <2>1. k \in Clusters /\ row \in ClusterRow
    BY <1>1, <1>2
  <2>2. turned \in SUBSET Reports /\ caseTally \in Tally /\ c \in CaseIds \cup { Null }
        /\ outcome \in { "none", "attach" } /\ tally \in Tally
    BY <1>3, <1>4
  <2>3. Rejecting(r, k, row, tally, outcome, c, turned, caseTally) \in Transaction
    BY <2>1, <2>2, RejectTyped
  <2>4. /\ q.pc = "lock" /\ q.kind = "reject" /\ q.report = r /\ q.k = k /\ q.loaded = row
        /\ q.outcome = outcome /\ q.case = c /\ q.members = {} /\ q.turned = turned
    BY DEF Idle
  <2> QED BY <2>3, <2>4 DEF Rejecting
<1>6. req' = [req EXCEPT ![w] = q] /\ UNCHANGED <<reports, clusters, cases>> /\ Rest'
  BY DEF RejectReport, IInv, TypeOK, Rest
<1> HIDE DEF q
<1>7. RequestSound(q)
  BY <1>1, <1>2, <1>4, <1>5
  DEF RequestSound, LoadedSound, ReportInHand, CaseInHand, MembersSound
<1>8. \A v \in Workers \ { w } : ~ Clash(q, req[v]) /\ ~ Clash(req[v], q)
  BY <1>1, <1>5 DEF Clash, IInv, RequestsSound, RequestSound, ReportInHand
<1> QED BY <1>5, <1>6, <1>7, <1>8, Gone

LEMMA RollbackKeeps ==
  ASSUME IInv, NEW w \in Workers, Rollback(w), aborts' \in Nat PROVE IInv'
<1>1. Rest'
  BY DEF Rollback, Released, IInv, TypeOK, Rest
<1> QED BY <1>1, IdleTyped, IdleSound, IdleNoClash, Gone DEF Rollback

LEMMA FinishKeeps ==
  ASSUME IInv, NEW w \in Workers, NEW c \in CaseIds, FinishCase(w, c) PROVE IInv'
<1> PICK k : k = cases[c].cluster
  OBVIOUS
<1>1. cases[c].status = "unfinished" /\ k \in Clusters /\ clusters[k].case # Null
  BY DEF FinishCase, IInv, CasesPlaced, TypeOK, CaseRow
<1>2. /\ cases' \in [CaseIds -> CaseRow]
      /\ \A d \in CaseIds : /\ cases'[d].cluster = cases[d].cluster
                            /\ cases'[d].status = "absent" <=> cases[d].status = "absent"
  <2>1. cases' = [cases EXCEPT ![c] = [cases[c] EXCEPT !.status = "finished"]]
    BY DEF FinishCase
  <2>2. [cases[c] EXCEPT !.status = "finished"] \in CaseRow
        /\ [cases[c] EXCEPT !.status = "finished"].cluster = cases[c].cluster
        /\ [cases[c] EXCEPT !.status = "finished"].status = "finished"
    BY DEF IInv, TypeOK, CaseRow
  <2> QED BY <1>1, <2>1, <2>2 DEF IInv, TypeOK
<1>3. /\ clusters' \in [Clusters -> ClusterRow]
      /\ \A j \in Clusters :
           /\ clusters'[j].case = clusters[j].case
           /\ clusters'[j].status = IF j = k THEN "finished" ELSE clusters[j].status
  <2>1. clusters' = [clusters EXCEPT ![k] = [clusters[k] EXCEPT !.status = "finished"]]
    BY DEF FinishCase
  <2>2. [clusters[k] EXCEPT !.status = "finished"] \in ClusterRow
        /\ [clusters[k] EXCEPT !.status = "finished"].case = clusters[k].case
        /\ [clusters[k] EXCEPT !.status = "finished"].status = "finished"
    BY <1>1 DEF IInv, TypeOK, ClusterRow
  <2> QED BY <1>1, <2>1, <2>2 DEF IInv, TypeOK
<1>4. TypeOK' /\ UNCHANGED <<reports, req>>
  BY <1>2, <1>3 DEF FinishCase, IInv, TypeOK
<1>5. CaseIffPromoted'
  BY <1>1, <1>2, <1>3 DEF IInv, CaseIffPromoted, TypeOK, ClusterRow
<1>6. LinkedReports' /\ ReportsPlaced'
  BY <1>2, <1>4 DEF IInv, LinkedReports, ReportsPlaced, TypeOK, ReportRow
<1>7. CasesPlaced'
  BY <1>2, <1>3 DEF IInv, CasesPlaced, TypeOK, CaseRow
<1>8. ASSUME NEW v \in Workers PROVE RequestSound(req[v])'
  <2>1. req[v] \in Transaction /\ RequestSound(req[v]) /\ req'[v] = req[v]
    BY <1>4 DEF IInv, RequestsSound, TypeOK
  <2>2. req[v].case \in CaseIds \cup { Null } /\ req[v].loaded.case \in CaseIds \cup { Null }
    BY <2>1 DEF Transaction, ClusterRow
  <2> QED BY <1>2, <1>4, <2>1, <2>2
      DEF RequestSound, LoadedSound, ReportInHand, CaseInHand, MembersSound
<1>9. RequestsSound'
  BY <1>4, <1>8 DEF IInv, RequestsSound, Clash
<1> QED BY <1>4, <1>5, <1>6, <1>7, <1>9 DEF IInv

-----------------------------------------------------------------------------
(* Commit *)

\* What a transaction leaves of a report: the report as it was; rejected; its
\* own, in its cluster and with its case; or one taken over by the case it creates.
LEMMA ReportsWritten ==
  ASSUME IInv, NEW w \in Workers, Commit(w), NEW r \in Reports
  PROVE  LET t == req[w] IN
         /\ reports'[r] \in ReportRow
         /\ \/ reports'[r] = reports[r]
            \/ /\ reports[r].status # "absent" /\ reports'[r].status = "rejected"
               /\ reports'[r].cluster = reports[r].cluster /\ reports'[r].case = reports[r].case
            \/ /\ t.kind = "intake" /\ r = t.report /\ reports[r].status = "absent"
               /\ reports'[r].status = IF t.outcome = "none" THEN "clustered" ELSE "promoted"
               /\ reports'[r].cluster = t.k /\ reports'[r].case = t.case
            \/ /\ t.outcome = "create" /\ reports[r].status # "absent"
               /\ reports'[r].cluster = t.k /\ reports[r].cluster = t.k
               /\ reports'[r].case = t.case /\ reports'[r].status \notin { "absent", "clustered" }
<1> PICK t : t = req[w]
  OBVIOUS
<1>1. t \in Transaction /\ RequestSound(t) /\ t.k # Null
  BY DEF IInv, TypeOK, RequestsSound, RequestSound, LoadedSound, Commit
<1>2. reports[r] \in ReportRow
  BY DEF IInv, TypeOK
<1>3. reports' = ReportsAfter(t)
  BY DEF Commit
<1>4. CASE t.kind = "reject" /\ r \in t.turned
  <2>1. reports'[r] = [reports[r] EXCEPT !.status = "rejected"]
    BY <1>3, <1>4 DEF ReportsAfter
  <2>2. reports[r].status # "absent"
    BY <1>1, <1>4 DEF RequestSound, ReportInHand
  <2>3. reports'[r] \in ReportRow /\ reports'[r].status = "rejected"
        /\ reports'[r].cluster = reports[r].cluster /\ reports'[r].case = reports[r].case
    BY <1>2, <2>1 DEF ReportRow
  <2> QED BY <2>2, <2>3
<1>5. CASE t.kind = "intake" /\ r = t.report
  <2>1. reports'[r] = [ status |-> IF t.outcome = "none" THEN "clustered" ELSE "promoted",
                        cluster |-> t.k, case |-> t.case ]
    BY <1>3, <1>5 DEF ReportsAfter
  <2>2. reports[r].status = "absent"
    BY <1>1, <1>5 DEF RequestSound, ReportInHand
  <2>3. reports'[r] \in ReportRow
    BY <1>1, <2>1 DEF ReportRow, Transaction
  <2> QED BY <1>5, <2>1, <2>2, <2>3
<1>6. CASE t.kind # "reject" /\ r # t.report /\ r \in t.members
  <2>1. reports'[r] = [reports[r] EXCEPT !.case = t.case,
                                         !.status = IF r \in t.turned THEN "promoted" ELSE @]
    BY <1>3, <1>6 DEF ReportsAfter
  <2>2. /\ t.outcome = "create" /\ reports[r].status # "absent" /\ reports[r].cluster = t.k
        /\ r \notin t.turned => reports[r].status # "clustered"
    BY <1>1, <1>6 DEF RequestSound, MembersSound
  <2>3. /\ reports'[r] \in ReportRow /\ reports'[r].case = t.case
        /\ reports'[r].cluster = reports[r].cluster
        /\ reports'[r].status = IF r \in t.turned THEN "promoted" ELSE reports[r].status
    BY <1>1, <1>2, <2>1 DEF ReportRow, Transaction
  <2> QED BY <2>2, <2>3
<1>7. CASE ~ (t.kind = "reject" /\ r \in t.turned) /\ ~ (t.kind = "intake" /\ r = t.report)
           /\ ~ (t.kind # "reject" /\ r # t.report /\ r \in t.members)
  <2>1. reports'[r] = reports[r]
    BY <1>3, <1>7 DEF ReportsAfter
  <2> QED BY <1>2, <2>1
<1> QED BY <1>4, <1>5, <1>6, <1>7

\* What it leaves of the cases: the one it creates has its cluster.
LEMMA CasesWritten ==
  ASSUME IInv, NEW w \in Workers, Commit(w)
  PROVE  LET t == req[w] IN
         /\ cases' \in [CaseIds -> CaseRow]
         /\ \A c \in CaseIds :
              IF t.outcome = "create" /\ c = t.case
              THEN cases'[c].cluster = t.k /\ cases'[c].status = "unfinished"
              ELSE cases'[c].cluster = cases[c].cluster /\ cases'[c].status = cases[c].status
<1> PICK t : t = req[w]
  OBVIOUS
<1>1. t \in Transaction /\ cases \in [CaseIds -> CaseRow] /\ cases' = CasesAfter(t)
  BY DEF IInv, TypeOK, Commit
<1>2. CASE t.outcome = "none"
  BY <1>1, <1>2 DEF CasesAfter
<1>3. CASE t.outcome = "create"
  <2> PICK row : row = [ status |-> "unfinished", cluster |-> t.k, tally |-> t.tally,
                         trigger |-> IF t.kind = "promote" THEN "manual" ELSE "threshold" ]
    OBVIOUS
  <2>1. row \in CaseRow /\ row.cluster = t.k /\ row.status = "unfinished"
    BY <1>1 DEF CaseRow, Transaction
  <2>2. cases' = [cases EXCEPT ![t.case] = row]
    BY <1>1, <1>3 DEF CasesAfter
  <2> QED BY <1>1, <1>3, <2>1, <2>2
<1>4. CASE t.outcome = "attach"
  <2> DEFINE row(c) == [cases[c] EXCEPT !.tally = Written(t.caseTally, t.tally, @)]
  <2>1. ASSUME NEW c \in CaseIds
        PROVE  row(c) \in CaseRow /\ row(c).cluster = cases[c].cluster
               /\ row(c).status = cases[c].status
    <3>1. cases[c] \in CaseRow /\ cases[c].tally \in Tally
      BY <1>1 DEF CaseRow
    <3>2. Written(t.caseTally, t.tally, cases[c].tally) \in Tally
      BY <1>1, <3>1, WrittenTyped DEF Transaction
    <3> QED BY <3>1, <3>2 DEF CaseRow
  <2>2. cases' = [cases EXCEPT ![t.case] = row(t.case)]
    BY <1>1, <1>4 DEF CasesAfter
  <2>3. \A c \in CaseIds : cases'[c] = IF c = t.case THEN row(c) ELSE cases[c]
    BY <1>1, <2>2
  <2> HIDE DEF row
  <2>4. cases' \in [CaseIds -> CaseRow]
    <3>1. cases' = [c \in CaseIds |-> cases'[c]]
      BY <1>1, <2>2
    <3>2. \A c \in CaseIds : cases'[c] \in CaseRow
      BY <1>1, <2>1, <2>3
    <3> QED BY <3>1, <3>2
  <2> QED BY <1>4, <2>1, <2>3, <2>4
<1> QED BY <1>1, <1>2, <1>3, <1>4 DEF Transaction

\* What it leaves of its cluster: a case exactly if it no longer collects.
LEMMA ClustersWritten ==
  ASSUME IInv, NEW w \in Workers, Commit(w)
  PROVE  LET t == req[w] IN
         /\ clusters' \in [Clusters -> ClusterRow]
         /\ t.k \in Clusters
         /\ \A k \in Clusters :
              /\ k # t.k => clusters'[k] = clusters[k]
              /\ clusters[k].case # Null => clusters'[k].case # Null
              /\ clusters'[k].case # Null <=> clusters'[k].status \notin { "absent", "open" }
         /\ t.outcome = "create" => clusters'[t.k].case = t.case
         /\ t.outcome # "create" /\ clusters'[t.k].case # Null =>
              cases[clusters'[t.k].case].cluster = t.k
<1> PICK t : t = req[w]
  OBVIOUS
<1>1. /\ t \in Transaction /\ RequestSound(t) /\ t.k # Null
      /\ clusters' = [clusters EXCEPT ![t.k] = ClusterAfter(t)]
  BY DEF IInv, TypeOK, RequestsSound, RequestSound, LoadedSound, Commit
<1>2. t.k \in Clusters /\ clusters \in [Clusters -> ClusterRow]
  BY <1>1 DEF Transaction, IInv, TypeOK
<1> PICK cur : cur = IF clusters[t.k].status = "absent" THEN t.loaded ELSE clusters[t.k]
  OBVIOUS
<1>3. /\ cur \in ClusterRow
      /\ cur.case # Null <=> cur.status \notin { "absent", "open" }
      /\ cur.case # Null => cases[cur.case].cluster = t.k
      /\ clusters[t.k].case # Null => cur = clusters[t.k]
  BY <1>1, <1>2, ClusterLoaded DEF RequestSound, LoadedSound, Transaction
<1>4. Written(t.loaded.tally, t.tally, cur.tally) \in Tally
  BY <1>1, <1>3, WrittenTyped DEF Transaction, ClusterRow
<1> PICK row : row = ClusterAfter(t)
  OBVIOUS
<1>5. /\ row \in ClusterRow
      /\ row.status = IF t.outcome = "create" THEN "promoted" ELSE cur.status
      /\ row.case = IF t.outcome = "create" THEN t.case ELSE cur.case
  BY <1>1, <1>3, <1>4 DEF ClusterAfter, ClusterRow, Transaction
<1>6. t.outcome = "create" => t.case # Null
  BY <1>1 DEF RequestSound, CaseInHand
<1>7. \A k \in Clusters : clusters[k].case # Null <=> clusters[k].status \notin { "absent", "open" }
  BY ClusterLoaded
<1>8. clusters' \in [Clusters -> ClusterRow]
      /\ \A k \in Clusters : clusters'[k] = IF k = t.k THEN row ELSE clusters[k]
  BY <1>1, <1>2, <1>5
<1> QED BY <1>2, <1>3, <1>5, <1>6, <1>7, <1>8

LEMMA CommitKeeps == ASSUME IInv, NEW w \in Workers, Commit(w) PROVE IInv'
<1> PICK t : t = req[w]
  OBVIOUS
<1>1. t \in Transaction /\ RequestSound(t) /\ t.k \in Clusters /\ t.k # Null
  BY ClustersWritten, NullApart DEF IInv, TypeOK, RequestsSound
<1>2. t.outcome = "create" => t.case \in CaseIds /\ cases[t.case].cluster = Null
  BY <1>1 DEF RequestSound, CaseInHand, Transaction
\* A case that was committed keeps its cluster.
<1>3. \A c \in CaseIds : cases[c].cluster # Null => cases'[c].cluster = cases[c].cluster
  BY <1>2, CasesWritten
<1>4. t.outcome = "create" => cases'[t.case].cluster = t.k
  BY <1>2, CasesWritten
<1>5. /\ reports' \in [Reports -> ReportRow]
      /\ lock' \in [Clusters -> Workers \cup { Null }] /\ aborts' \in Nat
      /\ req' = [req EXCEPT ![w] = Idle] /\ req' \in [Workers -> Transaction]
  <2>1. reports' \in [Reports -> ReportRow]
    <3>1. reports' = [r \in Reports |-> reports'[r]]
      BY DEF Commit, ReportsAfter
    <3>2. \A r \in Reports : reports'[r] \in ReportRow
      BY ReportsWritten
    <3> QED BY <3>1, <3>2
  <2> QED BY <2>1, IdleTyped DEF Commit, Released, IInv, TypeOK
<1>6. TypeOK'
  BY <1>5, CasesWritten, ClustersWritten DEF TypeOK
<1>7. CaseIffPromoted'
  <2>1. ASSUME NEW k \in Clusters, clusters'[k].case # Null
        PROVE  cases'[clusters'[k].case].cluster = k
    <3>1. CASE k # t.k
      BY <1>3, <2>1, <3>1, ClustersWritten, ClusterLoaded, NullApart
    <3>2. CASE k = t.k /\ t.outcome = "create"
      BY <1>4, <3>2, ClustersWritten
    <3>3. CASE k = t.k /\ t.outcome # "create"
      BY <1>1, <1>3, <2>1, <3>3, ClustersWritten DEF ClusterRow
    <3> QED BY <3>1, <3>2, <3>3
  <2> QED BY <2>1, ClustersWritten DEF CaseIffPromoted
<1>8. ASSUME NEW r \in Reports
      PROVE  /\ reports'[r].status = "clustered" => reports'[r].case = Null
             /\ reports'[r].status = "promoted" => reports'[r].case # Null
             /\ reports'[r].case # Null => cases'[reports'[r].case].cluster = reports'[r].cluster
             /\ IF reports'[r].status = "absent"
                THEN reports'[r].cluster = Null /\ reports'[r].case = Null
                ELSE reports'[r].cluster # Null
  <2>1. /\ reports[r] \in ReportRow
        /\ reports[r].status = "clustered" => reports[r].case = Null
        /\ reports[r].status = "promoted" => reports[r].case # Null
        /\ reports[r].case # Null => cases[reports[r].case].cluster = reports[r].cluster
        /\ IF reports[r].status = "absent"
           THEN reports[r].cluster = Null /\ reports[r].case = Null
           ELSE reports[r].cluster # Null
    BY DEF IInv, TypeOK, LinkedReports, ReportsPlaced
  <2>2. reports[r].case # Null => cases'[reports[r].case].cluster = reports[r].cluster
    BY <1>3, <2>1 DEF ReportRow
  <2>3. /\ t.outcome = "none" => t.case = Null
        /\ t.outcome # "none" => t.case # Null /\ cases'[t.case].cluster = t.k
    BY <1>1, <1>3, <1>4 DEF RequestSound, CaseInHand, Transaction
  <2> QED BY <1>1, <2>1, <2>2, <2>3, ReportsWritten
<1>9. LinkedReports' /\ ReportsPlaced'
  BY <1>8 DEF LinkedReports, ReportsPlaced
<1>10. CasesPlaced'
  <2>1. ASSUME NEW c \in CaseIds
        PROVE  IF cases'[c].status = "absent" THEN cases'[c].cluster = Null
               ELSE cases'[c].cluster # Null /\ clusters'[cases'[c].cluster].case # Null
    <3>1. /\ cases[c] \in CaseRow
          /\ IF cases[c].status = "absent" THEN cases[c].cluster = Null
             ELSE cases[c].cluster # Null /\ clusters[cases[c].cluster].case # Null
      BY DEF IInv, CasesPlaced, TypeOK
    <3>2. CASE t.outcome = "create" /\ c = t.case
      <4>1. t.case # Null
        BY <1>1, <3>2 DEF RequestSound, CaseInHand
      <4> QED BY <1>1, <3>2, <4>1, CasesWritten, ClustersWritten
    <3>3. CASE ~ (t.outcome = "create" /\ c = t.case)
      <4>1. cases'[c].cluster = cases[c].cluster /\ cases'[c].status = cases[c].status
        BY <3>3, CasesWritten
      <4>2. cases[c].cluster # Null => cases[c].cluster \in Clusters
        BY <3>1 DEF CaseRow
      <4> QED BY <3>1, <4>1, <4>2, ClustersWritten
    <3> QED BY <3>2, <3>3
  <2> QED BY <2>1 DEF CasesPlaced
<1>11. ASSUME NEW v \in Workers, v # w PROVE RequestSound(req[v])'
  <2> PICK u : u = req[v]
    OBVIOUS
  <2>1. u \in Transaction /\ RequestSound(u) /\ ~ Clash(u, t) /\ req'[v] = u
    BY <1>5, <1>11 DEF IInv, RequestsSound, TypeOK
  <2>2. u.case \in CaseIds \cup { Null } /\ u.loaded.case \in CaseIds \cup { Null }
        /\ u.members \in SUBSET Reports /\ u.turned \in SUBSET Reports
        /\ u.report \in Reports \cup { Null }
    BY <2>1 DEF Transaction, ClusterRow
  <2>3. LoadedSound(u)'
    BY <1>3, <2>1, <2>2 DEF RequestSound, LoadedSound
  <2>4. \A r \in Reports : reports[r].status # "absent" =>
          /\ reports'[r].status # "absent" /\ reports'[r].cluster = reports[r].cluster
          /\ reports[r].status # "clustered" => reports'[r].status # "clustered"
    BY ReportsWritten
  <2>5. \A r \in Reports : reports[r].status = "absent" =>
          reports'[r] = reports[r] \/ (t.kind = "intake" /\ r = t.report)
    BY ReportsWritten
  <2>6. t.kind = "intake" => t.report # u.report
    BY <1>11 DEF IInv, RequestsSound, Clash
  <2>7. ReportInHand(u)'
    BY <2>1, <2>2, <2>4, <2>5, <2>6 DEF RequestSound, ReportInHand
  <2>8. CaseInHand(u)'
    <3>1. u.outcome = "create" => cases'[u.case].cluster = Null
      BY <2>1, <2>2, CasesWritten DEF RequestSound, CaseInHand, Clash
    <3> QED BY <1>3, <2>1, <2>2, <3>1 DEF RequestSound, CaseInHand
  <2>9. MembersSound(u)'
    BY <2>1, <2>2, <2>4 DEF RequestSound, MembersSound
  <2>10. RequestSound(u)'
    BY <2>3, <2>7, <2>8, <2>9 DEF RequestSound
  <2> QED BY <2>1, <2>10
<1>12. RequestsSound'
  <2>1. req'[w] = Idle /\ \A v \in Workers \ { w } : req'[v] = req[v]
    BY <1>5 DEF IInv, TypeOK
  <2>2. RequestSound(Idle)'
    BY DEF RequestSound, LoadedSound, ReportInHand, CaseInHand, MembersSound, Idle, NoCluster
  <2>3. \A v \in Workers : RequestSound(req[v])'
    BY <1>11, <2>1, <2>2
  <2>4. \A u, v \in Workers : u # v => ~ Clash(req'[u], req'[v])
    BY <2>1, IdleSound, IdleNoClash DEF IInv, RequestsSound
  <2> QED BY <2>3, <2>4 DEF RequestsSound
<1> QED BY <1>6, <1>7, <1>9, <1>10, <1>12 DEF IInv

-----------------------------------------------------------------------------
(* The theorems *)

LEMMA Start == Init => IInv
<1> SUFFICES ASSUME Init PROVE IInv
  OBVIOUS
<1>1. reports \in [Reports -> ReportRow] /\ cases \in [CaseIds -> CaseRow]
      /\ clusters \in [Clusters -> ClusterRow]
  BY DEF Init, NoReport, ReportRow, EmptyCase, CaseRow, NoCluster, ClusterRow, Zero, Tally
<1>2. TypeOK
  BY <1>1, IdleTyped, BoundsAssumption DEF Init, TypeOK
<1>3. CaseIffPromoted /\ LinkedReports /\ ReportsPlaced /\ CasesPlaced
  BY DEF Init, CaseIffPromoted, LinkedReports, ReportsPlaced, CasesPlaced,
         NoReport, NoCluster, EmptyCase
<1>4. RequestsSound
  BY IdleSound DEF Init, RequestsSound
<1> QED BY <1>2, <1>3, <1>4 DEF IInv

LEMMA Step == IInv /\ [Next]_vars => IInv'
<1> SUFFICES ASSUME IInv, [Next]_vars PROVE IInv'
  OBVIOUS
<1>1. ASSUME NEW w \in Workers, Begin(w) PROVE IInv'
  BY <1>1, SubmitKeeps, RejectKeeps, PromoteKeeps, FinishKeeps DEF Begin
<1>2. ASSUME NEW w \in Workers, Proceed(w) PROVE IInv'
  BY <1>2, RecountKeeps, DecideIntakeKeeps, DecidePromoteKeeps DEF Proceed
<1>3. ASSUME NEW w \in Workers, DeadlockVictim(w) \/ Abort(w) PROVE IInv'
  <2>1. Rollback(w) /\ aborts' \in Nat
    BY <1>3 DEF DeadlockVictim, Abort, IInv, TypeOK
  <2> QED BY <2>1, RollbackKeeps
<1>4. CASE UNCHANGED vars
  BY <1>4 DEF vars, IInv, TypeOK, CaseIffPromoted, LinkedReports, ReportsPlaced, CasesPlaced,
              RequestsSound, RequestSound, LoadedSound, ReportInHand, CaseInHand, MembersSound, Clash
<1> QED BY <1>1, <1>2, <1>3, <1>4, LockKeeps, CommitKeeps DEF Next

\* IInv holds in every reachable state, however many requests overlap.
THEOREM Invariance == Spec => []IInv
<1> QED BY Start, Step, PTL DEF Spec

\* The rows and the requests have their types (db/models.py).
THEOREM TypeCorrect == Spec => []TypeOK
<1>1. IInv => TypeOK
  BY DEF IInv
<1> QED BY Invariance, <1>1, PTL

\* A spot that no longer collects reports has a case that was created from it,
\* and only such a spot has one, whichever of overlapping promotions wrote last.
THEOREM CaseBehindCluster == Spec => []CaseIffPromoted
<1>1. IInv => CaseIffPromoted
  BY DEF IInv
<1> QED BY Invariance, <1>1, PTL

\* A report that says it is part of a case is linked to one, and that case came
\* from the cluster of the report.
THEOREM ReportsLinked == Spec => []LinkedReports
<1>1. IInv => LinkedReports
  BY DEF IInv
<1> QED BY Invariance, <1>1, PTL
=============================================================================
