------------------------ MODULE SerialIntake_proofs ------------------------
(***************************************************************************)
(* Proofs about ReportIntake when the requests of a spot do not overlap    *)
(* (there is at most one worker), for every set of reports and keys, every *)
(* policy and every bound: one case per cluster, exact counts, every       *)
(* standing report in the case of its spot, and the threshold kept.  They  *)
(* rest on the invariant of ReportIntake_proofs.                           *)
(*                                                                         *)
(* With one worker, the rows a request loaded are still the committed ones *)
(* when it commits, so the tally it writes is the tally it leaves.         *)
(***************************************************************************)
EXTENDS ReportIntake_proofs

\* No two requests are in flight together.
OneWorker == \A v, w \in Workers : v = w

-----------------------------------------------------------------------------
(* The invariant *)

\* The case of a cluster is the only one that came from it.
CasesOwned == \A c \in CaseIds : Exists(c) => clusters[cases[c].cluster].case = c

\* An open cluster counts fewer people than a case needs.
StillBelow ==
  \A k \in Clusters : clusters[k].status = "open" => clusters[k].tally.unique < Required

\* Cluster and case are finished together.
FinishedTogether ==
  \A k \in Clusters :
    clusters[k].case # Null =>
      (clusters[k].status = "finished" <=> cases[clusters[k].case].status = "finished")

\* A case that was not committed was not triggered.
NoEarlyTrigger == \A c \in CaseIds : ~ Exists(c) => cases[c].trigger = "none"

\* A cluster is opened by the report it is named after, and before others join it.
OpenedByReport ==
  \A r \in Reports :
    IF reports[r].status = "absent" THEN clusters[r].status = "absent"
    ELSE clusters[reports[r].cluster].status # "absent"

TablesSound == /\ CasesOwned /\ TalliesMatch /\ ReportsFollowCluster /\ StillBelow
               /\ FinishedTogether /\ NoEarlyTrigger /\ OpenedByReport

\* The row of a cluster that an intake opens.
Opened == [NoCluster EXCEPT !.status = "open"]

\* The cluster is as it was loaded, or is the one this intake opens.
RowAsLoaded(t) ==
  \/ clusters[t.k] = t.loaded /\ clusters[t.k].status # "absent"
  \/ clusters[t.k].status = "absent" /\ t.loaded = Opened /\ t.k = t.report

\* An intake has counted what it will leave, and decided by it.
IntakeFresh(t) ==
  t.kind = "intake" =>
    /\ RowAsLoaded(t) /\ t.loaded.status \in { "open", "promoted" }
    /\ t.pc # "recount" => t.tally = TallyOf(Standing(t.k) \cup { t.report })
    /\ t.pc # "commit" => t.outcome = "none"
    /\ t.pc = "commit" /\ t.loaded.case # Null =>
         t.outcome = "attach" /\ t.case = t.loaded.case /\ t.caseTally = cases[t.case].tally
    /\ t.pc = "commit" /\ t.loaded.case = Null /\ Reached(t.tally) =>
         t.outcome = "create" /\ t.members = Standing(t.k) \cup { t.report }
    /\ t.pc = "commit" /\ t.loaded.case = Null /\ ~ Reached(t.tally) => t.outcome = "none"

\* A promotion takes over all reports of a cluster without a case.
PromoteFresh(t) ==
  t.kind = "promote" =>
    /\ clusters[t.k] = t.loaded /\ t.loaded.status = "open" /\ t.loaded.case = Null
    /\ t.tally = t.loaded.tally /\ t.report = Null
    /\ t.pc # "decide" => t.outcome = "create" /\ t.members = Standing(t.k)

\* A rejection has counted the cluster without its report, for the case as well.
RejectFresh(t) ==
  t.kind = "reject" =>
    /\ clusters[t.k] = t.loaded /\ t.loaded.status # "absent"
    /\ t.report \in Reports /\ reports[t.report].status # "absent"
    /\ reports[t.report].cluster = t.k
    /\ t.tally = TallyWithout(t.k, t.report)
    /\ t.case = t.loaded.case
    /\ t.outcome = IF t.case = Null THEN "none" ELSE "attach"
    /\ t.case # Null => t.caseTally = cases[t.case].tally
    /\ t.turned = IF reports[t.report].status = "rejected" THEN {} ELSE { t.report }

Fresh(t) == /\ t.pc = "idle" <=> t.kind = "none"
            /\ IntakeFresh(t) /\ PromoteFresh(t) /\ RejectFresh(t)

SInv == TablesSound /\ \A w \in Workers : Fresh(req[w])

-----------------------------------------------------------------------------
(* Counting *)

\* More reports are not fewer people.
LEMMA MorePeople ==
  ASSUME NEW S \in SUBSET Reports, NEW T \in SUBSET Reports, S \subseteq T
  PROVE  UniqueReporters(S) <= UniqueReporters(T)
<1> DEFINE Of(U) == { KeyOf[r] : r \in U } \ { Null }
           Anonymous(U) == { r \in U : KeyOf[r] = Null }
           Sender == [r \in T |-> KeyOf[r]]
           All == { KeyOf[r] : r \in T }
<1>1. IsFiniteSet(T)
  BY FiniteAssumption, FS_Subset
<1>2. Sender \in Surjection(T, All)
  BY DEF Surjection
<1> HIDE DEF Sender
<1>3. IsFiniteSet(All)
  BY <1>1, <1>2, FS_Surjection
<1>4. Of(T) \in SUBSET All /\ Of(S) \in SUBSET Of(T)
      /\ Anonymous(T) \in SUBSET T /\ Anonymous(S) \in SUBSET Anonymous(T)
  OBVIOUS
<1> HIDE DEF All
<1>5. /\ UniqueReporters(S) = Cardinality(Of(S)) + IF CountAnonymous THEN Cardinality(Anonymous(S)) ELSE 0
      /\ UniqueReporters(T) = Cardinality(Of(T)) + IF CountAnonymous THEN Cardinality(Anonymous(T)) ELSE 0
  BY DEF UniqueReporters
<1> HIDE DEF Of, Anonymous
<1>6. IsFiniteSet(Of(T)) /\ IsFiniteSet(Anonymous(T))
  BY <1>1, <1>3, <1>4, FS_Subset
<1>7. /\ IsFiniteSet(Of(S)) /\ Cardinality(Of(S)) <= Cardinality(Of(T))
      /\ IsFiniteSet(Anonymous(S)) /\ Cardinality(Anonymous(S)) <= Cardinality(Anonymous(T))
  BY <1>4, <1>6, FS_Subset
<1>8. /\ Cardinality(Of(S)) \in Nat /\ Cardinality(Of(T)) \in Nat
      /\ Cardinality(Anonymous(S)) \in Nat /\ Cardinality(Anonymous(T)) \in Nat
  BY <1>6, <1>7, FS_CardinalityType
<1> QED BY <1>5, <1>7, <1>8

\* An UPDATE over a row that is still as loaded leaves what was wanted.
LEMMA WrittenOver ==
  ASSUME NEW t \in Tally, NEW u \in Tally PROVE Written(t, u, t) = u
BY DEF Written, Col, Tally

-----------------------------------------------------------------------------
(* Steps that only change what a request holds *)

LEMMA SerialGoto ==
  ASSUME OneWorker, IInv, SInv, NEW w \in Workers, NEW q,
         req' = [req EXCEPT ![w] = q], UNCHANGED <<reports, clusters, cases>>, Fresh(q)
  PROVE  SInv'
<1>1. TablesSound'
  BY DEF SInv, TablesSound, CasesOwned, Exists, TalliesMatch, ReportsFollowCluster, StillBelow,
         FinishedTogether, NoEarlyTrigger, OpenedByReport, Standing
<1>2. \A v \in Workers : req'[v] = q
  BY DEF OneWorker, IInv, TypeOK
<1>3. ASSUME NEW v \in Workers PROVE Fresh(req[v])'
  <2>1. Fresh(req'[v])
    BY <1>2
  <2> QED BY <2>1 DEF Fresh, IntakeFresh, PromoteFresh, RejectFresh, RowAsLoaded,
                      Standing, TallyWithout
<1> QED BY <1>1, <1>3 DEF SInv

LEMMA IdleFresh == Fresh(Idle)
BY DEF Fresh, IntakeFresh, PromoteFresh, RejectFresh, Idle

LEMMA SerialSubmit ==
  ASSUME OneWorker, IInv, SInv, NEW w \in Workers, NEW r \in Reports, SubmitReport(w, r)
  PROVE  SInv'
<1> PICK k \in OpenCandidates \cup { r } :
      req' = [req EXCEPT ![w] =
         [Idle EXCEPT !.pc = "recount", !.kind = "intake", !.report = r, !.k = k,
                      !.loaded = IF k = r THEN [NoCluster EXCEPT !.status = "open"]
                                 ELSE clusters[k]]]
  BY DEF SubmitReport
<1> PICK row : row = IF k = r THEN Opened ELSE clusters[k]
  OBVIOUS
<1> DEFINE q == [Idle EXCEPT !.pc = "recount", !.kind = "intake", !.report = r, !.k = k,
                             !.loaded = row]
<1>1. q.pc = "recount" /\ q.kind = "intake" /\ q.k = k /\ q.report = r /\ q.loaded = row
      /\ q.outcome = "none"
  BY DEF Idle
<1>2. row.status \in { "open", "promoted" }
  BY DEF OpenCandidates, NoCluster, Opened
<1>3. clusters[r].status = "absent"
  BY DEF SubmitReport, SInv, TablesSound, OpenedByReport
<1>4. req' = [req EXCEPT ![w] = q] /\ UNCHANGED <<reports, clusters, cases>>
  BY DEF SubmitReport, Opened
<1> HIDE DEF q
<1>5. RowAsLoaded(q)
  BY <1>1, <1>3 DEF RowAsLoaded, OpenCandidates
<1>6. Fresh(q)
  BY <1>1, <1>2, <1>5 DEF Fresh, IntakeFresh, PromoteFresh, RejectFresh
<1> QED BY <1>4, <1>6, SerialGoto

LEMMA SerialRecount ==
  ASSUME OneWorker, IInv, SInv, NEW w \in Workers, Recount(w) PROVE SInv'
<1> PICK tally : tally = TallyOf(Standing(req[w].k) \cup { req[w].report })
  OBVIOUS
<1> DEFINE q == [req[w] EXCEPT !.pc = "lock", !.tally = tally]
<1>1. req[w] \in Transaction /\ req[w].kind = "intake" /\ Fresh(req[w]) /\ req[w].pc = "recount"
  BY DEF IInv, TypeOK, RequestsSound, RequestSound, ReportInHand, Recount, SInv
<1>2. q.pc = "lock" /\ q.kind = "intake" /\ q.k = req[w].k /\ q.report = req[w].report
      /\ q.loaded = req[w].loaded /\ q.tally = tally /\ q.outcome = req[w].outcome
  BY <1>1 DEF Transaction
<1>3. req' = [req EXCEPT ![w] = q] /\ UNCHANGED <<reports, clusters, cases>>
  BY DEF Recount, IInv, TypeOK
<1> HIDE DEF q
<1>4. Fresh(q)
  BY <1>1, <1>2 DEF Fresh, IntakeFresh, PromoteFresh, RejectFresh, RowAsLoaded
<1> QED BY <1>3, <1>4, SerialGoto

LEMMA SerialLock ==
  ASSUME OneWorker, IInv, SInv, NEW w \in Workers, LockCluster(w) PROVE SInv'
<1> PICK pc : pc = IF req[w].kind = "intake" THEN "decide" ELSE "commit"
  OBVIOUS
<1> DEFINE q == [req[w] EXCEPT !.pc = pc]
<1>1. req[w] \in Transaction /\ Fresh(req[w]) /\ req[w].pc = "lock"
  BY DEF IInv, TypeOK, LockCluster, SInv
<1>2. /\ q.pc = pc /\ q.kind = req[w].kind /\ q.k = req[w].k /\ q.report = req[w].report
      /\ q.loaded = req[w].loaded /\ q.tally = req[w].tally /\ q.outcome = req[w].outcome
      /\ q.case = req[w].case /\ q.caseTally = req[w].caseTally
      /\ q.members = req[w].members /\ q.turned = req[w].turned
  BY <1>1 DEF Transaction
<1>3. req' = [req EXCEPT ![w] = q] /\ UNCHANGED <<reports, clusters, cases>>
  BY DEF LockCluster, IInv, TypeOK
<1> HIDE DEF q
<1>4. IntakeFresh(q) /\ PromoteFresh(q) /\ RejectFresh(q)
  BY <1>1, <1>2 DEF Fresh, IntakeFresh, PromoteFresh, RejectFresh, RowAsLoaded
<1>5. Fresh(q)
  BY <1>1, <1>2, <1>4 DEF Fresh
<1> QED BY <1>3, <1>5, SerialGoto

LEMMA SerialDecideIntake ==
  ASSUME OneWorker, IInv, SInv, NEW w \in Workers, DecideIntake(w) PROVE SInv'
<1> PICK q : /\ req' = [req EXCEPT ![w] = q]
             /\ q = IF req[w].loaded.case # Null THEN
                      [req[w] EXCEPT !.pc = "commit", !.outcome = "attach",
                         !.case = req[w].loaded.case,
                         !.caseTally = cases[req[w].loaded.case].tally,
                         !.members = { req[w].report }, !.turned = { req[w].report }]
                    ELSE IF Reached(req[w].tally) THEN
                      [req[w] EXCEPT !.pc = "commit", !.outcome = "create", !.case = FreshCase,
                         !.members = Takeover(req[w]), !.turned = ToTurn(Takeover(req[w]))]
                    ELSE [req[w] EXCEPT !.pc = "commit"]
  BY DEF DecideIntake
<1>1. /\ req[w] \in Transaction /\ Fresh(req[w]) /\ req[w].pc = "decide"
      /\ req[w].kind = "intake" /\ req[w].report # Null /\ req[w].outcome = "none"
  BY DEF IInv, TypeOK, DecideIntake, SInv, RequestsSound, RequestSound, ReportInHand,
         Fresh, IntakeFresh
<1>2. /\ q.pc = "commit" /\ q.kind = "intake" /\ q.k = req[w].k /\ q.report = req[w].report
      /\ q.loaded = req[w].loaded /\ q.tally = req[w].tally
  BY <1>1 DEF Transaction
<1>3. req[w].loaded.case # Null =>
        /\ q.outcome = "attach" /\ q.case = req[w].loaded.case
        /\ q.caseTally = cases[req[w].loaded.case].tally
  BY <1>1 DEF Transaction
<1>4. req[w].loaded.case = Null /\ Reached(req[w].tally) =>
        q.outcome = "create" /\ q.members = Takeover(req[w])
  BY <1>1 DEF Transaction
<1>5. req[w].loaded.case = Null /\ ~ Reached(req[w].tally) => q.outcome = "none"
  BY <1>1 DEF Transaction
<1>6. Takeover(req[w]) = Standing(req[w].k) \cup { req[w].report }
  BY <1>1 DEF Takeover
<1>7. IntakeFresh(q)
  BY <1>1, <1>2, <1>3, <1>4, <1>5, <1>6 DEF Fresh, IntakeFresh, RowAsLoaded
<1>8. Fresh(q)
  BY <1>2, <1>7 DEF Fresh, PromoteFresh, RejectFresh
<1> QED BY <1>8, SerialGoto DEF DecideIntake

LEMMA SerialPromote ==
  ASSUME OneWorker, IInv, SInv, NEW w \in Workers, NEW k \in Clusters, PromoteCluster(w, k)
  PROVE  SInv'
<1> PICK row : row = clusters[k]
  OBVIOUS
<1> DEFINE q == [Idle EXCEPT !.pc = "decide", !.kind = "promote", !.k = k,
                             !.loaded = row, !.tally = row.tally]
<1>1. q.pc = "decide" /\ q.kind = "promote" /\ q.k = k /\ q.report = Null
      /\ q.loaded = row /\ q.tally = row.tally
  BY DEF Idle
<1>2. row.case = Null /\ row.status = "open"
  BY ClusterLoaded DEF PromoteCluster
<1>3. req' = [req EXCEPT ![w] = q] /\ UNCHANGED <<reports, clusters, cases>>
  BY DEF PromoteCluster
<1> HIDE DEF q
<1>4. Fresh(q)
  BY <1>1, <1>2 DEF Fresh, IntakeFresh, PromoteFresh, RejectFresh
<1> QED BY <1>3, <1>4, SerialGoto

LEMMA SerialDecidePromote ==
  ASSUME OneWorker, IInv, SInv, NEW w \in Workers, DecidePromote(w) PROVE SInv'
<1> PICK c, M, T : c = FreshCase /\ M = Takeover(req[w]) /\ T = ToTurn(Takeover(req[w]))
  OBVIOUS
<1> DEFINE q == [req[w] EXCEPT !.pc = "lock", !.outcome = "create", !.case = c,
                               !.members = M, !.turned = T]
<1>1. req[w] \in Transaction /\ Fresh(req[w]) /\ req[w].kind = "promote"
  BY DEF IInv, TypeOK, DecidePromote, SInv
<1>2. /\ q.pc = "lock" /\ q.kind = "promote" /\ q.k = req[w].k /\ q.report = req[w].report
      /\ q.loaded = req[w].loaded /\ q.tally = req[w].tally
      /\ q.outcome = "create" /\ q.members = M
  BY <1>1 DEF Transaction
<1>3. req' = [req EXCEPT ![w] = q] /\ UNCHANGED <<reports, clusters, cases>>
  BY DEF DecidePromote
<1>4. req[w].report = Null
  BY <1>1 DEF Fresh, PromoteFresh
<1>5. M = Standing(req[w].k)
  BY <1>4 DEF Takeover
<1> HIDE DEF q
<1>6. Fresh(q)
  BY <1>1, <1>2, <1>5 DEF Fresh, IntakeFresh, PromoteFresh, RejectFresh
<1> QED BY <1>3, <1>6, SerialGoto

LEMMA SerialReject ==
  ASSUME OneWorker, IInv, SInv, NEW w \in Workers, NEW r \in Reports, RejectReport(w, r)
  PROVE  SInv'
<1> PICK k, row, c, tally, outcome, turned, caseTally :
      /\ k = reports[r].cluster /\ row = clusters[k] /\ c = row.case
      /\ tally = TallyWithout(k, r)
      /\ turned = IF reports[r].status = "rejected" THEN {} ELSE { r }
      /\ outcome = IF c = Null THEN "none" ELSE "attach"
      /\ caseTally = IF c = Null THEN Zero ELSE cases[c].tally
  OBVIOUS
<1> DEFINE q == [Idle EXCEPT !.pc = "lock", !.kind = "reject", !.report = r, !.k = k,
                    !.loaded = row, !.tally = tally, !.outcome = outcome,
                    !.case = c, !.turned = turned, !.caseTally = caseTally]
<1>1. /\ q.pc = "lock" /\ q.kind = "reject" /\ q.report = r /\ q.k = k /\ q.loaded = row
      /\ q.tally = tally /\ q.outcome = outcome /\ q.case = c /\ q.turned = turned
      /\ q.caseTally = caseTally
  BY DEF Idle
<1>2. req' = [req EXCEPT ![w] = q] /\ UNCHANGED <<reports, clusters, cases>>
      /\ reports[r].status # "absent"
  BY DEF RejectReport
<1> HIDE DEF q
<1>3. row.status # "absent"
  BY <1>2 DEF SInv, TablesSound, OpenedByReport
<1>4. RejectFresh(q)
  BY <1>1, <1>2, <1>3 DEF RejectFresh
<1>5. Fresh(q)
  BY <1>1, <1>4 DEF Fresh, IntakeFresh, PromoteFresh
<1> QED BY <1>2, <1>5, SerialGoto

LEMMA SerialRollback ==
  ASSUME OneWorker, IInv, SInv, NEW w \in Workers, Rollback(w) PROVE SInv'
BY IdleFresh, SerialGoto DEF Rollback

-----------------------------------------------------------------------------
(* What a commit leaves *)

\* The request that commits is fresh, and its cluster has the case it loaded.
LEMMA Committing ==
  ASSUME IInv, SInv, NEW w \in Workers, Commit(w)
  PROVE  LET t == req[w] IN
         /\ t \in Transaction /\ t.pc = "commit" /\ t.k \in Clusters
         /\ t.kind \in { "intake", "promote", "reject" }
         /\ RequestSound(t) /\ Fresh(t)
         /\ clusters[t.k] \in ClusterRow /\ clusters[t.k].case = t.loaded.case
         /\ t.outcome = "create" => t.loaded.case = Null /\ t.kind # "reject"
         /\ t.outcome = "attach" => t.case = t.loaded.case /\ t.case # Null
                                    /\ t.caseTally = cases[t.case].tally
         /\ t.outcome = "none" => t.case = Null /\ t.loaded.case = Null
<1> PICK t : t = req[w]
  OBVIOUS
<1>1. t \in Transaction /\ t.pc = "commit" /\ RequestSound(t) /\ Fresh(t)
  BY DEF IInv, TypeOK, RequestsSound, Commit, SInv
<1>2. t.k \in Clusters /\ t.kind \in { "intake", "promote", "reject" }
  BY <1>1 DEF Transaction, Fresh, RequestSound, LoadedSound
<1>3. clusters[t.k] \in ClusterRow
      /\ (clusters[t.k].case # Null <=> clusters[t.k].status \notin { "absent", "open" })
  BY <1>2, ClusterLoaded
<1>4. clusters[t.k].case = t.loaded.case
  BY <1>1, <1>2, <1>3
  DEF Fresh, IntakeFresh, PromoteFresh, RejectFresh, RowAsLoaded, Opened, NoCluster
<1>5. t.outcome = "create" => t.loaded.case = Null /\ t.kind # "reject"
  BY <1>1, <1>2 DEF Fresh, IntakeFresh, PromoteFresh, RejectFresh
<1>6. t.outcome = "attach" => t.case = t.loaded.case /\ t.case # Null
                              /\ t.caseTally = cases[t.case].tally
  BY <1>1, <1>2
  DEF Fresh, IntakeFresh, PromoteFresh, RejectFresh, RequestSound, CaseInHand
<1>7. t.outcome = "none" => t.case = Null /\ t.loaded.case = Null
  BY <1>1, <1>2
  DEF Fresh, IntakeFresh, PromoteFresh, RejectFresh, RequestSound, CaseInHand
<1> QED BY <1>1, <1>2, <1>3, <1>4, <1>5, <1>6, <1>7

\* The reports a new case takes over all stand afterwards, and are its own.
LEMMA SerialReports ==
  ASSUME IInv, SInv, NEW w \in Workers, Commit(w), NEW r \in Reports
  PROVE  LET t == req[w] IN
         /\ t.kind = "intake" /\ r = t.report =>
              /\ reports[r].status = "absent"
              /\ reports'[r].status = IF t.outcome = "none" THEN "clustered" ELSE "promoted"
              /\ reports'[r].cluster = t.k /\ reports'[r].case = t.case
         /\ t.kind = "reject" /\ r = t.report =>
              /\ reports'[r].status = "rejected" /\ reports[r].cluster = t.k
              /\ reports'[r].cluster = t.k
         /\ t.outcome = "create" /\ r \in Standing(t.k) =>
              /\ reports'[r].status = "promoted" /\ reports[r].status # "absent"
              /\ reports'[r].cluster = t.k /\ reports'[r].case = t.case
         /\ ~ (t.kind # "promote" /\ r = t.report) /\ ~ (t.outcome = "create" /\ r \in Standing(t.k))
              => reports'[r] = reports[r]
<1> PICK t : t = req[w]
  OBVIOUS
<1>1. /\ t \in Transaction /\ t.k \in Clusters /\ t.kind \in { "intake", "promote", "reject" }
      /\ RequestSound(t) /\ Fresh(t) /\ (t.outcome = "create" => t.kind # "reject")
      /\ t.pc = "commit" /\ (t.outcome = "create" => t.loaded.case = Null)
  BY Committing
<1>2. reports[r] \in ReportRow
  BY DEF IInv, TypeOK
<1>3. reports' = ReportsAfter(t)
  BY DEF Commit
<1>4. ASSUME t.kind = "intake", r = t.report
      PROVE  /\ reports[r].status = "absent"
             /\ reports'[r].status = IF t.outcome = "none" THEN "clustered" ELSE "promoted"
             /\ reports'[r].cluster = t.k /\ reports'[r].case = t.case
  <2>1. reports'[r] = [ status |-> IF t.outcome = "none" THEN "clustered" ELSE "promoted",
                        cluster |-> t.k, case |-> t.case ]
    BY <1>3, <1>4 DEF ReportsAfter
  <2> QED BY <1>1, <1>4, <2>1 DEF RequestSound, ReportInHand
<1>5. ASSUME t.kind = "reject", r = t.report
      PROVE  /\ reports'[r].status = "rejected" /\ reports[r].cluster = t.k
             /\ reports'[r].cluster = t.k
  <2>1. /\ reports[r].cluster = t.k
        /\ t.turned = IF reports[r].status = "rejected" THEN {} ELSE { r }
    BY <1>1, <1>5 DEF Fresh, RejectFresh
  <2>2. reports'[r] = IF r \in t.turned THEN [reports[r] EXCEPT !.status = "rejected"]
                      ELSE reports[r]
    BY <1>3, <1>5 DEF ReportsAfter
  <2> QED BY <1>2, <2>1, <2>2 DEF ReportRow
<1>6. t.outcome = "create" =>
        t.members = IF t.kind = "intake" THEN Standing(t.k) \cup { t.report } ELSE Standing(t.k)
  BY <1>1 DEF Fresh, IntakeFresh, PromoteFresh
<1>7. r \in Standing(t.k) => reports[r].status \in { "clustered", "promoted" } /\ reports[r].cluster = t.k
  BY <1>1, <1>2, StandingCommitted DEF Standing, IInv, ReportRow
<1>8. t.kind = "intake" => reports[t.report].status = "absent"
  BY <1>1 DEF RequestSound, ReportInHand
<1>9. t.kind = "promote" => t.report = Null
  BY <1>1 DEF Fresh, PromoteFresh
<1>10. ASSUME t.outcome = "create", r \in Standing(t.k)
       PROVE  /\ reports'[r].status = "promoted" /\ reports[r].status # "absent"
              /\ reports'[r].cluster = t.k /\ reports'[r].case = t.case
  <2>1. r # t.report
    BY <1>1, <1>7, <1>8, <1>9, <1>10, NullAssumption
  <2>2. reports'[r] = [reports[r] EXCEPT !.case = t.case,
                                         !.status = IF r \in t.turned THEN "promoted" ELSE @]
    BY <1>1, <1>3, <1>6, <1>10, <2>1 DEF ReportsAfter
  <2>3. r \notin t.turned => reports[r].status = "promoted"
    BY <1>1, <1>6, <1>7, <1>10, <2>1 DEF RequestSound, MembersSound
  <2> QED BY <1>2, <1>7, <1>10, <2>2, <2>3 DEF ReportRow
<1>11. ASSUME ~ (t.kind # "promote" /\ r = t.report),
              ~ (t.outcome = "create" /\ r \in Standing(t.k))
       PROVE  reports'[r] = reports[r]
  <2>1. ~ (t.kind = "reject" /\ r \in t.turned)
    BY <1>1, <1>11 DEF Fresh, RejectFresh
  <2>2. r # t.report => r \notin t.members
    BY <1>1, <1>6, <1>11 DEF RequestSound, MembersSound
  <2> QED BY <1>3, <1>11, <2>1, <2>2 DEF ReportsAfter
<1> QED BY <1>4, <1>5, <1>10, <1>11

\* The reports that stand afterwards: one more, one less, or the same.
LEMMA SerialStanding ==
  ASSUME IInv, SInv, NEW w \in Workers, Commit(w), NEW k \in Clusters
  PROVE  LET t == req[w] IN
         /\ k # t.k \/ t.kind = "promote" => Standing(k)' = Standing(k)
         /\ k = t.k /\ t.kind = "intake" => Standing(k)' = Standing(k) \cup { t.report }
         /\ k = t.k /\ t.kind = "reject" => Standing(k)' = Standing(k) \ { t.report }
<1> PICK t : t = req[w]
  OBVIOUS
<1>1. t.k \in Clusters /\ t.kind \in { "intake", "promote", "reject" } /\ t \in Transaction
  BY Committing
<1>2. /\ t.kind = "intake" => t.report \in Reports
      /\ t.kind = "reject" => t.report \in Reports
      /\ t.kind = "intake" => reports[t.report].status = "absent"
  BY Committing DEF RequestSound, ReportInHand, Fresh, RejectFresh, Transaction
<1>3. ASSUME NEW r \in Reports
      PROVE  reports[r].status = "absent" => r \notin Standing(k)
  BY StandingCommitted DEF IInv
<1>4. \A r \in Reports :
        /\ r \in Standing(k) <=> reports[r].cluster = k /\ reports[r].status # "rejected"
        /\ r \in Standing(k)' <=> reports'[r].cluster = k /\ reports'[r].status # "rejected"
        /\ r \in Standing(t.k) <=> reports[r].cluster = t.k /\ reports[r].status # "rejected"
  BY DEF Standing
<1>5. Standing(k) \subseteq Reports /\ Standing(k)' \subseteq Reports
  BY DEF Standing
<1>6. ASSUME NEW r \in Reports, ~ (t.kind # "promote" /\ r = t.report)
      PROVE  r \in Standing(k)' <=> r \in Standing(k)
  <2>1. CASE t.outcome = "create" /\ r \in Standing(t.k)
    BY <1>4, <2>1, SerialReports
  <2>2. CASE ~ (t.outcome = "create" /\ r \in Standing(t.k))
    BY <1>4, <1>6, <2>2, SerialReports
  <2> QED BY <2>1, <2>2
<1>7. t.kind = "intake" => (t.report \in Standing(k)' <=> k = t.k) /\ t.report \notin Standing(k)
  BY <1>2, <1>3, <1>4, SerialReports
<1>8. t.kind = "reject" => t.report \notin Standing(k)' /\ (t.report \in Standing(k) => k = t.k)
  BY <1>2, <1>4, SerialReports
<1>9. CASE t.kind = "promote"
  BY <1>5, <1>6, <1>9
<1>10. CASE t.kind = "intake"
  BY <1>2, <1>5, <1>6, <1>7, <1>10
<1>11. CASE t.kind = "reject"
  BY <1>2, <1>5, <1>6, <1>8, <1>11
<1> QED BY <1>1, <1>9, <1>10, <1>11

\* The row of the cluster, and the tally the request counted.
LEMMA SerialCluster ==
  ASSUME IInv, SInv, NEW w \in Workers, Commit(w)
  PROVE  LET t == req[w] IN
         /\ clusters'[t.k].tally = t.tally
         /\ clusters'[t.k].status = IF t.outcome = "create" THEN "promoted" ELSE t.loaded.status
         /\ clusters'[t.k].case = IF t.outcome = "create" THEN t.case ELSE t.loaded.case
         /\ t.loaded.status # "absent"
         /\ \A k \in Clusters \ { t.k } : clusters'[k] = clusters[k]
<1> PICK t : t = req[w]
  OBVIOUS
<1>1. /\ t \in Transaction /\ t.k \in Clusters /\ t.kind \in { "intake", "promote", "reject" }
      /\ RequestSound(t) /\ Fresh(t)
  BY Committing
<1>2. clusters' = [clusters EXCEPT ![t.k] = ClusterAfter(t)]
  BY DEF Commit
<1> PICK cur : cur = IF clusters[t.k].status = "absent" THEN t.loaded ELSE clusters[t.k]
  OBVIOUS
<1>3. cur = t.loaded /\ t.loaded.status # "absent" /\ t.loaded \in ClusterRow /\ t.tally \in Tally
  BY <1>1 DEF Fresh, IntakeFresh, PromoteFresh, RejectFresh, RowAsLoaded, Opened, NoCluster,
              Transaction
<1>4. Written(t.loaded.tally, t.tally, cur.tally) = t.tally
  BY <1>3, WrittenOver DEF ClusterRow
<1> PICK row : row = ClusterAfter(t)
  OBVIOUS
<1>5. /\ row.status = IF t.outcome = "create" THEN "promoted" ELSE t.loaded.status
      /\ row.case = IF t.outcome = "create" THEN t.case ELSE t.loaded.case
      /\ row.tally = t.tally
  BY <1>3, <1>4 DEF ClusterAfter
<1>6. \A k \in Clusters : clusters'[k] = IF k = t.k THEN row ELSE clusters[k]
  BY <1>1, <1>2 DEF IInv, TypeOK
<1> QED BY <1>1, <1>3, <1>5, <1>6

\* The case in hand, and no other, gets what the request counted.
LEMMA SerialCases ==
  ASSUME IInv, SInv, NEW w \in Workers, Commit(w)
  PROVE  LET t == req[w] IN
         /\ \A c \in CaseIds : c # t.case \/ t.outcome = "none" => cases'[c] = cases[c]
         /\ t.outcome = "attach" =>
              /\ t.case \in CaseIds /\ cases'[t.case].tally = t.tally
              /\ cases'[t.case].status = cases[t.case].status
              /\ cases'[t.case].cluster = cases[t.case].cluster
              /\ cases'[t.case].trigger = cases[t.case].trigger
         /\ t.outcome = "create" =>
              /\ t.case \in CaseIds /\ cases[t.case].status = "absent"
              /\ cases'[t.case].status = "unfinished" /\ cases'[t.case].cluster = t.k
              /\ cases'[t.case].tally = t.tally
              /\ cases'[t.case].trigger = IF t.kind = "promote" THEN "manual" ELSE "threshold"
<1> PICK t : t = req[w]
  OBVIOUS
<1>1. /\ t \in Transaction /\ RequestSound(t) /\ cases \in [CaseIds -> CaseRow]
      /\ cases' = CasesAfter(t)
      /\ t.outcome = "attach" => t.case # Null /\ t.caseTally = cases[t.case].tally
  BY Committing DEF IInv, TypeOK, Commit
<1>2. CASE t.outcome = "none"
  BY <1>1, <1>2 DEF CasesAfter
<1>3. CASE t.outcome = "create"
  <2>1. t.case \in CaseIds /\ cases[t.case].status = "absent"
    BY <1>1, <1>3 DEF RequestSound, CaseInHand, Transaction, IInv, CasesPlaced
  <2>2. cases' = [cases EXCEPT ![t.case] =
                    [ status |-> "unfinished", cluster |-> t.k, tally |-> t.tally,
                      trigger |-> IF t.kind = "promote" THEN "manual" ELSE "threshold" ]]
    BY <1>1, <1>3 DEF CasesAfter
  <2> QED BY <1>1, <1>3, <2>1, <2>2
<1>4. CASE t.outcome = "attach"
  <2>1. t.case \in CaseIds
    BY <1>1, <1>4 DEF Transaction
  <2>2. cases[t.case] \in CaseRow /\ cases[t.case].tally \in Tally /\ t.tally \in Tally
    BY <1>1, <2>1 DEF CaseRow, Transaction
  <2>3. Written(t.caseTally, t.tally, cases[t.case].tally) = t.tally
    BY <1>1, <1>4, <2>2, WrittenOver
  <2>4. cases' = [cases EXCEPT ![t.case] =
                    [cases[t.case] EXCEPT !.tally =
                       Written(t.caseTally, t.tally, cases[t.case].tally)]]
    BY <1>1, <1>4 DEF CasesAfter
  <2>5. cases' = [cases EXCEPT ![t.case] = [cases[t.case] EXCEPT !.tally = t.tally]]
    BY <2>3, <2>4
  <2> QED BY <1>1, <1>4, <2>1, <2>2, <2>5 DEF CaseRow
<1> QED BY <1>1, <1>2, <1>3, <1>4 DEF Transaction

-----------------------------------------------------------------------------
(* Steps that change the tables *)

LEMMA OthersIdle ==
  ASSUME OneWorker, IInv, SInv, NEW w \in Workers, req' = [req EXCEPT ![w] = Idle]
  PROVE  \A v \in Workers : Fresh(req[v])'
<1>1. \A v \in Workers : req'[v] = Idle
  BY DEF OneWorker, IInv, TypeOK
<1> QED BY <1>1 DEF Fresh, IntakeFresh, PromoteFresh, RejectFresh, Idle

LEMMA SerialFinish ==
  ASSUME OneWorker, IInv, SInv, NEW w \in Workers, NEW c \in CaseIds, FinishCase(w, c)
  PROVE  SInv'
<1> PICK k : k = cases[c].cluster
  OBVIOUS
<1>1. Exists(c) /\ k \in Clusters /\ clusters[k].case = c
  BY DEF FinishCase, IInv, CasesPlaced, TypeOK, CaseRow, SInv, TablesSound, CasesOwned, Exists
<1>2. \A d \in CaseIds :
        /\ cases'[d].status = IF d = c THEN "finished" ELSE cases[d].status
        /\ cases'[d].cluster = cases[d].cluster /\ cases'[d].tally = cases[d].tally
        /\ cases'[d].trigger = cases[d].trigger
  <2>1. cases' = [cases EXCEPT ![c] = [cases[c] EXCEPT !.status = "finished"]]
    BY DEF FinishCase
  <2>2. cases[c] \in CaseRow /\ cases \in [CaseIds -> CaseRow]
    BY DEF IInv, TypeOK
  <2> QED BY <2>1, <2>2 DEF CaseRow
<1>3. \A j \in Clusters :
        /\ clusters'[j].status = IF j = k THEN "finished" ELSE clusters[j].status
        /\ clusters'[j].case = clusters[j].case /\ clusters'[j].tally = clusters[j].tally
  <2>1. clusters' = [clusters EXCEPT ![k] = [clusters[k] EXCEPT !.status = "finished"]]
    BY DEF FinishCase
  <2>2. clusters[k] \in ClusterRow /\ clusters \in [Clusters -> ClusterRow]
    BY <1>1 DEF IInv, TypeOK
  <2> QED BY <2>1, <2>2 DEF ClusterRow
<1>4. UNCHANGED <<reports, req>> /\ \A j \in Clusters : Standing(j)' = Standing(j)
  BY DEF FinishCase, Standing
<1>5. \A j \in Clusters : clusters[j].case # Null => clusters[j].case \in CaseIds
                                                     /\ cases[clusters[j].case].cluster = j
  BY ClusterLoaded
<1>6. \A r \in Reports : reports[r] \in ReportRow
                         /\ (reports[r].status # "absent" => reports[r].cluster \in Clusters)
  BY DEF IInv, TypeOK, ReportRow, ReportsPlaced
<1>7. CasesOwned'
  <2>1. ASSUME NEW d \in CaseIds, Exists(d)' PROVE clusters'[cases'[d].cluster].case = d
    <3>1. Exists(d)
      BY <1>1, <1>2, <2>1 DEF Exists
    <3>2. cases[d].cluster \in Clusters
      BY <3>1 DEF Exists, IInv, TypeOK, CaseRow, CasesPlaced
    <3> QED BY <1>2, <1>3, <3>1, <3>2 DEF SInv, TablesSound, CasesOwned
  <2> QED BY <2>1 DEF CasesOwned
<1>8. TalliesMatch'
  BY <1>2, <1>3, <1>4, <1>5 DEF SInv, TablesSound, TalliesMatch
<1>9. ReportsFollowCluster'
  BY <1>3, <1>4, <1>6 DEF SInv, TablesSound, ReportsFollowCluster
<1>10. StillBelow' /\ NoEarlyTrigger'
  BY <1>1, <1>2, <1>3 DEF SInv, TablesSound, StillBelow, NoEarlyTrigger, Exists
<1>11. FinishedTogether'
  BY <1>1, <1>2, <1>3, <1>5 DEF SInv, TablesSound, FinishedTogether
<1>12. OpenedByReport'
  <2>1. clusters[k].status # "absent"
    BY <1>1, ClusterLoaded, NullApart
  <2> QED BY <1>3, <1>4, <1>6, <2>1 DEF SInv, TablesSound, OpenedByReport, Clusters
<1>13. \A v \in Workers : Fresh(req[v])'
  <2>1. \A v \in Workers : req[v].pc = "idle" /\ req[v].kind = "none"
    BY DEF FinishCase, OneWorker, SInv, Fresh
  <2> QED BY <1>4, <2>1 DEF Fresh, IntakeFresh, PromoteFresh, RejectFresh
<1> QED BY <1>7, <1>8, <1>9, <1>10, <1>11, <1>12, <1>13 DEF SInv, TablesSound

LEMMA SerialCommit ==
  ASSUME OneWorker, IInv, SInv, NEW w \in Workers, Commit(w) PROVE SInv'
<1> PICK t : t = req[w]
  OBVIOUS
<1>1. /\ t \in Transaction /\ t.k \in Clusters /\ t.pc = "commit"
      /\ t.kind \in { "intake", "promote", "reject" } /\ RequestSound(t) /\ Fresh(t)
      /\ clusters[t.k].case = t.loaded.case /\ t.tally \in Tally
      /\ t.outcome \in { "none", "attach", "create" }
      /\ t.outcome = "create" => t.loaded.case = Null /\ t.kind # "reject"
      /\ t.outcome = "attach" => t.case = t.loaded.case /\ t.case # Null
      /\ t.outcome = "none" => t.case = Null /\ t.loaded.case = Null
  BY Committing DEF Transaction
<1>2. /\ clusters'[t.k].tally = t.tally
      /\ clusters'[t.k].status = IF t.outcome = "create" THEN "promoted" ELSE t.loaded.status
      /\ clusters'[t.k].case = IF t.outcome = "create" THEN t.case ELSE t.loaded.case
      /\ t.loaded.status # "absent"
      /\ \A k \in Clusters \ { t.k } : clusters'[k] = clusters[k]
  BY SerialCluster
<1>3. /\ \A c \in CaseIds : c # t.case \/ t.outcome = "none" => cases'[c] = cases[c]
      /\ t.outcome = "attach" =>
           /\ t.case \in CaseIds /\ cases'[t.case].tally = t.tally
           /\ cases'[t.case].status = cases[t.case].status
           /\ cases'[t.case].cluster = cases[t.case].cluster
           /\ cases'[t.case].trigger = cases[t.case].trigger
      /\ t.outcome = "create" =>
           /\ t.case \in CaseIds /\ cases[t.case].status = "absent"
           /\ cases'[t.case].status = "unfinished" /\ cases'[t.case].cluster = t.k
           /\ cases'[t.case].tally = t.tally
           /\ cases'[t.case].trigger = IF t.kind = "promote" THEN "manual" ELSE "threshold"
  BY SerialCases
<1>4. \A k \in Clusters : clusters[k].case # Null =>
        clusters[k].case \in CaseIds /\ cases[clusters[k].case].cluster = k
  BY ClusterLoaded
<1>5. \A c \in CaseIds : Exists(c) => cases[c].cluster \in Clusters /\ clusters[cases[c].cluster].case = c
  BY DEF Exists, IInv, TypeOK, CaseRow, CasesPlaced, SInv, TablesSound, CasesOwned
<1>6. \A r \in Reports : reports[r] \in ReportRow
                         /\ (reports[r].status # "absent" => reports[r].cluster \in Clusters)
  BY DEF IInv, TypeOK, ReportRow, ReportsPlaced
\* The case in hand is that of no other cluster.
<1>7. \A k \in Clusters \ { t.k } : clusters[k].case # Null =>
        clusters[k].case # t.case \/ t.outcome = "none"
  <2>1. CASE t.outcome = "attach"
    BY <1>1, <1>4, <2>1
  <2>2. CASE t.outcome = "create"
    <3>1. cases[t.case].cluster = Null
      BY <1>3, <2>2 DEF IInv, CasesPlaced
    <3> QED BY <1>4, <3>1, NullApart
  <2> QED BY <1>1, <2>1, <2>2
<1>8. CasesOwned'
  <2>1. ASSUME NEW c \in CaseIds, Exists(c)' PROVE clusters'[cases'[c].cluster].case = c
    <3>1. CASE t.outcome = "create" /\ c = t.case
      BY <1>2, <1>3, <3>1
    <3>2. CASE ~ (t.outcome = "create" /\ c = t.case)
      <4>1. Exists(c) /\ cases'[c].cluster = cases[c].cluster
        BY <1>1, <1>3, <2>1, <3>2 DEF Exists
      <4>2. cases[c].cluster = t.k => t.outcome # "create"
        BY <1>1, <1>5, <4>1, NullApart
      <4> QED BY <1>1, <1>2, <1>5, <4>1, <4>2
    <3> QED BY <3>1, <3>2
  <2> QED BY <2>1 DEF CasesOwned
<1>9. TallyOf(Standing(t.k))' = t.tally
  <2>1. CASE t.kind = "intake"
    <3>1. t.tally = TallyOf(Standing(t.k) \cup { t.report })
      BY <1>1, <2>1 DEF Fresh, IntakeFresh
    <3>2. Standing(t.k)' = Standing(t.k) \cup { t.report }
      BY <1>1, <2>1, SerialStanding
    <3> QED BY <3>1, <3>2 DEF TallyOf, UniqueReporters
  <2>2. CASE t.kind = "promote"
    <3>1. t.tally = TallyOf(Standing(t.k))
      BY <1>1, <2>2 DEF Fresh, PromoteFresh, SInv, TablesSound, TalliesMatch
    <3>2. Standing(t.k)' = Standing(t.k)
      BY <1>1, <2>2, SerialStanding
    <3> QED BY <3>1, <3>2 DEF TallyOf, UniqueReporters
  <2>3. CASE t.kind = "reject"
    <3>1. t.tally = TallyOf(Standing(t.k) \ { t.report })
      BY <1>1, <2>3 DEF Fresh, RejectFresh, TallyWithout
    <3>2. Standing(t.k)' = Standing(t.k) \ { t.report }
      BY <1>1, <2>3, SerialStanding
    <3> QED BY <3>1, <3>2 DEF TallyOf, UniqueReporters
  <2> QED BY <1>1, <2>1, <2>2, <2>3
<1>10. TalliesMatch'
  <2>1. ASSUME NEW k \in Clusters
        PROVE  /\ clusters'[k].tally = TallyOf(Standing(k))'
               /\ clusters'[k].case # Null => cases'[clusters'[k].case].tally = clusters'[k].tally
    <3>1. CASE k = t.k
      BY <1>1, <1>2, <1>3, <1>9, <3>1
    <3>2. CASE k # t.k
      <4>1. clusters'[k] = clusters[k]
        BY <1>2, <3>2
      <4>2. TallyOf(Standing(k))' = TallyOf(Standing(k))
        <5>1. Standing(k)' = Standing(k)
          BY <3>2, SerialStanding
        <5> QED BY <5>1 DEF TallyOf, UniqueReporters
      <4>3. clusters[k].case # Null => cases'[clusters[k].case] = cases[clusters[k].case]
        BY <1>3, <1>4, <1>7, <3>2
      <4> QED BY <4>1, <4>2, <4>3 DEF SInv, TablesSound, TalliesMatch
    <3> QED BY <3>1, <3>2
  <2> QED BY <2>1 DEF TalliesMatch
<1>11. ReportsFollowCluster'
  <2>1. ASSUME NEW r \in Reports, reports'[r].status \in { "clustered", "promoted" }
        PROVE  reports'[r].case = clusters'[reports'[r].cluster].case
    <3>1. CASE t.kind # "promote" /\ r = t.report
      BY <1>1, <1>2, <2>1, <3>1, SerialReports
    <3>2. CASE t.outcome = "create" /\ r \in Standing(t.k)
      BY <1>2, <3>2, SerialReports
    <3>3. CASE ~ (t.kind # "promote" /\ r = t.report) /\ ~ (t.outcome = "create" /\ r \in Standing(t.k))
      <4>1. reports'[r] = reports[r]
        BY <3>3, SerialReports
      <4>2. reports[r].cluster \in Clusters /\ reports[r].case = clusters[reports[r].cluster].case
        BY <1>6, <2>1, <4>1 DEF SInv, TablesSound, ReportsFollowCluster
      <4>3. reports[r].cluster = t.k => r \in Standing(t.k)
        BY <2>1, <4>1 DEF Standing
      <4> QED BY <1>1, <1>2, <3>3, <4>1, <4>2, <4>3
    <3> QED BY <3>1, <3>2, <3>3
  <2> QED BY <2>1 DEF ReportsFollowCluster
<1>12. StillBelow'
  <2>1. ASSUME clusters'[t.k].status = "open" PROVE t.tally.unique < Required
    <3>1. t.outcome # "create" /\ t.loaded.status = "open" /\ t.loaded.case = Null
      BY <1>1, <1>2, <2>1 DEF RequestSound, LoadedSound
    <3>2. t.tally.unique \in Nat /\ Required \in Nat
      BY <1>1, PolicyAssumption DEF Tally
    <3>3. CASE t.kind = "intake"
      <4>1. ~ Reached(t.tally)
        BY <1>1, <3>1, <3>3 DEF Fresh, IntakeFresh
      <4> QED BY <3>2, <4>1 DEF Reached
    <3>4. CASE t.kind = "reject"
      <4>1. clusters[t.k].status = "open" /\ t.tally = TallyOf(Standing(t.k) \ { t.report })
        BY <1>1, <3>1, <3>4 DEF Fresh, RejectFresh, TallyWithout
      <4>2. clusters[t.k].tally.unique < Required /\ clusters[t.k].tally = TallyOf(Standing(t.k))
        BY <1>1, <4>1 DEF SInv, TablesSound, StillBelow, TalliesMatch
      <4>3. UniqueReporters(Standing(t.k) \ { t.report }) <= UniqueReporters(Standing(t.k))
        <5>1. Standing(t.k) \in SUBSET Reports
              /\ Standing(t.k) \ { t.report } \in SUBSET Reports
          BY StandingTyped
        <5> QED BY <5>1, MorePeople
      <4>4. clusters[t.k].tally.unique \in Nat
        BY <1>1 DEF IInv, TypeOK, ClusterRow, Tally
      <4> QED BY <3>2, <4>1, <4>2, <4>3, <4>4 DEF TallyOf
    <3>5. t.kind # "promote"
      BY <1>1, <3>1 DEF Fresh, PromoteFresh
    <3> QED BY <1>1, <3>3, <3>4, <3>5
  <2> QED BY <1>2, <2>1 DEF SInv, TablesSound, StillBelow
<1>13. FinishedTogether'
  <2>1. ASSUME NEW k \in Clusters, clusters'[k].case # Null
        PROVE  clusters'[k].status = "finished" <=> cases'[clusters'[k].case].status = "finished"
    <3>1. CASE k = t.k /\ t.outcome = "create"
      BY <1>2, <1>3, <3>1
    <3>2. CASE k = t.k /\ t.outcome = "attach"
      <4>1. clusters[t.k] = t.loaded
        BY <1>1, <3>2
        DEF Fresh, IntakeFresh, PromoteFresh, RejectFresh, RowAsLoaded, Opened, NoCluster
      <4> QED BY <1>1, <1>2, <1>3, <3>2, <4>1 DEF SInv, TablesSound, FinishedTogether
    <3>3. CASE k # t.k
      BY <1>2, <1>3, <1>4, <1>7, <2>1, <3>3 DEF SInv, TablesSound, FinishedTogether
    <3> QED BY <1>1, <1>2, <2>1, <3>1, <3>2, <3>3
  <2> QED BY <2>1 DEF FinishedTogether
<1>14. NoEarlyTrigger'
  <2>1. ASSUME NEW c \in CaseIds, ~ Exists(c)' PROVE cases'[c].trigger = "none"
    <3>1. cases'[c].trigger = cases[c].trigger /\ ~ Exists(c)
      BY <1>1, <1>3, <2>1 DEF Exists
    <3> QED BY <3>1 DEF SInv, TablesSound, NoEarlyTrigger
  <2> QED BY <2>1 DEF NoEarlyTrigger
<1>15. OpenedByReport'
  <2>1. clusters'[t.k].status # "absent"
    BY <1>2
  <2>2. \A k \in Clusters : clusters[k].status # "absent" => clusters'[k].status # "absent"
    BY <1>2
  <2>3. ASSUME NEW r \in Reports
        PROVE  IF reports'[r].status = "absent" THEN clusters'[r].status = "absent"
               ELSE clusters'[reports'[r].cluster].status # "absent"
    <3>1. CASE reports'[r].status # "absent"
      <4>1. reports'[r].cluster = t.k \/ reports'[r] = reports[r]
        BY SerialReports, <1>1
      <4> QED BY <1>6, <2>1, <2>2, <3>1, <4>1 DEF SInv, TablesSound, OpenedByReport
    <3>2. CASE reports'[r].status = "absent"
      <4>1. reports[r].status = "absent" /\ ~ (t.kind # "promote" /\ r = t.report)
        BY <1>1, <3>2, SerialReports
      <4>2. clusters[r].status = "absent"
        BY <4>1 DEF SInv, TablesSound, OpenedByReport
      <4>3. r # t.k
        BY <1>1, <4>1, <4>2
        DEF Fresh, IntakeFresh, PromoteFresh, RejectFresh, RowAsLoaded
      <4> QED BY <1>2, <3>2, <4>2, <4>3 DEF Clusters
    <3> QED BY <3>1, <3>2
  <2> QED BY <2>3 DEF OpenedByReport
<1>16. \A v \in Workers : Fresh(req[v])'
  BY OthersIdle DEF Commit
<1> QED BY <1>8, <1>10, <1>11, <1>12, <1>13, <1>14, <1>15, <1>16 DEF SInv, TablesSound

-----------------------------------------------------------------------------
(* The invariant holds *)

LEMMA SerialStart == Init => SInv
<1> SUFFICES ASSUME Init PROVE SInv
  OBVIOUS
<1>1. \A k \in Clusters : Standing(k) = {}
  BY NullApart DEF Init, Standing, NoReport
<1>2. TallyOf({}) = Zero
  <2>1. { KeyOf[r] : r \in {} } \ { Null } = {} /\ { r \in {} : KeyOf[r] = Null } = {}
    OBVIOUS
  <2>2. Cardinality({}) = 0
    BY FS_EmptySet
  <2>3. UniqueReporters({}) = 0 + IF CountAnonymous THEN 0 ELSE 0
    BY <2>1, <2>2 DEF UniqueReporters
  <2> QED BY <2>2, <2>3 DEF TallyOf, Zero
<1>3. TalliesMatch
  BY <1>1, <1>2 DEF Init, TalliesMatch, NoCluster
<1>4. CasesOwned /\ ReportsFollowCluster /\ StillBelow
  BY DEF Init, CasesOwned, Exists, EmptyCase, ReportsFollowCluster, NoReport, StillBelow, NoCluster
<1>5. FinishedTogether /\ NoEarlyTrigger /\ OpenedByReport
  BY DEF Init, FinishedTogether, NoEarlyTrigger, OpenedByReport, Exists, EmptyCase, NoReport,
         NoCluster, Clusters
<1>6. \A w \in Workers : Fresh(req[w])
  BY IdleFresh DEF Init
<1> QED BY <1>3, <1>4, <1>5, <1>6 DEF SInv, TablesSound

LEMMA SerialStep == OneWorker /\ IInv /\ SInv /\ [Next]_vars => SInv'
<1> SUFFICES ASSUME OneWorker, IInv, SInv, [Next]_vars PROVE SInv'
  OBVIOUS
<1>1. ASSUME NEW w \in Workers, Begin(w) PROVE SInv'
  BY <1>1, SerialSubmit, SerialReject, SerialPromote, SerialFinish DEF Begin
<1>2. ASSUME NEW w \in Workers, Proceed(w) PROVE SInv'
  BY <1>2, SerialRecount, SerialDecideIntake, SerialDecidePromote DEF Proceed
<1>3. ASSUME NEW w \in Workers, DeadlockVictim(w) \/ Abort(w) PROVE SInv'
  BY <1>3, SerialRollback DEF DeadlockVictim, Abort
<1>4. CASE UNCHANGED vars
  <2>1. TablesSound'
    BY <1>4 DEF vars, SInv, TablesSound, CasesOwned, Exists, TalliesMatch, ReportsFollowCluster,
                StillBelow, FinishedTogether, NoEarlyTrigger, OpenedByReport, Standing
  <2>2. ASSUME NEW w \in Workers PROVE Fresh(req[w])'
    <3>1. Fresh(req[w]) /\ req'[w] = req[w] /\ UNCHANGED <<reports, clusters, cases>>
      BY <1>4 DEF vars, SInv
    <3> QED BY <3>1 DEF Fresh, IntakeFresh, PromoteFresh, RejectFresh, RowAsLoaded,
                        Standing, TallyWithout
  <2> QED BY <2>1, <2>2 DEF SInv
<1> QED BY <1>1, <1>2, <1>3, <1>4, SerialLock, SerialCommit DEF Next

\* With one request at a time, the tables agree and every request holds what is
\* committed, in every reachable state.
THEOREM SerialInvariance == ASSUME OneWorker PROVE Spec => [](IInv /\ SInv)
<1>1. Init => IInv /\ SInv
  BY Start, SerialStart
<1>2. (IInv /\ SInv) /\ [Next]_vars => (IInv /\ SInv)'
  BY OneWorker, Step, SerialStep
<1> QED BY <1>1, <1>2, PTL DEF Spec

-----------------------------------------------------------------------------
(* What it means for cases and counts *)

\* A spot never has two cases, however many reports, promotions, rejections and
\* aborted requests follow each other (create_case_from_cluster, once).
THEOREM OneCase == ASSUME OneWorker PROVE Spec => []OneCasePerCluster
<1>1. SInv => OneCasePerCluster
  BY DEF SInv, TablesSound, CasesOwned, OneCasePerCluster
<1> QED BY SerialInvariance, <1>1, PTL

\* The counts of cluster and case are those of the standing reports, and each
\* of these belongs to the case of its spot (_recount, reject_report).
THEOREM BooksKept == ASSUME OneWorker PROVE Spec => []BooksBalance
<1>1. SInv => BooksBalance
  BY DEF SInv, TablesSound, BooksBalance
<1> QED BY SerialInvariance, <1>1, PTL

\* No spot with enough distinct reporters is left without a case
\* (process_report).
THEOREM ThresholdKept == ASSUME OneWorker PROVE Spec => []ThresholdHonoured
<1>1. SInv => ThresholdHonoured
  <2> SUFFICES ASSUME SInv, NEW k \in Clusters, clusters[k].status = "open"
               PROVE  UniqueReporters(Standing(k)) < Required
    BY DEF ThresholdHonoured
  <2>1. clusters[k].tally.unique < Required /\ clusters[k].tally = TallyOf(Standing(k))
    BY DEF SInv, TablesSound, StillBelow, TalliesMatch
  <2> QED BY <2>1 DEF TallyOf
<1> QED BY SerialInvariance, <1>1, PTL

-----------------------------------------------------------------------------
(* What a step never does *)

\* Only a commit writes reports; cases are also written when one is finished.
LEMMA Writers ==
  ASSUME [Next]_vars
  PROVE  /\ UNCHANGED reports \/ \E w \in Workers : Commit(w)
         /\ UNCHANGED cases \/ \E w \in Workers : Commit(w)
                                                 \/ \E c \in CaseIds : FinishCase(w, c)
<1>1. CASE UNCHANGED vars
  BY <1>1 DEF vars
<1>2. ASSUME NEW w \in Workers, Begin(w)
      PROVE  \/ UNCHANGED <<reports, cases>>
             \/ UNCHANGED reports /\ (\E c \in CaseIds : FinishCase(w, c))
  BY <1>2 DEF Begin, SubmitReport, RejectReport, PromoteCluster, FinishCase
<1>3. ASSUME NEW w \in Workers,
             Proceed(w) \/ LockCluster(w) \/ DeadlockVictim(w) \/ Abort(w)
      PROVE  UNCHANGED <<reports, cases>>
  BY <1>3 DEF Proceed, Recount, DecideIntake, DecidePromote, LockCluster, DeadlockVictim,
              Abort, Rollback
<1> QED BY <1>1, <1>2, <1>3 DEF Next

LEMMA RejectedStep ==
  ASSUME IInv, SInv, [Next]_vars, NEW r \in Reports, reports[r].status = "rejected"
  PROVE  reports'[r].status = "rejected"
<1>1. CASE UNCHANGED reports
  BY <1>1
<1>2. ASSUME NEW w \in Workers, Commit(w) PROVE reports'[r].status = "rejected"
  <2>1. req[w].kind \in { "intake", "promote", "reject" } /\ r \notin Standing(req[w].k)
    BY <1>2, Committing DEF Standing
  <2> QED BY <1>2, <2>1, SerialReports
<1> QED BY <1>1, <1>2, Writers

LEMMA NewReportStep ==
  ASSUME OneWorker, IInv, SInv, [Next]_vars, NEW r \in Reports,
         reports[r].status = "absent", reports'[r].status = "promoted"
  PROVE  cases'[reports'[r].case].status = "unfinished"
<1> PICK w \in Workers : Commit(w)
  BY Writers
<1> PICK t : t = req[w]
  OBVIOUS
<1>1. /\ t \in Transaction /\ t.k \in Clusters /\ RequestSound(t) /\ Fresh(t)
      /\ t.kind \in { "intake", "promote", "reject" }
  BY Committing
<1>2. t.kind = "intake" /\ r = t.report /\ t.outcome # "none" /\ reports'[r].case = t.case
  BY <1>1, SerialReports
<1>3. CASE t.outcome = "create"
  BY <1>2, <1>3, SerialCases
<1>4. CASE t.outcome = "attach"
  <2>1. t.case \in CaseIds /\ t.case = t.loaded.case /\ t.case # Null
        /\ cases'[t.case].status = cases[t.case].status
    BY <1>4, Committing, SerialCases
  <2>2. t.loaded.status = "promoted"
    BY <1>1, <1>2, <2>1 DEF RequestSound, LoadedSound, Fresh, IntakeFresh
  <2>3. clusters[t.k] = t.loaded
    BY <1>1, <1>2, <2>2 DEF Fresh, IntakeFresh, RowAsLoaded, Opened, NoCluster
  <2>4. cases[t.case].status # "finished"
    BY <1>1, <2>1, <2>2, <2>3 DEF SInv, TablesSound, FinishedTogether
  <2>5. cases[t.case].status # "absent"
    BY <1>1, <2>1, <2>3, ClusterLoaded, NullApart DEF IInv, CasesPlaced
  <2>6. cases[t.case].status \in { "absent", "unfinished", "finished" }
    BY <2>1 DEF IInv, TypeOK, CaseRow
  <2> QED BY <1>2, <2>1, <2>4, <2>5, <2>6
<1> QED BY <1>1, <1>2, <1>3, <1>4 DEF Transaction

LEMMA ThresholdStep ==
  ASSUME OneWorker, IInv, SInv, [Next]_vars, NEW c \in CaseIds,
         ~ Exists(c), cases'[c].trigger = "threshold"
  PROVE  UniqueReporters({ r \in Reports :
           reports'[r].case = c /\ reports'[r].status # "rejected" }) >= Required
<1>1. cases[c].trigger = "none"
  BY DEF SInv, TablesSound, NoEarlyTrigger
<1>2. ASSUME NEW w \in Workers, NEW d \in CaseIds, FinishCase(w, d) PROVE FALSE
  <2>1. cases' = [cases EXCEPT ![d] = [cases[d] EXCEPT !.status = "finished"]]
        /\ cases \in [CaseIds -> CaseRow]
    BY <1>2 DEF FinishCase, IInv, TypeOK
  <2> QED BY <1>1, <2>1 DEF CaseRow
<1> PICK w \in Workers : Commit(w)
  BY <1>1, <1>2, Writers
<1> PICK t : t = req[w]
  OBVIOUS
<1>3. /\ t \in Transaction /\ t.k \in Clusters /\ t.pc = "commit" /\ Fresh(t)
      /\ t.kind \in { "intake", "promote", "reject" } /\ RequestSound(t)
      /\ t.outcome \in { "none", "attach", "create" }
      /\ t.outcome = "create" => t.loaded.case = Null /\ t.kind # "reject"
  BY Committing DEF Transaction
<1>4. t.outcome = "create" /\ t.case = c /\ t.kind = "intake"
  BY <1>1, <1>3, SerialCases
<1>5. t.tally = TallyOf(Standing(t.k) \cup { t.report }) /\ Reached(t.tally)
  BY <1>3, <1>4 DEF Fresh, IntakeFresh
<1>6. t.report \in Reports
  BY <1>3, <1>4 DEF RequestSound, ReportInHand, Transaction
<1> PICK S, T : /\ S = Standing(t.k) \cup { t.report }
                /\ T = { r \in Reports : reports'[r].case = c /\ reports'[r].status # "rejected" }
  OBVIOUS
<1>7. S \in SUBSET Reports /\ T \in SUBSET Reports /\ S \subseteq T
  <2>1. S \in SUBSET Reports
    BY <1>6, StandingTyped
  <2>2. ASSUME NEW r \in Standing(t.k) PROVE r \in T
    <3>1. r \in Reports
      BY DEF Standing
    <3>2. reports'[r].status = "promoted" /\ reports'[r].case = t.case
      BY <1>4, <3>1, SerialReports
    <3> QED BY <1>4, <3>1, <3>2
  <2>3. t.report \in T
    BY <1>4, <1>6, SerialReports
  <2> QED BY <2>1, <2>2, <2>3
<1>8. UniqueReporters(S) <= UniqueReporters(T)
  BY <1>7, MorePeople
<1>9. UniqueReporters(S) \in Nat /\ UniqueReporters(T) \in Nat
  BY <1>7, TallyTyped DEF TallyOf, Tally
<1>10. UniqueReporters(S) >= Required
  BY <1>5 DEF Reached, TallyOf
<1> QED BY <1>8, <1>9, <1>10, PolicyAssumption

\* A report judged not credible never counts again (reject_report).
THEOREM RejectedStay == ASSUME OneWorker PROVE Spec => RejectedStays
<1>1. (IInv /\ SInv) /\ [Next]_vars =>
        [\A r \in Reports :
           reports[r].status = "rejected" => reports'[r].status = "rejected"]_reports
  BY RejectedStep
<1> QED BY SerialInvariance, <1>1, PTL DEF Spec, RejectedStays

\* A report that joins a case when it arrives joins one officers still work on
\* (process_report).
THEOREM NewOnMap == ASSUME OneWorker PROVE Spec => NewReportOnMap
<1>1. (IInv /\ SInv) /\ [Next]_vars =>
        [\A r \in Reports :
           reports[r].status = "absent" /\ reports'[r].status = "promoted" =>
             cases'[reports'[r].case].status = "unfinished"]_reports
  BY OneWorker, NewReportStep
<1> QED BY SerialInvariance, <1>1, PTL DEF Spec, NewReportOnMap

\* A case opened by the threshold starts with enough distinct people whose
\* reports stand (process_report, create_case_from_cluster).
THEOREM ThresholdCases == ASSUME OneWorker PROVE Spec => ThresholdBacked
<1>1. (IInv /\ SInv) /\ [Next]_vars =>
        [\A c \in CaseIds :
           ~ Exists(c) /\ cases'[c].trigger = "threshold" =>
             UniqueReporters({ r \in Reports :
               reports'[r].case = c /\ reports'[r].status # "rejected" }) >= Required]_cases
  BY OneWorker, ThresholdStep
<1> QED BY SerialInvariance, <1>1, PTL DEF Spec, ThresholdBacked
=============================================================================
