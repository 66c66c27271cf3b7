-------------------------- MODULE FollowUp_proofs --------------------------
(***************************************************************************)
(* Proofs about FollowUp, for every set of reports, addresses and workers   *)
(* and every bound: the photos stay in order, who opted out stays so, and   *)
(* no subscriber is left with an old status.                                *)
(***************************************************************************)
EXTENDS FollowUp, FiniteSetTheorems, TLAPS

-----------------------------------------------------------------------------
(* Types *)

\* A move was only begun where there is a next status.
MovesOn == \A w \in Workers : req[w].pc = "move" => req[w].seen < MaxStatus

Typed == TypeOK /\ MovesOn

\* An idle request has the type of a request.
LEMMA IdleTyped == Idle \in Request /\ Idle.pc = "idle"
BY ReportsAssumption, BoundsAssumption DEF Idle, Request, AnyReport, NoReport, Report

\* A step of one request leaves the other requests typed.
LEMMA GotoTyped ==
  ASSUME Typed, NEW w \in Workers, NEW r \in Request, Goto(w, r),
         r.pc = "move" => r.seen < MaxStatus
  PROVE  req' \in [Workers -> Request] /\ MovesOn'
BY DEF Typed, TypeOK, MovesOn, Goto

\* What a promotion writes to a report.
LEMMA PromotionWrites ==
  ASSUME Typed, NEW w \in Workers, CommitPromotion(w)
  PROVE  /\ reports' \in [Reports -> Report]
         /\ \A r \in Reports :
              /\ r \notin req[w].chosen => reports'[r] = reports[r]
              /\ r \in req[w].chosen => reports'[r].linked
              /\ reports'[r].present = reports[r].present
              /\ reports'[r].opted = reports[r].opted
              /\ reports'[r].count = reports[r].count
<1> DEFINE Row(r) == [reports[r] EXCEPT !.linked = TRUE, !.rejected = FALSE]
<1>1. ASSUME NEW r \in Reports
      PROVE  /\ Row(r) \in Report /\ Row(r).linked /\ Row(r).present = reports[r].present
             /\ Row(r).opted = reports[r].opted /\ Row(r).count = reports[r].count
  <2>1. reports[r] \in Report
    BY DEF Typed, TypeOK
  <2> QED BY <2>1 DEF Report
<1>2. reports' = [r \in Reports |-> IF r \in req[w].chosen THEN Row(r) ELSE reports[r]]
  BY DEF CommitPromotion
<1>3. \A r \in Reports : reports[r] \in Report
  BY DEF Typed, TypeOK
<1> HIDE DEF Row
<1> QED BY <1>1, <1>2, <1>3

LEMMA TypeInit == Init => Typed
<1> SUFFICES ASSUME Init PROVE Typed
  OBVIOUS
<1>1. reports \in [Reports -> Report] /\ photos \in [PhotoIds -> Photo]
  BY ReportsAssumption DEF Init, NoReport, Report, NoPhoto, Photo, AnyReport
<1>2. req \in [Workers -> Request] /\ MovesOn
  BY IdleTyped DEF Init, MovesOn
<1>3. status \in 0..MaxStatus /\ files \subseteq PhotoIds
      /\ told \in [Addresses -> SUBSET (0..MaxStatus)] /\ crashes \in Nat
  BY BoundsAssumption DEF Init
<1> QED BY <1>1, <1>2, <1>3 DEF Typed, TypeOK

LEMMA TypeStep == Typed /\ [Next]_vars => Typed'
<1> SUFFICES ASSUME Typed, [Next]_vars PROVE Typed'
  OBVIOUS
<1> USE IdleTyped DEF Typed, TypeOK
<1>1. ASSUME NEW w \in Workers, NEW r \in Reports, NEW opted \in BOOLEAN, Submit(w, r, opted)
      PROVE  Typed'
  <2>1. reports' \in [Reports -> Report]
    <3>1. (status > 0) \in BOOLEAN
      BY BoundsAssumption
    <3>2. [NoReport EXCEPT !.present = TRUE, !.opted = opted, !.linked = status > 0] \in Report
      BY <3>1 DEF NoReport, Report
    <3> QED BY <1>1, <3>2 DEF Submit
  <2>3. req' \in [Workers -> Request] /\ MovesOn'
    <3>1. [Idle EXCEPT !.pc = "join", !.report = r, !.seen = status] \in Request
      BY DEF Request, Idle
    <3> QED BY <1>1, <3>1, GotoTyped DEF Submit, Request, Idle
  <2> QED BY <1>1, <2>1, <2>3 DEF Submit
<1>2. ASSUME NEW w \in Workers, Join(w) PROVE Typed'
  <2>0. /\ \/ told' = told
           \/ told' = [told EXCEPT ![AddressOf[req[w].report]] = @ \cup { status }]
        /\ Goto(w, Idle) /\ UNCHANGED <<reports, photos, files, status, crashes>>
    BY <1>2 DEF Join
  <2>1. told' \in [Addresses -> SUBSET (0..MaxStatus)]
    BY <2>0
  <2>2. req' \in [Workers -> Request] /\ MovesOn'
    BY <2>0, GotoTyped
  <2> QED BY <2>0, <2>1, <2>2
<1>3. ASSUME NEW w \in Workers, NEW r \in Reports, Reject(w, r) PROVE Typed'
  <2>1. reports' \in [Reports -> Report]
    BY <1>3 DEF Reject, Report
  <2> QED BY <1>3, <2>1 DEF Reject, MovesOn
<1>4. ASSUME NEW w \in Workers, NEW r \in Reports, Unsubscribe(w, r) PROVE Typed'
  <2>1. reports' \in [Reports -> Report]
    BY <1>4 DEF Unsubscribe, Report
  <2> QED BY <1>4, <2>1 DEF Unsubscribe, MovesOn
<1>5. ASSUME NEW w \in Workers, NEW r \in Reports, Upload(w, r) PROVE Typed'
  <2>1. [Idle EXCEPT !.pc = "read", !.report = r, !.row = reports[r]] \in Request
    BY DEF Request, Idle
  <2>2. req' \in [Workers -> Request] /\ MovesOn'
    BY <1>5, <2>1, GotoTyped DEF Upload, Idle
  <2> QED BY <1>5, <2>2 DEF Upload
<1>6. ASSUME NEW w \in Workers, RefusePhoto(w) PROVE Typed'
  <2>1. req' \in [Workers -> Request] /\ MovesOn'
    BY <1>6, GotoTyped DEF RefusePhoto
  <2> QED BY <1>6, <2>1 DEF RefusePhoto
<1>7. ASSUME NEW w \in Workers, Store(w) PROVE Typed'
  <2>1. PICK id \in PhotoIds \ files :
          files' = Stored(id) /\ Goto(w, [req[w] EXCEPT !.pc = "save", !.id = id])
    BY <1>7 DEF Store
  <2>2. [req[w] EXCEPT !.pc = "save", !.id = id] \in Request
    <3>1. id \in Nat
      BY BoundsAssumption DEF PhotoIds
    <3> QED BY <3>1 DEF Request
  <2>3. req' \in [Workers -> Request] /\ MovesOn'
    BY <2>1, <2>2, GotoTyped DEF Request
  <2>4. files' \subseteq PhotoIds
    BY <2>1 DEF Stored
  <2> QED BY <1>7, <2>3, <2>4 DEF Store
<1>8. ASSUME NEW w \in Workers, SavePhoto(w) PROVE Typed'
  <2>1. reports' \in [Reports -> Report]
    BY <1>8 DEF SavePhoto, Written, Report, Request
  <2>2. photos' \in [PhotoIds -> Photo]
    BY <1>8 DEF SavePhoto, Photo, Request, Report
  <2>3. req' \in [Workers -> Request] /\ MovesOn'
    BY <1>8, GotoTyped DEF SavePhoto
  <2> QED BY <1>8, <2>1, <2>2, <2>3 DEF SavePhoto
<1>9. ASSUME NEW w \in Workers, Promote(w) PROVE Typed'
  <2>1. PICK chosen \in SUBSET Reports, pictures \in SUBSET PhotoIds :
          Goto(w, [Idle EXCEPT !.pc = "promote", !.chosen = chosen, !.pictures = pictures])
    BY <1>9 DEF Promote, PhotosOf
  <2>2. [Idle EXCEPT !.pc = "promote", !.chosen = chosen, !.pictures = pictures] \in Request
    BY DEF Request, Idle
  <2>3. req' \in [Workers -> Request] /\ MovesOn'
    BY <2>1, <2>2, GotoTyped DEF Idle
  <2> QED BY <1>9, <2>3 DEF Promote
<1>10. ASSUME NEW w \in Workers, CommitPromotion(w) PROVE Typed'
  <2>1. reports' \in [Reports -> Report]
    BY <1>10, PromotionWrites
  <2>2. photos' \in [PhotoIds -> Photo]
    BY <1>10 DEF CommitPromotion, Photo
  <2>3. [Idle EXCEPT !.pc = "choose"] \in Request
    BY DEF Request, Idle
  <2>4. req' \in [Workers -> Request] /\ MovesOn'
    BY <1>10, <2>3, GotoTyped DEF CommitPromotion, Idle
  <2>5. status' \in 0..MaxStatus
    <3>1. status' = 1
      BY <1>10 DEF CommitPromotion
    <3> QED BY <3>1, BoundsAssumption
  <2>6. UNCHANGED <<files, told, crashes>>
    BY <1>10 DEF CommitPromotion
  <2> QED BY <2>1, <2>2, <2>4, <2>5, <2>6
<1>11. ASSUME NEW w \in Workers, Move(w) PROVE Typed'
  <2>1. [Idle EXCEPT !.pc = "move", !.seen = status] \in Request
    BY DEF Request, Idle
  <2>2. status < MaxStatus
    BY <1>11, BoundsAssumption DEF Move
  <2>3. req' \in [Workers -> Request] /\ MovesOn'
    BY <1>11, <2>1, <2>2, GotoTyped DEF Move, Idle
  <2> QED BY <1>11, <2>3 DEF Move
<1>12. ASSUME NEW w \in Workers, CommitMove(w) PROVE Typed'
  <2>1. [req[w] EXCEPT !.pc = "choose"] \in Request
    BY DEF Request
  <2>2. req' \in [Workers -> Request] /\ MovesOn'
    BY <1>12, <2>1, GotoTyped DEF CommitMove, Request
  <2>3. req[w].seen \in 0..MaxStatus /\ req[w].seen < MaxStatus
    BY <1>12 DEF CommitMove, MovesOn, Request
  <2>4. status' \in 0..MaxStatus
    BY <1>12, <2>3, BoundsAssumption DEF CommitMove
  <2> QED BY <1>12, <2>2, <2>4 DEF CommitMove
<1>13. ASSUME NEW w \in Workers, Choose(w) PROVE Typed'
  <2>1. PICK chosen \in SUBSET Reports :
          Goto(w, IF status = req[w].seen THEN Idle
                  ELSE [Idle EXCEPT !.pc = "tell", !.seen = status, !.chosen = chosen])
    BY <1>13 DEF Choose
  <2>2. [Idle EXCEPT !.pc = "tell", !.seen = status, !.chosen = chosen] \in Request
    BY DEF Request, Idle
  <2>3. req' \in [Workers -> Request] /\ MovesOn'
    BY <2>1, <2>2, GotoTyped DEF Idle
  <2> QED BY <1>13, <2>3 DEF Choose
<1>14. ASSUME NEW w \in Workers, Tell(w) PROVE Typed'
  <2>1. told' \in [Addresses -> SUBSET (0..MaxStatus)]
    BY <1>14 DEF Tell, Request
  <2>2. req' \in [Workers -> Request] /\ MovesOn'
    BY <1>14, GotoTyped DEF Tell
  <2> QED BY <1>14, <2>1, <2>2 DEF Tell
<1>15. ASSUME Crash PROVE Typed'
  BY <1>15 DEF Crash, MovesOn
<1>16. CASE UNCHANGED vars
  BY <1>16 DEF vars, MovesOn
<1> QED
  BY <1>1, <1>2, <1>3, <1>4, <1>5, <1>6, <1>7, <1>8, <1>9, <1>10, <1>11, <1>12, <1>13, <1>14,
     <1>15, <1>16 DEF Next, Begin, Proceed

LEMMA TypeInvariant == Spec => []Typed
BY TypeInit, TypeStep, PTL DEF Spec

\* Every variable keeps its type, whatever the reports, the workers and the
\* bounds.
THEOREM TypeCorrect == Spec => []TypeOK
<1>1. Typed => TypeOK
  BY DEF Typed
<1> QED BY <1>1, TypeInvariant, PTL

-----------------------------------------------------------------------------
(* Who opted out stays so *)

\* Whatever a request loaded before, no step subscribes a report again.
THEOREM NotSubscribedAgain == Spec => OptOutStays
<1>1. Typed /\ [Next]_vars =>
        [\A r \in Reports :
           reports[r].present /\ ~ reports[r].opted => ~ reports'[r].opted]_reports
  <2> SUFFICES ASSUME Typed, [Next]_vars, reports' # reports, NEW r \in Reports,
                      reports[r].present, ~ reports[r].opted
               PROVE  ~ reports'[r].opted
    OBVIOUS
  <2> USE DEF Typed, TypeOK, Report, Request
  <2>1. ASSUME NEW w \in Workers, NEW s \in Reports, NEW opted \in BOOLEAN,
               Submit(w, s, opted)
        PROVE  ~ reports'[r].opted
    BY <2>1 DEF Submit
  <2>2. ASSUME NEW w \in Workers, NEW s \in Reports, Reject(w, s) \/ Unsubscribe(w, s)
        PROVE  ~ reports'[r].opted
    BY <2>2 DEF Reject, Unsubscribe
  <2>3. ASSUME NEW w \in Workers, SavePhoto(w) PROVE ~ reports'[r].opted
    BY <2>3 DEF SavePhoto, Written
  <2>4. ASSUME NEW w \in Workers, CommitPromotion(w) PROVE ~ reports'[r].opted
    BY <2>4, PromotionWrites
  <2>5. ASSUME NEW w \in Workers, NEW s \in Reports,
               \/ Upload(w, s) \/ Promote(w) \/ Move(w) \/ Join(w) \/ RefusePhoto(w)
               \/ Store(w) \/ CommitMove(w) \/ Choose(w) \/ Tell(w)
        PROVE  UNCHANGED reports
    BY <2>5 DEF Upload, Promote, Move, Join, RefusePhoto, Store, CommitMove, Choose, Tell
  <2>6. UNCHANGED vars \/ Crash => UNCHANGED reports
    BY DEF vars, Crash
  <2> QED
    BY <2>1, <2>2, <2>3, <2>4, <2>5, <2>6 DEF Next, Begin, Proceed
<1> QED BY <1>1, TypeInvariant, PTL DEF Spec, OptOutStays

-----------------------------------------------------------------------------
(* No subscriber is left with an old status *)

\* A request that will tell the reporter of r the status the case has.
Carries(w, r) ==
  \/ req[w].pc = "join" /\ req[w].report = r
  \/ req[w].pc = "choose" /\ req[w].seen # status
  \/ /\ req[w].pc = "tell" /\ req[w].seen = status
     /\ \E q \in req[w].chosen : AddressOf[q] = AddressOf[r]

Hears(r) == status \in told[AddressOf[r]] \/ \E w \in Workers : Carries(w, r)

\* While no process died and no report is rejected, each subscriber knows the status or a request is on
\* the way to tell it.
HearInv ==
  crashes = 0 /\ ~ SomeRejected => \A r \in Reports : Subscribed(r) => Hears(r)

\* A step of a request that was not about to tell anyone, and that moves and
\* subscribes nothing.
LEMMA QuietHears ==
  ASSUME Typed, HearInv, NEW w \in Workers, NEW q, Goto(w, q),
         req[w].pc \notin { "join", "choose", "tell" },
         UNCHANGED <<status, told, crashes>>,
         SomeRejected => SomeRejected',
         \A r \in Reports : Subscribed(r)' => Subscribed(r)
  PROVE  HearInv'
<1> SUFFICES ASSUME crashes' = 0, ~ SomeRejected', NEW r \in Reports, Subscribed(r)' PROVE Hears(r)'
  BY DEF HearInv
<1>1. Hears(r)
  BY DEF HearInv, SomeRejected
<1>2. CASE status \in told[AddressOf[r]]
  BY <1>2 DEF Hears
<1>3. ASSUME NEW v \in Workers, Carries(v, r) PROVE Hears(r)'
  <2>1. v # w
    BY <1>3 DEF Carries
  <2>2. req'[v] = req[v]
    BY <2>1 DEF Goto, Typed, TypeOK
  <2>3. Carries(v, r)'
    BY <1>3, <2>2 DEF Carries
  <2> QED BY <2>3 DEF Hears
<1> QED BY <1>1, <1>2, <1>3 DEF Hears

\* The worker that has just moved the case tells everyone.
LEMMA MoverCarries ==
  ASSUME Typed, NEW w \in Workers, NEW q, Goto(w, q), q.pc = "choose", q.seen # status'
  PROVE  HearInv'
<1>1. req'[w] = q
  BY DEF Goto, Typed, TypeOK
<1>2. \A r \in Reports : Carries(w, r)'
  BY <1>1 DEF Carries
<1> QED BY <1>2 DEF HearInv, Hears

LEMMA HearStep == Typed /\ HearInv /\ [Next]_vars => HearInv'
<1> SUFFICES ASSUME Typed, HearInv, [Next]_vars PROVE HearInv'
  OBVIOUS
<1> USE DEF Typed, TypeOK
<1>1. ASSUME NEW w \in Workers, NEW r \in Reports, NEW opted \in BOOLEAN, Submit(w, r, opted)
      PROVE  HearInv'
  <2> SUFFICES ASSUME crashes' = 0, ~ SomeRejected', NEW s \in Reports, Subscribed(s)' PROVE Hears(s)'
    BY DEF HearInv
  <2>1. CASE s = r
    <3>1. opted /\ status > 0
      BY <1>1, <2>1 DEF Submit, Subscribed, NoReport
    <3>2. req'[w] = [Idle EXCEPT !.pc = "join", !.report = r, !.seen = status]
      BY <1>1, <3>1 DEF Submit, Goto, HearsOnJoining
    <3>3. Carries(w, s)'
      BY <2>1, <3>2 DEF Carries, Idle
    <3> QED BY <3>3 DEF Hears
  <2>2. CASE s # r
    <3>1. Subscribed(s)
      BY <1>1, <2>2 DEF Submit, Subscribed
    <3>2. ~ SomeRejected /\ crashes = 0
      <4> SUFFICES ASSUME NEW x \in Reports, reports[x].present, reports[x].rejected PROVE FALSE
        BY <1>1 DEF SomeRejected, Submit
      <4>1. x # r /\ reports'[x] = reports[x]
        BY <1>1 DEF Submit
      <4> QED BY <4>1 DEF SomeRejected
    <3>5. Hears(s)
      BY <3>1, <3>2 DEF HearInv
    <3>3. CASE status \in told[AddressOf[s]]
      BY <1>1, <3>3 DEF Hears, Submit
    <3>4. ASSUME NEW v \in Workers, Carries(v, s) PROVE Hears(s)'
      <4>1. v # w
        BY <1>1, <3>4 DEF Carries, Submit
      <4>2. req'[v] = req[v]
        BY <1>1, <4>1 DEF Submit, Goto
      <4>3. Carries(v, s)'
        BY <1>1, <3>4, <4>2 DEF Carries, Submit
      <4> QED BY <4>3 DEF Hears
    <3> QED BY <3>5, <3>3, <3>4 DEF Hears
  <2> QED BY <2>1, <2>2
<1>2. ASSUME NEW w \in Workers, Join(w) PROVE HearInv'
  <2> SUFFICES ASSUME crashes' = 0, ~ SomeRejected', NEW s \in Reports, Subscribed(s)' PROVE Hears(s)'
    BY DEF HearInv
  <2>0. ~ SomeRejected /\ crashes = 0
    BY <1>2 DEF Join, SomeRejected
  <2>1. Subscribed(s) /\ Hears(s)
    BY <1>2, <2>0 DEF Join, Subscribed, HearInv
  <2>2. \A a \in Addresses : told[a] \subseteq told'[a]
    BY <1>2 DEF Join
  <2>3. AddressOf[s] \in Addresses /\ status' = status
    BY <1>2, AddressAssumption DEF Join
  <2>4. CASE status \in told[AddressOf[s]]
    BY <2>2, <2>3, <2>4 DEF Hears
  <2>5. ASSUME NEW v \in Workers, Carries(v, s) PROVE Hears(s)'
    <3>1. CASE v = w
      <4>1. req[w].report = s
        BY <1>2, <2>5, <3>1 DEF Carries, Join
      <4>2. reports[s].opted
        BY <2>1 DEF Subscribed
      <4>3. status \in told'[AddressOf[s]]
        BY <1>2, <2>0, <2>3, <4>1, <4>2 DEF Join
      <4> QED BY <2>3, <4>3 DEF Hears
    <3>2. CASE v # w
      <4>1. req'[v] = req[v]
        BY <1>2, <3>2 DEF Join, Goto
      <4>2. Carries(v, s)'
        BY <2>3, <2>5, <4>1 DEF Carries
      <4> QED BY <4>2 DEF Hears
    <3> QED BY <3>1, <3>2
  <2> QED BY <2>1, <2>4, <2>5 DEF Hears
<1>3. ASSUME NEW w \in Workers, NEW r \in Reports,
             Reject(w, r) \/ Unsubscribe(w, r) \/ Upload(w, r)
      PROVE  HearInv'
  <2>1. /\ req[w].pc = "idle" /\ UNCHANGED <<status, told, crashes>>
        /\ \E q : Goto(w, q)
    BY <1>3 DEF Reject, Unsubscribe, Upload, Goto
  <2>2. \A s \in Reports : Subscribed(s)' => Subscribed(s)
    BY <1>3 DEF Reject, Unsubscribe, Upload, Subscribed, Report
  <2>3. SomeRejected => SomeRejected'
    BY <1>3 DEF Reject, Unsubscribe, Upload, SomeRejected, Report
  <2> QED BY <2>1, <2>2, <2>3, QuietHears
<1>4. ASSUME NEW w \in Workers, RefusePhoto(w) \/ Store(w) \/ SavePhoto(w) PROVE HearInv'
  <2>1. /\ req[w].pc \in { "read", "save" } /\ UNCHANGED <<status, told, crashes>>
        /\ \E q : Goto(w, q)
    BY <1>4 DEF RefusePhoto, Store, SavePhoto
  <2>2. \A s \in Reports : Subscribed(s)' => Subscribed(s)
    <3>1. CASE RefusePhoto(w) \/ Store(w)
      BY <3>1 DEF RefusePhoto, Store, Subscribed
    <3>2. CASE SavePhoto(w)
      <4> SUFFICES ASSUME NEW s \in Reports PROVE Subscribed(s)' => Subscribed(s)
        OBVIOUS
      <4>1. /\ reports'[s].linked = reports[s].linked
            /\ reports'[s].opted = reports[s].opted
            /\ reports'[s].rejected = reports[s].rejected
        BY <3>2 DEF SavePhoto, Written, Report
      <4> QED BY <4>1 DEF Subscribed
    <3> QED BY <1>4, <3>1, <3>2
  <2>3. SomeRejected => SomeRejected'
    <3>1. CASE RefusePhoto(w) \/ Store(w)
      BY <3>1 DEF RefusePhoto, Store, SomeRejected
    <3>2. CASE SavePhoto(w)
      <4>1. \A s \in Reports : /\ reports'[s].present = reports[s].present
                              /\ reports'[s].rejected = reports[s].rejected
        BY <3>2 DEF SavePhoto, Written, Report
      <4> QED BY <4>1 DEF SomeRejected
    <3> QED BY <1>4, <3>1, <3>2
  <2> QED BY <2>1, <2>2, <2>3, QuietHears
<1>5. ASSUME NEW w \in Workers, Promote(w) \/ Move(w) PROVE HearInv'
  <2>1. /\ req[w].pc = "idle" /\ UNCHANGED <<status, told, crashes>>
        /\ \E q : Goto(w, q)
    BY <1>5 DEF Promote, Move
  <2>2. \A s \in Reports : Subscribed(s)' => Subscribed(s)
    BY <1>5 DEF Promote, Move, Subscribed
  <2>3. SomeRejected => SomeRejected'
    BY <1>5 DEF Promote, Move, SomeRejected
  <2> QED BY <2>1, <2>2, <2>3, QuietHears
<1>6. ASSUME NEW w \in Workers, CommitPromotion(w) PROVE HearInv'
  <2>1. Goto(w, [Idle EXCEPT !.pc = "choose"]) /\ status' = 1
    BY <1>6 DEF CommitPromotion
  <2> DEFINE q == [Idle EXCEPT !.pc = "choose"]
  <2>2. q.pc = "choose" /\ q.seen # status'
    BY <2>1 DEF Idle
  <2>3. Goto(w, q)
    BY <2>1
  <2> HIDE DEF q
  <2> QED BY <2>2, <2>3, MoverCarries
<1>7. ASSUME NEW w \in Workers, CommitMove(w) PROVE HearInv'
  <2> DEFINE q == [req[w] EXCEPT !.pc = "choose"]
  <2>1. Goto(w, q) /\ status' = req[w].seen + 1
    BY <1>7 DEF CommitMove
  <2>2. q.pc = "choose" /\ q.seen = req[w].seen /\ req[w].seen \in Nat
    BY BoundsAssumption DEF Request
  <2>3. q.seen # status'
    BY <2>1, <2>2
  <2> HIDE DEF q
  <2> QED BY <2>1, <2>2, <2>3, MoverCarries
<1>8. ASSUME NEW w \in Workers, Choose(w) PROVE HearInv'
  <2> SUFFICES ASSUME crashes' = 0, ~ SomeRejected', NEW s \in Reports, Subscribed(s)' PROVE Hears(s)'
    BY DEF HearInv
  <2>1. Subscribed(s) /\ Hears(s)
    BY <1>8 DEF Choose, Subscribed, HearInv, SomeRejected
  <2>2. CASE status \in told[AddressOf[s]]
    BY <1>8, <2>2 DEF Hears, Choose
  <2>3. ASSUME NEW v \in Workers, Carries(v, s) PROVE Hears(s)'
    <3>1. CASE v = w
      <4>1. status # req[w].seen
        BY <1>8, <2>3, <3>1 DEF Carries, Choose
      <4>2. req'[w] = [Idle EXCEPT !.pc = "tell", !.seen = status,
                                   !.chosen = { r \in Reports : Subscribed(r) }]
        BY <1>8, <4>1 DEF Choose, Goto
      <4>3. /\ req'[w].pc = "tell" /\ req'[w].seen = status
            /\ req'[w].chosen = { r \in Reports : Subscribed(r) }
        BY <4>2 DEF Idle
      <4>4. status' = status
        BY <1>8 DEF Choose
      <4>5. Carries(w, s)'
        BY <2>1, <4>3, <4>4 DEF Carries
      <4> QED BY <4>5 DEF Hears
    <3>2. CASE v # w
      <4>1. req'[v] = req[v] /\ status' = status
        BY <1>8, <3>2 DEF Choose, Goto
      <4>2. Carries(v, s)'
        BY <2>3, <4>1 DEF Carries
      <4> QED BY <4>2 DEF Hears
    <3> QED BY <3>1, <3>2
  <2> QED BY <2>1, <2>2, <2>3 DEF Hears
<1>9. ASSUME NEW w \in Workers, Tell(w) PROVE HearInv'
  <2> SUFFICES ASSUME crashes' = 0, ~ SomeRejected', NEW s \in Reports, Subscribed(s)' PROVE Hears(s)'
    BY DEF HearInv
  <2>1. Subscribed(s) /\ Hears(s)
    BY <1>9 DEF Tell, Subscribed, HearInv, SomeRejected
  <2>2. AddressOf[s] \in Addresses /\ status' = status
    BY <1>9, AddressAssumption DEF Tell
  <2>3. CASE status \in told[AddressOf[s]]
    BY <1>9, <2>2, <2>3 DEF Hears, Tell
  <2>4. ASSUME NEW v \in Workers, Carries(v, s) PROVE Hears(s)'
    <3>1. CASE v = w
      <4>1. /\ req[w].seen = status
            /\ \E r \in req[w].chosen : AddressOf[r] = AddressOf[s]
        BY <1>9, <2>4, <3>1 DEF Carries, Tell
      <4>2. status \in told'[AddressOf[s]]
        BY <1>9, <2>2, <4>1 DEF Tell
      <4> QED BY <2>2, <4>2 DEF Hears
    <3>2. CASE v # w
      <4>1. req'[v] = req[v]
        BY <1>9, <3>2 DEF Tell, Goto
      <4>2. Carries(v, s)'
        BY <2>2, <2>4, <4>1 DEF Carries
      <4> QED BY <4>2 DEF Hears
    <3> QED BY <3>1, <3>2
  <2> QED BY <2>1, <2>3, <2>4 DEF Hears
<1>10. ASSUME Crash PROVE HearInv'
  BY <1>10 DEF Crash, HearInv
<1>11. CASE UNCHANGED vars
  BY <1>11 DEF vars, HearInv, Hears, Carries, Subscribed, SomeRejected
<1> QED
  BY <1>1, <1>2, <1>3, <1>4, <1>5, <1>6, <1>7, <1>8, <1>9, <1>10, <1>11
  DEF Next, Begin, Proceed

\* However reports join and requests move the case, once all is quiet each
\* subscriber was told where the case is.
THEOREM NobodyLeftOut == Spec => []SubscribersTold
<1>1. Init => HearInv
  BY DEF Init, HearInv, Subscribed, NoReport
<1>2. HearInv => SubscribersTold
  BY DEF HearInv, Hears, Carries, SubscribersTold
<1> QED BY <1>1, <1>2, HearStep, TypeInvariant, PTL DEF Spec

-----------------------------------------------------------------------------
(* The photos stay in order *)

Uploading(r) == { w \in Workers : req[w].pc \in { "read", "save" } /\ req[w].report = r }

\* Each upload in progress keeps its place in the count from its first step on.
CountedAhead ==
  \A r \in Reports :
    Cardinality(PhotosOf(r)) + Cardinality(Uploading(r)) <= MaxPhotos + Cardinality(Workers) - 1

\* What an upload loaded still holds: reports are never taken back, counts and
\* links never shrink; and the file it wrote waits for its row.
UploadOK(w) ==
  LET q == req[w] IN
  /\ q.pc \in { "read", "save" } =>
       /\ reports[q.report].present
       /\ q.row.count <= Cardinality(PhotosOf(q.report))
       /\ q.row.linked => reports[q.report].linked
  /\ q.pc = "save" =>
       /\ q.id \in files /\ ~ photos[q.id].present
       /\ \A v \in Workers : req[v].pc = "save" => v = w

\* A promotion links photos of the reports it takes along.
PromotionOK(q) ==
  /\ \A r \in q.chosen : reports[r].present
  /\ \A i \in q.pictures : photos[i].present /\ photos[i].report \in q.chosen

Bare == \A r \in Reports : ~ reports[r].present => reports[r] = NoReport

PhotoInv ==
  /\ PhotosServable /\ CountBacked /\ LinkBacked /\ CountedAhead /\ Bare
  /\ \A w \in Workers : UploadOK(w) /\ (req[w].pc = "promote" => PromotionOK(req[w]))

\* Photos and uploads of a report can be counted.
LEMMA Countable ==
  ASSUME NEW r \in Reports
  PROVE  /\ IsFiniteSet(PhotosOf(r)) /\ Cardinality(PhotosOf(r)) \in Nat
         /\ IsFiniteSet(Uploading(r)) /\ Cardinality(Uploading(r)) \in Nat
         /\ Cardinality(Uploading(r)) <= Cardinality(Workers) /\ Cardinality(Workers) \in Nat
<1>1. IsFiniteSet(PhotoIds)
  BY FS_Interval, BoundsAssumption DEF PhotoIds
<1>2. PhotosOf(r) \subseteq PhotoIds /\ Uploading(r) \subseteq Workers
  BY DEF PhotosOf, Uploading
<1> QED BY <1>1, <1>2, FS_Subset, FS_CardinalityType, WorkersAssumption

\* A report may be changed as long as it is not taken back and its count and its
\* link do not shrink.
Kept(r) ==
  /\ reports'[r].count <= reports[r].count
  /\ reports[r].linked => reports'[r].linked
  /\ reports[r].present => reports'[r].present
  /\ ~ reports'[r].present => reports'[r] = NoReport

\* A step of a request that neither uploads nor links photos.
LEMMA QuietPhotos ==
  ASSUME Typed, Typed', PhotoInv, NEW w \in Workers, NEW q, Goto(w, q),
         req[w].pc \notin { "read", "save" }, q.pc \notin { "read", "save" },
         UNCHANGED <<photos, files>>, \A r \in Reports : Kept(r),
         q.pc = "promote" => PromotionOK(q)
  PROVE  PhotoInv'
<1> USE DEF Typed, TypeOK
<1>1. req'[w] = q /\ \A v \in Workers : v # w => req'[v] = req[v]
  BY DEF Goto
<1>2. \A r \in Reports : PhotosOf(r)' = PhotosOf(r) /\ Uploading(r)' = Uploading(r)
  BY <1>1 DEF PhotosOf, Uploading
<1>3. PhotosServable' /\ CountedAhead' /\ Bare'
  BY <1>2 DEF PhotoInv, PhotosServable, CountedAhead, Bare, Kept
<1>4. CountBacked'
  <2> SUFFICES ASSUME NEW r \in Reports
               PROVE  reports'[r].count <= Cardinality(PhotosOf(r)')
    BY DEF CountBacked
  <2>1. reports[r].count <= Cardinality(PhotosOf(r)) /\ reports'[r].count <= reports[r].count
    BY DEF PhotoInv, CountBacked, Kept
  <2>2. reports[r].count \in Nat /\ reports'[r].count \in Nat
    BY DEF Report
  <2>3. Cardinality(PhotosOf(r)) \in Nat /\ PhotosOf(r)' = PhotosOf(r)
    BY <1>2, Countable
  <2> QED BY <2>1, <2>2, <2>3
<1>5. LinkBacked'
  BY DEF PhotoInv, LinkBacked, Kept, Photo
<1>6. ASSUME NEW v \in Workers PROVE UploadOK(v)'
  <2>1. CASE v = w
    BY <1>1, <2>1 DEF UploadOK
  <2>2. CASE v # w
    <3>1. UploadOK(v) /\ req'[v] = req[v] /\ req[v].report \in Reports
      BY <1>1, <2>2 DEF PhotoInv, Request
    <3>2. \A u \in Workers : req'[u].pc = "save" => req[u].pc = "save"
      BY <1>1
    <3> QED BY <1>2, <3>1, <3>2 DEF UploadOK, Kept
  <2> QED BY <2>1, <2>2
<1>7. ASSUME NEW v \in Workers, req'[v].pc = "promote" PROVE PromotionOK(req[v])'
  <2>1. PromotionOK(req'[v])
    BY <1>1, <1>7 DEF PhotoInv
  <2>2. req'[v].chosen \subseteq Reports
    BY DEF Request
  <2> QED BY <2>1, <2>2 DEF PromotionOK, Kept
<1> QED BY <1>3, <1>4, <1>5, <1>6, <1>7 DEF PhotoInv

\* The steps that do not touch a photo.
LEMMA OtherSteps ==
  ASSUME Typed, Typed', PhotoInv, NEW w \in Workers,
         \/ \E r \in Reports : Reject(w, r) \/ Unsubscribe(w, r)
         \/ \E r \in Reports, opted \in BOOLEAN : Submit(w, r, opted)
         \/ Promote(w) \/ Move(w) \/ Join(w) \/ CommitMove(w) \/ Choose(w) \/ Tell(w)
  PROVE  PhotoInv'
<1> USE DEF Typed, TypeOK
<1>1. ASSUME NEW r \in Reports, Reject(w, r) \/ Unsubscribe(w, r) PROVE PhotoInv'
  <2>1. req[w].pc = "idle" /\ Goto(w, req[w]) /\ UNCHANGED <<photos, files>>
    BY <1>1 DEF Reject, Unsubscribe, Goto
  <2>2. ASSUME NEW s \in Reports PROVE Kept(s)
    <3>1. /\ reports'[s].count = reports[s].count /\ reports'[s].linked = reports[s].linked
          /\ reports'[s].present = reports[s].present
          /\ ~ reports[s].present => reports'[s] = reports[s]
      BY <1>1 DEF Reject, Unsubscribe, Report
    <3>2. reports[s].count \in Nat /\ (~ reports[s].present => reports[s] = NoReport)
      BY DEF Report, PhotoInv, Bare
    <3> QED BY <3>1, <3>2 DEF Kept
  <2> QED BY <2>1, <2>2, QuietPhotos
<1>2. ASSUME NEW r \in Reports, NEW opted \in BOOLEAN, Submit(w, r, opted) PROVE PhotoInv'
  <2>1. req[w].pc = "idle" /\ UNCHANGED <<photos, files>>
    BY <1>2 DEF Submit
  <2> DEFINE joining == [Idle EXCEPT !.pc = "join", !.report = r, !.seen = status]
             q       == IF HearsOnJoining(opted) THEN joining ELSE Idle
  <2>2. Goto(w, q) /\ q.pc \in { "idle", "join" }
    <3>1. Goto(w, q)
      BY <1>2 DEF Submit
    <3>2. joining.pc = "join" /\ Idle.pc = "idle"
      BY DEF Idle
    <3> HIDE DEF joining
    <3> QED BY <3>1, <3>2
  <2>3. ASSUME NEW s \in Reports PROVE Kept(s)
    <3>1. CASE s = r
      <4>1. ~ reports[s].present /\ reports[s].count = 0 /\ ~ reports[s].linked
        <5>1. ~ reports[s].present
          BY <1>2, <3>1 DEF Submit
        <5>2. reports[s] = NoReport
          BY <5>1 DEF PhotoInv, Bare
        <5> QED BY <5>2 DEF NoReport
      <4>2. reports'[s].present /\ reports'[s].count = 0
        BY <1>2, <3>1 DEF Submit, NoReport
      <4> QED BY <4>1, <4>2 DEF Kept
    <3>2. CASE s # r
      <4>1. reports'[s] = reports[s] /\ reports[s].count \in Nat
        BY <1>2, <3>2 DEF Submit, Report
      <4>2. ~ reports[s].present => reports[s] = NoReport
        BY DEF PhotoInv, Bare
      <4> QED BY <4>1, <4>2 DEF Kept
    <3> QED BY <3>1, <3>2
  <2> HIDE DEF q
  <2> QED BY <2>1, <2>2, <2>3, QuietPhotos
<1>3. ASSUME reports' = reports, NEW r \in Reports PROVE Kept(r)
  BY <1>3 DEF Kept, PhotoInv, Bare, Report
<1>4. CASE Promote(w)
  <2> DEFINE standing == { r \in Reports : reports[r].present /\ ~ reports[r].rejected }
             q == [Idle EXCEPT !.pc = "promote", !.chosen = standing,
                               !.pictures = UNION { PhotosOf(r) : r \in standing }]
  <2>1. req[w].pc = "idle" /\ Goto(w, q) /\ UNCHANGED <<reports, photos, files>>
    BY <1>4 DEF Promote
  <2>2. /\ q.pc = "promote" /\ q.chosen = standing
        /\ q.pictures = UNION { PhotosOf(r) : r \in standing }
    BY DEF Idle
  <2>3. PromotionOK(q)
    BY <2>2 DEF PromotionOK, PhotosOf
  <2> HIDE DEF q
  <2> QED BY <1>3, <2>1, <2>2, <2>3, QuietPhotos
<1>5. CASE Move(w) \/ Join(w) \/ CommitMove(w) \/ Choose(w) \/ Tell(w)
  <2>1. /\ req[w].pc \notin { "read", "save" } /\ UNCHANGED <<reports, photos, files>>
    BY <1>5 DEF Move, Join, CommitMove, Choose, Tell
  <2>2. ASSUME NEW q, Goto(w, q), q.pc \notin { "read", "save", "promote" } PROVE PhotoInv'
    BY <1>3, <2>1, <2>2, QuietPhotos
  <2>3. CASE Join(w) \/ Tell(w)
    BY <2>2, <2>3, IdleTyped DEF Join, Tell
  <2>4. CASE Move(w)
    <3> DEFINE q == [Idle EXCEPT !.pc = "move", !.seen = status]
    <3>1. Goto(w, q) /\ q.pc = "move"
      BY <2>4 DEF Move, Idle
    <3> HIDE DEF q
    <3> QED BY <2>2, <3>1
  <2>5. CASE CommitMove(w)
    <3> DEFINE q == [req[w] EXCEPT !.pc = "choose"]
    <3>1. Goto(w, q) /\ q.pc = "choose"
      BY <2>5 DEF CommitMove, Request
    <3> HIDE DEF q
    <3> QED BY <2>2, <3>1
  <2>6. CASE Choose(w)
    <3> DEFINE q == [Idle EXCEPT !.pc = "tell", !.seen = status,
                                 !.chosen = { r \in Reports : Subscribed(r) }]
    <3>1. Goto(w, Idle) \/ Goto(w, q)
      BY <2>6 DEF Choose
    <3>2. q.pc = "tell"
      BY DEF Idle
    <3> HIDE DEF q
    <3> QED BY <2>2, <3>1, <3>2, IdleTyped
  <2> QED BY <1>5, <2>3, <2>4, <2>5, <2>6
<1> QED BY <1>1, <1>2, <1>4, <1>5

\* The first step of an upload is admitted below the limit.
LEMMA UploadKeeps ==
  ASSUME Typed, Typed', PhotoInv, NEW w \in Workers, NEW r \in Reports, Upload(w, r)
  PROVE  PhotoInv'
<1> USE DEF Typed, TypeOK
<1>1. req[w].pc = "idle" /\ UNCHANGED <<reports, photos, files>>
  BY DEF Upload
<1>2. /\ req'[w].pc = "read" /\ req'[w].report = r /\ req'[w].row = reports[r]
      /\ \A v \in Workers : v # w => req'[v] = req[v]
  BY DEF Upload, Goto, Idle
<1>3. \A s \in Reports : PhotosOf(s)' = PhotosOf(s)
  BY <1>1 DEF PhotosOf
<1>4. PhotosServable' /\ CountBacked' /\ LinkBacked' /\ Bare'
  BY <1>1, <1>3 DEF PhotoInv, PhotosServable, CountBacked, LinkBacked, Bare
<1>5. CountedAhead'
  <2> SUFFICES ASSUME NEW s \in Reports
               PROVE  Cardinality(PhotosOf(s)') + Cardinality(Uploading(s)')
                        <= MaxPhotos + Cardinality(Workers) - 1
    BY DEF CountedAhead
  <2>1. CASE s # r
    <3>1. Uploading(s)' = Uploading(s)
      BY <1>1, <1>2, <2>1 DEF Uploading
    <3> QED BY <1>3, <3>1 DEF PhotoInv, CountedAhead
  <2>2. CASE s = r
    <3>1. Cardinality(PhotosOf(s)) < MaxPhotos
      BY <2>2 DEF Upload
    <3>2. Cardinality(Uploading(s)') <= Cardinality(Workers) /\ Cardinality(Uploading(s)') \in Nat
      <4>1. Uploading(s)' \subseteq Workers
        BY DEF Uploading
      <4> QED BY <4>1, FS_Subset, FS_CardinalityType, WorkersAssumption
    <3>3. Cardinality(PhotosOf(s)) \in Nat /\ Cardinality(Workers) \in Nat /\ MaxPhotos \in Nat
      BY Countable, PhotoAssumption
    <3>4. \A n, k, m, c \in Nat : n < m /\ k <= c => n + k <= m + c - 1
      OBVIOUS
    <3>5. PhotosOf(s)' = PhotosOf(s)
      BY <1>3
    <3> QED BY <3>1, <3>2, <3>3, <3>4, <3>5
  <2> QED BY <2>1, <2>2
<1>6. ASSUME NEW v \in Workers PROVE UploadOK(v)'
  <2>1. CASE v = w
    BY <1>1, <1>2, <1>3, <2>1 DEF UploadOK, Upload, PhotoInv, CountBacked
  <2>2. CASE v # w
    <3>1. UploadOK(v) /\ req'[v] = req[v] /\ req[v].report \in Reports
      BY <1>2, <2>2 DEF PhotoInv, Request
    <3>2. \A u \in Workers : req'[u].pc = "save" => req[u].pc = "save"
      BY <1>2
    <3> QED BY <1>1, <1>3, <3>1, <3>2 DEF UploadOK
  <2> QED BY <2>1, <2>2
<1>7. ASSUME NEW v \in Workers, req'[v].pc = "promote" PROVE PromotionOK(req[v])'
  BY <1>1, <1>2, <1>7 DEF PhotoInv, PromotionOK
<1> QED BY <1>4, <1>5, <1>6, <1>7 DEF PhotoInv

\* A refused upload gives its place back.
LEMMA RefuseKeeps ==
  ASSUME Typed, Typed', PhotoInv, NEW w \in Workers, RefusePhoto(w)
  PROVE  PhotoInv'
<1> USE DEF Typed, TypeOK
<1>1. req[w].pc = "read" /\ UNCHANGED <<reports, photos, files>>
  BY DEF RefusePhoto
<1>2. req'[w].pc = "idle" /\ \A v \in Workers : v # w => req'[v] = req[v]
  BY DEF RefusePhoto, Goto, Idle
<1>3. \A s \in Reports : PhotosOf(s)' = PhotosOf(s)
  BY <1>1 DEF PhotosOf
<1>4. PhotosServable' /\ CountBacked' /\ LinkBacked' /\ Bare'
  BY <1>1, <1>3 DEF PhotoInv, PhotosServable, CountBacked, LinkBacked, Bare
<1>5. CountedAhead'
  <2> SUFFICES ASSUME NEW s \in Reports
               PROVE  Cardinality(PhotosOf(s)') + Cardinality(Uploading(s)')
                        <= MaxPhotos + Cardinality(Workers) - 1
    BY DEF CountedAhead
  <2>1. Uploading(s)' \subseteq Uploading(s)
    BY <1>2 DEF Uploading
  <2>2. Cardinality(Uploading(s)') <= Cardinality(Uploading(s)) /\ Cardinality(Uploading(s)') \in Nat
    BY <2>1, Countable, FS_Subset, FS_CardinalityType
  <2>3. Cardinality(PhotosOf(s)) + Cardinality(Uploading(s)) <= MaxPhotos + Cardinality(Workers) - 1
    BY DEF PhotoInv, CountedAhead
  <2>4. /\ Cardinality(PhotosOf(s)) \in Nat /\ Cardinality(Uploading(s)) \in Nat
        /\ Cardinality(Workers) \in Nat /\ MaxPhotos \in Nat
    BY Countable, PhotoAssumption
  <2>5. \A n, k, l, m, c \in Nat : n + k <= m + c - 1 /\ l <= k => n + l <= m + c - 1
    OBVIOUS
  <2>6. PhotosOf(s)' = PhotosOf(s)
    BY <1>3
  <2> QED BY <2>2, <2>3, <2>4, <2>5, <2>6
<1>6. ASSUME NEW v \in Workers PROVE UploadOK(v)'
  <2>1. CASE v = w
    BY <1>2, <2>1 DEF UploadOK
  <2>2. CASE v # w
    <3>1. UploadOK(v) /\ req'[v] = req[v] /\ req[v].report \in Reports
      BY <1>2, <2>2 DEF PhotoInv, Request
    <3>2. \A u \in Workers : req'[u].pc = "save" => req[u].pc = "save"
      BY <1>2
    <3> QED BY <1>1, <1>3, <3>1, <3>2 DEF UploadOK
  <2> QED BY <2>1, <2>2
<1>7. ASSUME NEW v \in Workers, req'[v].pc = "promote" PROVE PromotionOK(req[v])'
  BY <1>1, <1>2, <1>7 DEF PhotoInv, PromotionOK
<1> QED BY <1>4, <1>5, <1>6, <1>7 DEF PhotoInv

\* The bytes go to a file no row names, and no other upload is at this point.
LEMMA StoreKeeps ==
  ASSUME Typed, Typed', PhotoInv, NEW w \in Workers, Store(w)
  PROVE  PhotoInv'
<1> USE DEF Typed, TypeOK
<1>1. PICK id \in PhotoIds \ files :
        files' = files \cup { id } /\ Goto(w, [req[w] EXCEPT !.pc = "save", !.id = id])
  BY DEF Store, Stored
<1>2. req[w].pc = "read" /\ UNCHANGED <<reports, photos>> /\ (\A v \in Workers : req[v].pc # "save")
  BY DEF Store
<1>3. /\ req'[w].pc = "save" /\ req'[w].id = id
      /\ req'[w].report = req[w].report /\ req'[w].row = req[w].row
      /\ \A v \in Workers : v # w => req'[v] = req[v]
  BY <1>1 DEF Goto, Request
<1>4. \A s \in Reports : PhotosOf(s)' = PhotosOf(s) /\ Uploading(s)' = Uploading(s)
  BY <1>2, <1>3 DEF PhotosOf, Uploading
<1>5. PhotosServable' /\ CountBacked' /\ LinkBacked' /\ Bare' /\ CountedAhead'
  BY <1>1, <1>2, <1>4 DEF PhotoInv, PhotosServable, CountBacked, LinkBacked, Bare, CountedAhead
<1>6. ASSUME NEW v \in Workers PROVE UploadOK(v)'
  <2>1. UploadOK(v) /\ req[v].report \in Reports
    BY DEF PhotoInv, Request
  <2>2. ~ photos[id].present
    BY DEF PhotoInv, PhotosServable
  <2>3. CASE v = w
    BY <1>1, <1>2, <1>3, <1>4, <2>1, <2>2, <2>3 DEF UploadOK
  <2>4. CASE v # w
    BY <1>2, <1>3, <1>4, <2>1, <2>4 DEF UploadOK
  <2> QED BY <2>3, <2>4
<1>7. ASSUME NEW v \in Workers, req'[v].pc = "promote" PROVE PromotionOK(req[v])'
  BY <1>2, <1>3, <1>7 DEF PhotoInv, PromotionOK
<1> QED BY <1>5, <1>6, <1>7 DEF PhotoInv

\* The row takes the place its upload kept, and one more is counted.
LEMMA SaveKeeps ==
  ASSUME Typed, Typed', PhotoInv, NEW w \in Workers, SavePhoto(w)
  PROVE  PhotoInv'
<1> USE DEF Typed, TypeOK
<1>0. PICK u : u = req[w]
  OBVIOUS
<1>1. /\ u.pc = "save" /\ u.report \in Reports /\ u.row \in Report /\ UploadOK(w)
      /\ files' = files
  BY <1>0 DEF SavePhoto, PhotoInv, Request
<1>2. u.id \in files /\ u.id \in PhotoIds /\ ~ photos[u.id].present
  BY <1>0, <1>1 DEF UploadOK
<1>3. /\ photos'[u.id].present /\ photos'[u.id].report = u.report
      /\ photos'[u.id].linked = u.row.linked
      /\ \A i \in PhotoIds : i # u.id => photos'[i] = photos[i]
  BY <1>0, <1>2 DEF SavePhoto
<1>4. /\ reports'[u.report].count = u.row.count + 1
      /\ reports'[u.report].present = reports[u.report].present
      /\ reports'[u.report].linked = reports[u.report].linked
      /\ \A r \in Reports : r # u.report => reports'[r] = reports[r]
  BY <1>0, <1>1 DEF SavePhoto, Written, Report
<1>5. req'[w].pc = "idle" /\ \A v \in Workers : v # w => req'[v] = req[v]
  BY DEF SavePhoto, Goto, Idle
<1>6. ASSUME NEW r \in Reports, r # u.report
      PROVE  PhotosOf(r)' = PhotosOf(r) /\ Uploading(r)' = Uploading(r)
  BY <1>0, <1>1, <1>2, <1>3, <1>5, <1>6 DEF PhotosOf, Uploading
<1>7. /\ Cardinality(PhotosOf(u.report)') = Cardinality(PhotosOf(u.report)) + 1
      /\ Cardinality(Uploading(u.report)') = Cardinality(Uploading(u.report)) - 1
  <2>1. PhotosOf(u.report)' = PhotosOf(u.report) \cup { u.id } /\ u.id \notin PhotosOf(u.report)
    BY <1>2, <1>3 DEF PhotosOf
  <2>2. Uploading(u.report)' = Uploading(u.report) \ { w } /\ w \in Uploading(u.report)
    BY <1>0, <1>1, <1>5 DEF Uploading
  <2>3. ASSUME NEW S, IsFiniteSet(S), NEW x, x \notin S
        PROVE  Cardinality(S \cup { x }) = Cardinality(S) + 1
    BY <2>3, FS_AddElement
  <2>4. ASSUME NEW S, IsFiniteSet(S), NEW x \in S
        PROVE  Cardinality(S \ { x }) = Cardinality(S) - 1
    BY <2>4, FS_RemoveElement
  <2>5. IsFiniteSet(PhotosOf(u.report)) /\ IsFiniteSet(Uploading(u.report))
    BY <1>1, Countable
  <2>6. Cardinality(PhotosOf(u.report) \cup { u.id }) = Cardinality(PhotosOf(u.report)) + 1
    BY <2>1, <2>3, <2>5
  <2>7. Cardinality(Uploading(u.report) \ { w }) = Cardinality(Uploading(u.report)) - 1
    BY <2>2, <2>4, <2>5
  <2> QED BY <2>1, <2>2, <2>6, <2>7
<1>8. \A r \in Reports : /\ reports[r].present => reports'[r].present
                         /\ reports[r].linked => reports'[r].linked
  BY <1>4
<1>9. \A r \in Reports : /\ Cardinality(PhotosOf(r)) \in Nat
                         /\ Cardinality(PhotosOf(r)) <= Cardinality(PhotosOf(r)')
  <2> SUFFICES ASSUME NEW r \in Reports
               PROVE  /\ Cardinality(PhotosOf(r)) \in Nat
                      /\ Cardinality(PhotosOf(r)) <= Cardinality(PhotosOf(r)')
    OBVIOUS
  <2>1. Cardinality(PhotosOf(r)) \in Nat
    BY Countable
  <2>2. CASE r # u.report
    BY <1>6, <2>1, <2>2
  <2>3. CASE r = u.report
    BY <1>7, <2>1, <2>3
  <2> QED BY <2>1, <2>2, <2>3
<1>10. PhotosServable'
  BY <1>1, <1>2, <1>3 DEF PhotoInv, PhotosServable
<1>11. CountBacked'
  <2> SUFFICES ASSUME NEW r \in Reports PROVE reports'[r].count <= Cardinality(PhotosOf(r)')
    BY DEF CountBacked
  <2>1. CASE r # u.report
    BY <1>4, <1>6, <2>1 DEF PhotoInv, CountBacked
  <2>2. CASE r = u.report
    <3>1. u.row.count <= Cardinality(PhotosOf(u.report)) /\ u.row.count \in Nat
      BY <1>0, <1>1 DEF UploadOK, Report
    <3>2. Cardinality(PhotosOf(u.report)) \in Nat
      BY <1>1, Countable
    <3> QED BY <1>4, <1>7, <2>2, <3>1, <3>2
  <2> QED BY <2>1, <2>2
<1>12. LinkBacked'
  <2> SUFFICES ASSUME NEW i \in PhotoIds, photos'[i].present, photos'[i].linked
               PROVE  reports'[photos'[i].report].linked
    BY DEF LinkBacked
  <2>1. CASE i = u.id
    BY <1>0, <1>1, <1>3, <1>8, <2>1 DEF UploadOK
  <2>2. CASE i # u.id
    <3>1. reports[photos[i].report].linked /\ photos[i].report \in Reports /\ photos'[i] = photos[i]
      BY <1>3, <2>2 DEF PhotoInv, LinkBacked, Photo
    <3> QED BY <1>8, <3>1
  <2> QED BY <2>1, <2>2
<1>13. CountedAhead'
  <2> SUFFICES ASSUME NEW r \in Reports
               PROVE  Cardinality(PhotosOf(r)') + Cardinality(Uploading(r)')
                        <= MaxPhotos + Cardinality(Workers) - 1
    BY DEF CountedAhead
  <2>1. Cardinality(PhotosOf(r)) + Cardinality(Uploading(r)) <= MaxPhotos + Cardinality(Workers) - 1
    BY DEF PhotoInv, CountedAhead
  <2>2. CASE r # u.report
    BY <1>6, <2>1, <2>2
  <2>3. CASE r = u.report
    <3>1. Cardinality(PhotosOf(r)) \in Nat /\ Cardinality(Uploading(r)) \in Nat
      BY Countable
    <3>2. Cardinality(PhotosOf(r)') + Cardinality(Uploading(r)')
            = Cardinality(PhotosOf(r)) + Cardinality(Uploading(r))
      BY <1>7, <2>3, <3>1
    <3> QED BY <2>1, <3>2
  <2> QED BY <2>2, <2>3
<1>14. Bare'
  <2> SUFFICES ASSUME NEW r \in Reports, ~ reports'[r].present PROVE reports'[r] = NoReport
    BY DEF Bare
  <2>1. r # u.report
    BY <1>0, <1>1, <1>4 DEF UploadOK
  <2> QED BY <1>4, <2>1 DEF PhotoInv, Bare
<1>15. ASSUME NEW v \in Workers PROVE UploadOK(v)'
  <2>1. CASE v = w
    BY <1>5, <2>1 DEF UploadOK
  <2>2. CASE v # w
    <3>1. UploadOK(v) /\ req'[v] = req[v] /\ req[v].report \in Reports /\ req[v].row \in Report
      BY <1>5, <2>2 DEF PhotoInv, Request
    <3>2. req[v].pc # "save"
      BY <1>0, <1>1, <2>2 DEF UploadOK
    <3>3. PICK c \in Request : c = req[v]
      BY DEF Request
    <3>4. ASSUME c.pc = "read"
          PROVE  /\ reports'[c.report].present
                 /\ c.row.count <= Cardinality(PhotosOf(c.report)')
                 /\ c.row.linked => reports'[c.report].linked
      <4>1. /\ c.report \in Reports /\ reports[c.report].present
            /\ c.row.count <= Cardinality(PhotosOf(c.report))
            /\ c.row.linked => reports[c.report].linked
        BY <3>1, <3>3, <3>4 DEF UploadOK
      <4>2. c.row.count \in Nat /\ Cardinality(PhotosOf(c.report)) \in Nat
        BY <3>1, <3>3, Countable DEF Report
      <4>3. Cardinality(PhotosOf(c.report)') \in Nat
        <5>1. CASE c.report = u.report
          BY <1>7, <4>2, <5>1
        <5>2. CASE c.report # u.report
          BY <1>6, <4>1, <4>2, <5>2
        <5> QED BY <5>1, <5>2
      <4>4. Cardinality(PhotosOf(c.report)) <= Cardinality(PhotosOf(c.report)')
        BY <1>9, <4>1
      <4>5. c.row.count <= Cardinality(PhotosOf(c.report)')
        BY <4>1, <4>2, <4>3, <4>4
      <4> QED BY <1>8, <4>1, <4>5
    <3>5. req'[v] = c
      BY <3>1, <3>3
    <3> QED BY <3>2, <3>3, <3>4, <3>5 DEF UploadOK
  <2> QED BY <2>1, <2>2
<1>16. ASSUME NEW v \in Workers, req'[v].pc = "promote" PROVE PromotionOK(req[v])'
  <2>1. req'[v] = req[v] /\ PromotionOK(req[v])
    BY <1>5, <1>16 DEF PhotoInv
  <2>2. req[v].chosen \subseteq Reports /\ req[v].pictures \subseteq PhotoIds
    BY DEF Request
  <2> QED BY <1>2, <1>3, <1>8, <2>1, <2>2 DEF PromotionOK
<1> QED BY <1>10, <1>11, <1>12, <1>13, <1>14, <1>15, <1>16 DEF PhotoInv

\* A promotion links reports and photos together.
LEMMA PromotionKeeps ==
  ASSUME Typed, Typed', PhotoInv, NEW w \in Workers, CommitPromotion(w)
  PROVE  PhotoInv'
<1> USE DEF Typed, TypeOK
<1>1. /\ req[w].pc = "promote" /\ PromotionOK(req[w]) /\ files' = files
      /\ req[w].chosen \subseteq Reports /\ req[w].pictures \subseteq PhotoIds
  BY DEF CommitPromotion, PhotoInv, Request
<1>2. req'[w].pc = "choose" /\ \A v \in Workers : v # w => req'[v] = req[v]
  BY DEF CommitPromotion, Goto, Idle
<1>3. ASSUME NEW i \in PhotoIds
      PROVE  /\ photos'[i].present = photos[i].present /\ photos'[i].report = photos[i].report
             /\ photos'[i].linked => photos[i].linked \/ i \in req[w].pictures
  BY DEF CommitPromotion, Photo
<1>4. ASSUME NEW r \in Reports
      PROVE  /\ reports'[r].count = reports[r].count /\ reports'[r].present = reports[r].present
             /\ reports[r].linked => reports'[r].linked
             /\ r \in req[w].chosen => reports'[r].linked
             /\ ~ reports[r].present => reports'[r] = reports[r]
  BY <1>1, PromotionWrites DEF PromotionOK
<1>5. \A r \in Reports : PhotosOf(r)' = PhotosOf(r) /\ Uploading(r)' = Uploading(r)
  BY <1>1, <1>2, <1>3 DEF PhotosOf, Uploading
<1>6. PhotosServable' /\ CountBacked' /\ CountedAhead' /\ Bare'
  BY <1>1, <1>3, <1>4, <1>5 DEF PhotoInv, PhotosServable, CountBacked, CountedAhead, Bare
<1>7. LinkBacked'
  <2> SUFFICES ASSUME NEW i \in PhotoIds, photos'[i].present, photos'[i].linked
               PROVE  reports'[photos'[i].report].linked
    BY DEF LinkBacked
  <2>1. photos[i].report \in Reports /\ photos'[i].report = photos[i].report /\ photos[i].present
    BY <1>3 DEF Photo
  <2>2. CASE photos[i].linked
    BY <1>4, <2>1, <2>2 DEF PhotoInv, LinkBacked
  <2>3. CASE i \in req[w].pictures
    BY <1>1, <1>4, <2>1, <2>3 DEF PromotionOK
  <2> QED BY <1>3, <2>2, <2>3
<1>8. ASSUME NEW v \in Workers PROVE UploadOK(v)'
  <2>1. CASE v = w
    BY <1>2, <2>1 DEF UploadOK
  <2>2. CASE v # w
    <3>1. UploadOK(v) /\ req'[v] = req[v] /\ req[v].report \in Reports
      BY <1>2, <2>2 DEF PhotoInv, Request
    <3>2. \A x \in Workers : req'[x].pc = "save" => req[x].pc = "save"
      BY <1>2
    <3>3. req[v].id \in PhotoIds \/ req[v].pc # "save"
      BY <3>1 DEF UploadOK
    <3> QED BY <1>1, <1>3, <1>4, <1>5, <3>1, <3>2, <3>3 DEF UploadOK
  <2> QED BY <2>1, <2>2
<1>9. ASSUME NEW v \in Workers, req'[v].pc = "promote" PROVE PromotionOK(req[v])'
  <2>1. req'[v] = req[v] /\ PromotionOK(req[v])
    BY <1>2, <1>9 DEF PhotoInv
  <2>2. req[v].chosen \subseteq Reports /\ req[v].pictures \subseteq PhotoIds
    BY DEF Request
  <2> QED BY <1>3, <1>4, <2>1, <2>2 DEF PromotionOK
<1> QED BY <1>6, <1>7, <1>8, <1>9 DEF PhotoInv

\* With the process, every upload ends; its row may be missing, its file not.
LEMMA CrashKeeps ==
  ASSUME Typed, Typed', PhotoInv, Crash
  PROVE  PhotoInv'
<1> USE DEF Typed, TypeOK
<1>1. UNCHANGED <<reports, photos, files>> /\ \A v \in Workers : req'[v].pc = "idle"
  BY DEF Crash, Idle
<1>2. \A r \in Reports : PhotosOf(r)' = PhotosOf(r) /\ Uploading(r)' = {}
  BY <1>1 DEF PhotosOf, Uploading
<1>3. PhotosServable' /\ CountBacked' /\ LinkBacked' /\ Bare'
  BY <1>1, <1>2 DEF PhotoInv, PhotosServable, CountBacked, LinkBacked, Bare
<1>4. CountedAhead'
  <2> SUFFICES ASSUME NEW r \in Reports
               PROVE  Cardinality(PhotosOf(r)') + Cardinality(Uploading(r)')
                        <= MaxPhotos + Cardinality(Workers) - 1
    BY DEF CountedAhead
  <2>1. Cardinality(PhotosOf(r)) + Cardinality(Uploading(r)) <= MaxPhotos + Cardinality(Workers) - 1
    BY DEF PhotoInv, CountedAhead
  <2>2. /\ Cardinality(PhotosOf(r)) \in Nat /\ Cardinality(Uploading(r)) \in Nat
        /\ Cardinality(Workers) \in Nat /\ MaxPhotos \in Nat
    BY Countable, PhotoAssumption
  <2>3. Cardinality(Uploading(r)') = 0
    BY <1>2, FS_EmptySet
  <2>4. \A n, k, m, c \in Nat : n + k <= m + c - 1 => n + 0 <= m + c - 1
    OBVIOUS
  <2>5. PhotosOf(r)' = PhotosOf(r)
    BY <1>2
  <2> QED BY <2>1, <2>2, <2>3, <2>4, <2>5
<1> QED BY <1>1, <1>3, <1>4 DEF PhotoInv, UploadOK

LEMMA PhotoInit == Init => PhotoInv
<1> SUFFICES ASSUME Init PROVE PhotoInv
  OBVIOUS
<1>1. /\ \A i \in PhotoIds : ~ photos[i].present
      /\ \A r \in Reports : reports[r] = NoReport /\ reports[r].count = 0
      /\ \A w \in Workers : req[w].pc = "idle"
  BY DEF Init, NoPhoto, NoReport, Idle
<1>2. \A r \in Reports : PhotosOf(r) = {} /\ Uploading(r) = {}
  BY <1>1 DEF PhotosOf, Uploading
<1>3. PhotosServable /\ LinkBacked /\ Bare
  BY <1>1 DEF PhotosServable, LinkBacked, Bare
<1>4. CountBacked /\ CountedAhead
  <2>1. Cardinality(Workers) \in Nat /\ Cardinality(Workers) # 0 /\ Cardinality({}) = 0
    BY WorkersAssumption, FS_CardinalityType, FS_EmptySet
  <2>2. 0 <= MaxPhotos + Cardinality(Workers) - 1
    BY <2>1, PhotoAssumption
  <2>3. ASSUME NEW r \in Reports
        PROVE  Cardinality(PhotosOf(r)) = 0 /\ Cardinality(Uploading(r)) = 0
    BY <1>2, <2>1
  <2>4. ASSUME NEW r \in Reports
        PROVE  Cardinality(PhotosOf(r)) + Cardinality(Uploading(r)) = 0
    BY <2>3
  <2> QED BY <1>1, <2>2, <2>3, <2>4 DEF CountBacked, CountedAhead
<1> QED BY <1>1, <1>3, <1>4 DEF PhotoInv, UploadOK

LEMMA PhotoStep == Typed /\ Typed' /\ PhotoInv /\ [Next]_vars => PhotoInv'
<1> SUFFICES ASSUME Typed, Typed', PhotoInv, [Next]_vars PROVE PhotoInv'
  OBVIOUS
<1>1. ASSUME NEW w \in Workers, Begin(w) \/ Proceed(w) PROVE PhotoInv'
  BY <1>1, OtherSteps, UploadKeeps, RefuseKeeps, StoreKeeps, SaveKeeps, PromotionKeeps
  DEF Begin, Proceed
<1>2. CASE UNCHANGED vars
  BY <1>2 DEF vars, PhotoInv, PhotosServable, CountBacked, LinkBacked, CountedAhead, Bare,
              UploadOK, PromotionOK, PhotosOf, Uploading
<1> QED BY <1>1, <1>2, CrashKeeps DEF Next

\* Whatever overlaps and wherever the process dies: listed photos are stored, the
\* counts are backed, the limit is passed by no more than the uploads that
\* overlap, and photos go with their report.
THEOREM PhotosInOrder == Spec => []PhotosSound
<1>1. Typed /\ PhotoInv => PhotosSound
  <2> SUFFICES ASSUME PhotoInv, NEW r \in Reports
               PROVE  Cardinality(PhotosOf(r)) <= MaxPhotos + Cardinality(Workers) - 1
    BY DEF PhotosSound, PhotosBounded, PhotoInv
  <2>1. Cardinality(PhotosOf(r)) + Cardinality(Uploading(r)) <= MaxPhotos + Cardinality(Workers) - 1
    BY DEF PhotoInv, CountedAhead
  <2>2. /\ Cardinality(PhotosOf(r)) \in Nat /\ Cardinality(Uploading(r)) \in Nat
        /\ Cardinality(Workers) \in Nat /\ MaxPhotos \in Nat
    BY Countable, PhotoAssumption
  <2> QED BY <2>1, <2>2
<1> QED BY <1>1, PhotoInit, PhotoStep, TypeInvariant, PTL DEF Spec

=============================================================================
