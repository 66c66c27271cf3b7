----------------------- MODULE CaseLifecycle_proofs -----------------------
(***************************************************************************)
(* Proofs about CaseLifecycle, for every set of workers and every bound.   *)
(*                                                                         *)
(* The first part needs no assumption on how requests overlap, the second  *)
(* is about requests that do not.  The idea of the first:                  *)
(* the time stamps and the public summary are never taken back, and what a *)
(* request read was once the row.  So the row agrees with every copy in    *)
(* flight on the stamps that copy found set, and writing only the columns  *)
(* that changed adds stamps and removes none.                              *)
(***************************************************************************)
EXTENDS CaseLifecycle, TLAPS

-----------------------------------------------------------------------------
(* The inductive invariant *)

\* A row that agrees with itself: the parts of the safety properties that speak
\* of the row alone.
RowOK(r) ==
  /\ r.reviewed_at <=> r.status # "pending_review"
  /\ r.track = "emic" \/ r.status \in EmicStatuses => r.emic_reported_at
  /\ r.status = "closed" => r.closed_at

\* What is set in the earlier copy is set in the later one.
Grows(earlier, later) ==
  /\ earlier.reviewed_at => later.reviewed_at
  /\ earlier.emic_reported_at => later.emic_reported_at
  /\ earlier.closed_at => later.closed_at
  /\ earlier.public_summary => later.public_summary

\* What a handler may have made of the copy it was given.
DecidedOK(r) ==
  /\ RowOK(r.new) /\ Grows(r.old, r.new)
  /\ r.moves <=> r.new.status # r.old.status
  /\ r.moves => CanTransition(r.old.status, r.new.status)
  /\ r.new.public_summary => r.old.public_summary \/ "public_update" \in r.notes
  /\ r.new.emic_channel = "api" =>
       \/ r.old.emic_channel = "api"
       \/ r.filed /\ "emic_submitted" \in r.notes
  /\ r.submit # "no" => r.moves

RequestOK(w) ==
  LET r == req[w] IN
  /\ RowOK(r.old) /\ Grows(r.old, row)
  /\ r.pc \in { "decided", "flushed" } => DecidedOK(r)
  /\ r.filed => r.pc = "flushed" /\ r.submit = "done" /\ r.moves
  /\ r.pc = "flushed" /\ r.moves => lock = w

\* Submissions EMIC accepted for the transaction that holds the lock.
InHand == IF \E w \in Workers : req[w].filed THEN 1 ELSE 0

\* The submission a case filed through the interface rests on.
Claimed == IF row.emic_channel = "api" THEN 1 ELSE 0

IInv ==
  /\ TypeOK
  /\ RowOK(row)
  /\ TimelineEndsAtStatus
  /\ EventsDeclared
  /\ SummaryOnTimeline
  /\ ToldOnlyCommitted
  /\ row.emic_channel = "api" => "emic_submitted" \in entries
  /\ filings >= lost + InHand + Claimed
  /\ \A w \in Workers : RequestOK(w)

-----------------------------------------------------------------------------
(* Lemmas about rows *)

\* A declared move turns a sound copy into a sound copy and takes nothing back.
LEMMA TransitionedSound ==
  ASSUME NEW copy \in Row, NEW to \in CaseStatus,
         RowOK(copy), CanTransition(copy.status, to)
  PROVE  /\ Transitioned(copy, to) \in Row
         /\ RowOK(Transitioned(copy, to))
         /\ Grows(copy, Transitioned(copy, to))
         /\ Transitioned(copy, to).status = to
         /\ Transitioned(copy, to).public_summary = copy.public_summary
         /\ Transitioned(copy, to).emic_channel = copy.emic_channel
<1> DEFINE new == Transitioned(copy, to)
<1>1. /\ to # "pending_review"
      /\ to # copy.status
      /\ to = "emic_processing" => copy.status = "reported_emic"
  BY DEF CanTransition, Transitions, CaseStatus, Row
<1>2. /\ new.status = to
      /\ new.track = TrackAfter(copy, to)
      /\ new.reviewed_at <=> ReviewStamp(copy, to)
      /\ new.emic_reported_at <=> EmicStamp(copy, to)
      /\ new.closed_at <=> CloseStamp(copy, to)
      /\ new.emic_channel = copy.emic_channel
      /\ new.public_summary = copy.public_summary
  BY DEF Transitioned, Row
<1>3. TrackAfter(copy, to) \in Tracks
  BY DEF TrackAfter, TrackOf, Tracks, NoTrack, Row
<1>4. new \in Row
  BY <1>3 DEF Transitioned, Row, ReviewStamp, EmicStamp, CloseStamp
<1>5. Grows(copy, new)
  BY <1>2 DEF Grows, ReviewStamp, EmicStamp, CloseStamp
<1>6. RowOK(new)
  <2>1. new.reviewed_at
    BY <1>2 DEF RowOK, ReviewStamp
  <2>2. new.track = "emic" \/ new.status \in EmicStatuses => new.emic_reported_at
    BY <1>1, <1>2 DEF RowOK, EmicStamp, TrackAfter, TrackOf, NoTrack,
                      EmicStatuses, CommunityStatuses
  <2>3. new.status = "closed" => new.closed_at
    BY <1>2 DEF CloseStamp
  <2> QED BY <1>1, <1>2, <2>1, <2>2, <2>3 DEF RowOK
<1> QED BY <1>2, <1>4, <1>5, <1>6

\* Writing the changed columns of a sound copy over a sound row leaves a sound
\* row, if what the copy had found set is set in the row.
LEMMA WrittenSound ==
  ASSUME NEW old \in Row, NEW new \in Row, NEW cur \in Row,
         RowOK(new), RowOK(cur), RowOK(old), Grows(old, new), Grows(old, cur)
  PROVE  /\ Written(old, new, cur) \in Row
         /\ RowOK(Written(old, new, cur))
         /\ Grows(cur, Written(old, new, cur))
<1> DEFINE w == Written(old, new, cur)
<1>1. w \in Row
  BY DEF Written, Col, Row
<1>2. Grows(new, w) /\ Grows(cur, w)
  BY DEF Grows, Written, Col, Row
<1>3. \/ w.status = new.status /\ new.status # old.status
      \/ w.status = cur.status /\ new.status = old.status
  BY DEF Written, Col
<1>4. w.reviewed_at <=> w.status # "pending_review"
  BY <1>2, <1>3 DEF RowOK, Grows, Written, Col, Row
<1>5. w.track \in { new.track, cur.track }
  BY DEF Written, Col
<1>6. w.status \in { new.status, cur.status }
  BY <1>3
<1>7. w.track = "emic" \/ w.status \in EmicStatuses => w.emic_reported_at
  BY <1>2, <1>5, <1>6 DEF RowOK, Grows
<1>8. w.status = "closed" => w.closed_at
  BY <1>2, <1>6 DEF RowOK, Grows
<1> QED BY <1>1, <1>2, <1>4, <1>7, <1>8 DEF RowOK

LEMMA GrowsTransitive ==
  ASSUME NEW a, NEW b, NEW c, Grows(a, b), Grows(b, c)
  PROVE  Grows(a, c)
BY DEF Grows
-----------------------------------------------------------------------------
(* Lemmas about steps *)

\* A request that takes no part in a step stays sound.
LEMMA OthersKeep ==
  ASSUME IInv, NEW v \in Workers,
         req'[v] = req[v], Grows(row, row'), lock = v => lock' = v
  PROVE  RequestOK(v)'
<1>1. RequestOK(v)
  BY DEF IInv
<1>2. Grows(req[v].old, row')
  BY <1>1, GrowsTransitive DEF RequestOK
<1> QED BY <1>1, <1>2 DEF RequestOK

\* At most the holder of the lock has an accepted submission in hand.
LEMMA FiledHoldsLock ==
  ASSUME IInv, NEW v \in Workers, req[v].filed
  PROVE  lock = v
BY DEF IInv, RequestOK

\* A step that leaves the row and its events alone.
LEMMA RowUntouched ==
  ASSUME IInv, NEW w \in Workers, NEW r \in Request,
         req' = [req EXCEPT ![w] = r], RequestOK(w)',
         lock' \in Workers \cup { NoWorker },
         \A v \in Workers \ { w } : lock = v => lock' = v,
         photo' \in BOOLEAN, aborts' \in Nat, lost' \in Nat, told' \subseteq CaseStatus,
         ToldOnlyCommitted', lost' + InHand' <= lost + InHand,
         UNCHANGED <<row, cluster, timeline, entries, filings>>
  PROVE  IInv'
<1>1. TypeOK'
  BY DEF IInv, TypeOK
<1>2. \A v \in Workers : RequestOK(v)'
  <2> SUFFICES ASSUME NEW v \in Workers, v # w PROVE RequestOK(v)'
    OBVIOUS
  <2>1. req'[v] = req[v]
    BY DEF IInv, TypeOK
  <2>2. Grows(row, row')
    BY DEF Grows
  <2> QED BY <2>1, <2>2, OthersKeep
<1>3. (filings >= lost + InHand + Claimed)'
  <2>1. Claimed' = Claimed
    BY DEF Claimed
  <2>2. filings \in Nat /\ lost \in Nat /\ filings >= lost + InHand + Claimed
        /\ Claimed \in Nat
    BY DEF IInv, TypeOK, Claimed
  <2>3. PICK gone \in Nat, held \in Nat : gone = lost' /\ held = InHand'
    BY DEF InHand
  <2>4. InHand \in Nat /\ gone + held <= lost + InHand
    BY <2>3 DEF InHand
  <2>5. filings >= gone + held + Claimed
    BY <2>2, <2>4
  <2>6. filings' = filings
    OBVIOUS
  <2> QED BY <2>1, <2>3, <2>5, <2>6
<1>4. (/\ RowOK(row) /\ TimelineEndsAtStatus /\ EventsDeclared /\ SummaryOnTimeline
       /\ row.emic_channel = "api" => "emic_submitted" \in entries)'
  BY DEF IInv, RowOK, TimelineEndsAtStatus, EventsDeclared, SummaryOnTimeline
<1> QED BY <1>1, <1>2, <1>3, <1>4 DEF IInv

\* If a request with nothing filed takes the place of w's, at most what w had
\* filed is no longer in hand.
LEMMA InHandShrinks ==
  ASSUME IInv, NEW w \in Workers, NEW r \in Request,
         req' = [req EXCEPT ![w] = r], r.filed => req[w].filed
  PROVE  /\ InHand \in { 0, 1 } /\ InHand' \in { 0, 1 } /\ InHand' <= InHand
         /\ req[w].filed /\ ~ r.filed => InHand = 1 /\ InHand' = 0
<1>1. req \in [Workers -> Request]
  BY DEF IInv, TypeOK
<1>2. ASSUME NEW v \in Workers, req'[v].filed PROVE req[v].filed
  <2>1. CASE v = w  BY <1>1, <1>2, <2>1
  <2>2. CASE v # w  BY <1>1, <1>2, <2>2
  <2> QED BY <2>1, <2>2
<1>3. (\E v \in Workers : req'[v].filed) => (\E v \in Workers : req[v].filed)
  BY <1>2
<1>4. InHand \in { 0, 1 } /\ InHand' \in { 0, 1 } /\ InHand' <= InHand
  BY <1>3 DEF InHand
<1>5. ASSUME req[w].filed, ~ r.filed, NEW v \in Workers, req'[v].filed PROVE FALSE
  <2>1. req[v].filed
    BY <1>2, <1>5
  <2>2. v = w
    BY <1>5, <2>1, FiledHoldsLock
  <2> QED BY <1>1, <1>5, <2>2
<1>6. ASSUME req[w].filed, ~ r.filed PROVE InHand = 1 /\ InHand' = 0
  BY <1>5, <1>6 DEF InHand
<1> QED BY <1>4, <1>6

\* A step that only changes what one request has in hand, and perhaps the lock.
LEMMA QuietStep ==
  ASSUME IInv, NEW w \in Workers, NEW r \in Request,
         req' = [req EXCEPT ![w] = r], RequestOK(w)', r.filed => req[w].filed,
         lock' \in Workers \cup { NoWorker },
         \A v \in Workers \ { w } : lock = v => lock' = v,
         UNCHANGED <<row, cluster, timeline, entries, photo, filings, lost, told, aborts>>
  PROVE  IInv'
<1>1. photo' \in BOOLEAN /\ aborts' \in Nat /\ lost' = lost /\ lost \in Nat
      /\ told' \subseteq CaseStatus
  BY DEF IInv, TypeOK
<1>2. ToldOnlyCommitted'
  BY DEF IInv, ToldOnlyCommitted
<1>3. lost' + InHand' <= lost + InHand
  BY <1>1, InHandShrinks DEF InHand
<1> QED BY <1>1, <1>2, <1>3, RowUntouched

\* Whatever sound copy a handler accepts, the invariant survives.
LEMMA AcceptKeeps ==
  ASSUME IInv, NEW w \in Workers, NEW new \in Row,
         NEW notes \in SUBSET EntryTypes, NEW submit \in { "no", "due" },
         NEW after \in { "idle", "storing", "announcing" },
         RowOK(new), Grows(req[w].old, new),
         new.public_summary => req[w].old.public_summary \/ "public_update" \in notes,
         new.emic_channel = "api" => req[w].old.emic_channel = "api",
         submit = "due" => new.status # req[w].old.status,
         Accept(w, new, notes, submit, after)
  PROVE  IInv'
<1> DEFINE moves == new.status # req[w].old.status
           r == [req[w] EXCEPT !.pc = "decided", !.new = new,
                               !.oldCluster = cluster,
                               !.newCluster = IF moves THEN ClusterAfter(cluster, new.status)
                                              ELSE cluster,
                               !.moves = moves, !.notes = notes,
                               !.submit = submit, !.after = after]
<1>1. req[w] \in Request /\ RequestOK(w) /\ req \in [Workers -> Request]
      /\ cluster \in ClusterStates
  BY DEF IInv, TypeOK
<1>2. req[w].pc = "read" /\ ~ req[w].filed
  BY <1>1 DEF Accept, RequestOK, Request
<1>3. ClusterAfter(cluster, new.status) \in ClusterStates
  BY <1>1 DEF ClusterAfter, FinalStatuses, ClusterStates
<1>4. r \in Request
  BY <1>1, <1>3 DEF Request, Phases
<1>5. req' = [req EXCEPT ![w] = r]
  BY DEF Accept
<1>6. /\ r.pc = "decided" /\ r.old = req[w].old /\ r.new = new /\ r.notes = notes
      /\ r.submit = submit /\ r.filed = req[w].filed /\ (r.moves <=> moves)
  BY <1>1 DEF Request
<1>7. DecidedOK(r)
  BY <1>6 DEF Accept, DecidedOK
<1>8. RequestOK(w)'
  <2>1. req'[w] = r /\ row' = row
    BY <1>1, <1>5 DEF Accept
  <2> QED BY <1>1, <1>2, <1>6, <1>7, <2>1 DEF RequestOK
<1> HIDE DEF r
<1> QED BY <1>1, <1>2, <1>4, <1>5, <1>6, <1>8, QuietStep DEF Accept, IInv, TypeOK
\* A handler that moves its copy along a declared transition, with the copy
\* edited before (the summary) or after (the EMIC channel).
LEMMA MoveKeeps ==
  ASSUME IInv, NEW w \in Workers, NEW to \in CaseStatus,
         CanTransition(req[w].old.status, to),
         NEW after \in { "storing", "announcing" }, MoveTo(w, to, after)
  PROVE  IInv'
<1> DEFINE old == req[w].old
<1>1. old \in Row /\ RowOK(old)
  BY DEF IInv, TypeOK, Request, RequestOK
<1>2. /\ Transitioned(old, to) \in Row /\ RowOK(Transitioned(old, to))
      /\ Grows(old, Transitioned(old, to))
      /\ Transitioned(old, to).public_summary = old.public_summary
      /\ Transitioned(old, to).emic_channel = old.emic_channel
  BY <1>1, TransitionedSound
<1>3. Accept(w, Transitioned(old, to), {}, "no", after)
  BY DEF MoveTo
<1> HIDE DEF old
<1> QED BY <1>2, <1>3, AcceptKeeps DEF old

LEMMA ReportToEmicKeeps ==
  ASSUME IInv, NEW w \in Workers, CanTransition(req[w].old.status, "reported_emic"),
         ReportToEmic(w)
  PROVE  IInv'
<1> DEFINE old   == req[w].old
           moved == Transitioned(old, "reported_emic")
           new   == [moved EXCEPT !.emic_channel = UnansweredChannel]
<1>1. old \in Row /\ RowOK(old)
  BY DEF IInv, TypeOK, Request, RequestOK
<1>2. /\ moved \in Row /\ RowOK(moved) /\ Grows(old, moved)
      /\ moved.status = "reported_emic"
      /\ moved.public_summary = old.public_summary
  BY <1>1, TransitionedSound DEF CaseStatus
<1>3. old.status # "reported_emic"
  BY DEF CanTransition, Transitions
<1> HIDE DEF old, moved
<1>4. /\ new \in Row /\ new.status = moved.status /\ new.track = moved.track
      /\ new.reviewed_at = moved.reviewed_at /\ new.closed_at = moved.closed_at
      /\ new.emic_reported_at = moved.emic_reported_at
      /\ new.public_summary = moved.public_summary /\ new.emic_channel = "manual"
  BY <1>2 DEF Row, UnansweredChannel, Channels
<1> HIDE DEF new
<1>5. RowOK(new) /\ Grows(old, new)
  BY <1>2, <1>4 DEF RowOK, Grows
<1>6. Accept(w, new, {}, IF ApiMode THEN "due" ELSE "no", "announcing")
  BY DEF ReportToEmic, old, moved, new
<1>7. (IF ApiMode THEN "due" ELSE "no") \in { "no", "due" }
  OBVIOUS
<1> QED BY <1>2, <1>3, <1>4, <1>5, <1>6, <1>7, AcceptKeeps DEF old

LEMMA UpdateEmicKeeps ==
  ASSUME IInv, NEW w \in Workers, NEW noted \in BOOLEAN,
         NEW to \in { req[w].old.status, "emic_processing", "closed" },
         UpdateEmic(w, noted, to)
  PROVE  IInv'
<1> DEFINE old    == req[w].old
           edited == [old EXCEPT !.public_summary = @ \/ noted]
           new    == IF to = old.status THEN edited ELSE Transitioned(edited, to)
           notes  == IF noted THEN { "public_update" } ELSE {}
<1>1. old \in Row /\ RowOK(old)
  BY DEF IInv, TypeOK, Request, RequestOK
<1>2. Accept(w, new, notes, "no", "announcing")
  BY DEF UpdateEmic
<1>3. notes \in SUBSET EntryTypes /\ (noted => "public_update" \in notes)
  BY DEF EntryTypes
<1>4. to # old.status => CanTransition(old.status, to)
  BY DEF UpdateEmic
<1> HIDE DEF old, notes
<1>5. /\ edited \in Row /\ edited.status = old.status
      /\ edited.emic_channel = old.emic_channel
      /\ edited.public_summary => old.public_summary \/ noted
  BY <1>1 DEF Row
<1>6. RowOK(edited) /\ Grows(old, edited)
  BY <1>1 DEF Row, RowOK, Grows
<1> HIDE DEF edited
<1>7. /\ new \in Row /\ RowOK(new) /\ Grows(old, new)
      /\ new.public_summary => old.public_summary \/ noted
      /\ new.emic_channel = old.emic_channel
  <2>1. CASE to = old.status
    BY <1>5, <1>6, <2>1
  <2>2. CASE to # old.status
    <3>1. to \in CaseStatus
      BY <2>2 DEF CaseStatus, old
    <3>2. /\ new \in Row /\ RowOK(new) /\ Grows(edited, new)
          /\ new.public_summary = edited.public_summary
          /\ new.emic_channel = edited.emic_channel
      BY <1>4, <1>5, <1>6, <2>2, <3>1, TransitionedSound
    <3> HIDE DEF new
    <3> QED BY <1>5, <1>6, <3>2, GrowsTransitive
  <2> QED BY <2>1, <2>2
<1> HIDE DEF new
<1> QED BY <1>2, <1>3, <1>7, AcceptKeeps DEF old

LEMMA AddUpdateKeeps ==
  ASSUME IInv, NEW w \in Workers, NEW public \in BOOLEAN, AddUpdate(w, public)
  PROVE  IInv'
<1> DEFINE old   == req[w].old
           new   == [old EXCEPT !.public_summary = @ \/ public]
           notes == IF public THEN { "public_update" } ELSE {}
<1>1. old \in Row /\ RowOK(old)
  BY DEF IInv, TypeOK, Request, RequestOK
<1>2. Accept(w, new, notes, "no", "idle")
  BY DEF AddUpdate
<1>3. notes \in SUBSET EntryTypes /\ (public => "public_update" \in notes)
  BY DEF EntryTypes
<1> HIDE DEF old, notes
<1>4. /\ new \in Row /\ RowOK(new) /\ Grows(old, new)
      /\ new.public_summary => old.public_summary \/ public
      /\ new.emic_channel = old.emic_channel
  BY <1>1 DEF Row, RowOK, Grows
<1> HIDE DEF new
<1> QED BY <1>2, <1>3, <1>4, AcceptKeeps DEF old

LEMMA HandleKeeps ==
  ASSUME IInv, NEW w \in Workers, Handle(w)
  PROVE  IInv'
<1>1. ASSUME NEW decision \in { "emic", "community", "dismiss" }, Review(w, decision)
      PROVE  IInv'
  <2>1. CanTransition(req[w].old.status, "reported_emic")
        /\ CanTransition(req[w].old.status, "community_open")
        /\ CanTransition(req[w].old.status, "dismissed")
    BY <1>1 DEF Review, CanTransition, Transitions
  <2>2. CASE ReportToEmic(w)
    BY <2>1, <2>2, ReportToEmicKeeps
  <2>3. CASE MoveTo(w, "community_open", "announcing")
    BY <2>1, <2>3, MoveKeeps DEF CaseStatus
  <2>4. CASE MoveTo(w, "dismissed", "announcing")
    BY <2>1, <2>4, MoveKeeps DEF CaseStatus
  <2> QED BY <1>1, <2>2, <2>3, <2>4 DEF Review
<1>2. ASSUME NEW to \in CaseStatus, TransitionCase(w, to)
      PROVE  IInv'
  BY <1>2, ReportToEmicKeeps, MoveKeeps DEF TransitionCase
<1>3. ASSUME CommunitySubmit(w)
      PROVE  IInv'
  <2>1. CanTransition(req[w].old.status, "community_submitted")
    BY <1>3 DEF CommunitySubmit, CanTransition, Transitions
  <2> QED BY <1>3, <2>1, MoveKeeps DEF CommunitySubmit, CaseStatus
<1>4. ASSUME NEW approve \in BOOLEAN, CommunityConfirm(w, approve)
      PROVE  IInv'
  <2> DEFINE to == IF approve THEN "closed" ELSE "community_open"
  <2>1. to \in CaseStatus /\ CanTransition(req[w].old.status, to)
    BY <1>4 DEF CommunityConfirm, CanTransition, Transitions, CaseStatus
  <2>2. MoveTo(w, to, "announcing")
    BY <1>4 DEF CommunityConfirm
  <2> HIDE DEF to
  <2> QED BY <2>1, <2>2, MoveKeeps
<1>5. ASSUME Refuse(w)
      PROVE  IInv'
  <2>1. Idle \in Request /\ ~ Idle.filed
    BY DEF Idle, Request, Phases, NewCase, Row, CaseStatus, Tracks, Channels,
           ClusterStates, EntryTypes, NoTrack
  <2>2. req' = [req EXCEPT ![w] = Idle]
    BY <1>5 DEF Refuse
  <2>3. RequestOK(w)'
    BY <1>5, <2>2 DEF IInv, TypeOK, Refuse, RequestOK, Idle, NewCase, RowOK, Grows,
                      EmicStatuses, NoTrack
  <2>4. UNCHANGED <<row, cluster, timeline, entries, photo, filings, lost, told, aborts>>
        /\ lock' = lock /\ lock \in Workers \cup { NoWorker }
    BY <1>5 DEF Refuse, IInv, TypeOK
  <2> QED BY <2>1, <2>2, <2>3, <2>4, QuietStep
<1> QED BY <1>1, <1>2, <1>3, <1>4, <1>5, UpdateEmicKeeps, AddUpdateKeeps DEF Handle
-----------------------------------------------------------------------------
(* The steps outside the handlers *)

\* The request at rest.
LEMMA IdleSound ==
  /\ Idle \in Request /\ ~ Idle.filed /\ Idle.pc = "idle"
  /\ Idle.old = NewCase /\ RowOK(NewCase) /\ NewCase \in Row
  /\ \A r \in Row : Grows(NewCase, r)
BY DEF Idle, Request, Phases, NewCase, Row, CaseStatus, Tracks, Channels, RowOK, Grows,
       ClusterStates, EntryTypes, NoTrack, EmicStatuses

LEMMA OpenKeeps ==
  ASSUME IInv, NEW w \in Workers, Open(w)
  PROVE  IInv'
<1> DEFINE r == [Idle EXCEPT !.pc = "read", !.old = row, !.new = row]
<1>1. row \in Row /\ RowOK(row) /\ req \in [Workers -> Request]
      /\ lock \in Workers \cup { NoWorker }
  BY DEF IInv, TypeOK
<1>2. r \in Request /\ ~ r.filed /\ r.pc = "read" /\ r.old = row
  BY <1>1, IdleSound DEF Request, Phases
<1>3. req' = [req EXCEPT ![w] = r]
      /\ UNCHANGED <<row, cluster, timeline, entries, photo, filings, lost, told, lock,
                     aborts>>
  BY DEF Open
<1> HIDE DEF r
<1>4. req'[w] = r /\ row' = row
  BY <1>1, <1>3
<1>5. RequestOK(w)'
  BY <1>1, <1>2, <1>4 DEF RequestOK, RowOK, Grows
<1> QED BY <1>1, <1>2, <1>3, <1>5, QuietStep

LEMMA FlushKeeps ==
  ASSUME IInv, NEW w \in Workers, Flush(w)
  PROVE  IInv'
<1> DEFINE r == [req[w] EXCEPT !.pc = "flushed"]
<1>1. req[w] \in Request /\ RequestOK(w) /\ req \in [Workers -> Request]
      /\ lock \in Workers \cup { NoWorker }
  BY DEF IInv, TypeOK
<1>2. req[w].pc = "decided" /\ ~ req[w].filed /\ DecidedOK(req[w])
  BY <1>1 DEF Flush, RequestOK
<1>3. req' = [req EXCEPT ![w] = r]
      /\ UNCHANGED <<row, cluster, timeline, entries, photo, filings, lost, told, aborts>>
  BY DEF Flush
<1>4. /\ r \in Request /\ r.pc = "flushed" /\ r.old = req[w].old /\ r.new = req[w].new
      /\ r.notes = req[w].notes /\ (r.moves <=> req[w].moves)
      /\ r.submit = req[w].submit /\ (r.filed <=> req[w].filed)
  BY <1>1 DEF Request, Phases
<1>5. lock' \in Workers \cup { NoWorker }
  BY <1>1 DEF Flush
<1>6. \A v \in Workers \ { w } : lock = v => lock' = v
  BY WorkersAssumption DEF Flush
<1>7. req[w].moves => lock' = w
  BY <1>2 DEF Flush, DecidedOK
<1> HIDE DEF r
<1>8. req'[w] = r /\ row' = row
  BY <1>1, <1>3
<1>9. RequestOK(w)'
  BY <1>1, <1>2, <1>4, <1>7, <1>8 DEF RequestOK, DecidedOK
<1> QED BY <1>2, <1>3, <1>4, <1>5, <1>6, <1>9, QuietStep

\* A step of the EMIC call: the copy may change its channel, nothing else.
LEMMA SubmitKeeps ==
  ASSUME IInv, NEW w \in Workers, NEW r \in Request,
         req[w].pc = "flushed", req[w].submit = "due",
         r.pc = "flushed", r.submit = "done",
         r.old = req[w].old, r.moves <=> req[w].moves,
         r.new.emic_channel = "api" =>
           \/ r.old.emic_channel = "api"
           \/ r.filed /\ "emic_submitted" \in r.notes,
         r.new = [req[w].new EXCEPT !.emic_channel = r.new.emic_channel],
         req[w].notes \subseteq r.notes,
         req' = [req EXCEPT ![w] = r],
         filings' = filings + (IF r.filed THEN 1 ELSE 0),
         UNCHANGED <<row, cluster, timeline, entries, photo, lost, told, lock, aborts>>
  PROVE  IInv'
<1>1. /\ req[w] \in Request /\ RequestOK(w) /\ req \in [Workers -> Request]
      /\ filings \in Nat /\ lost \in Nat /\ filings >= lost + InHand + Claimed
  BY DEF IInv, TypeOK
<1>2. /\ DecidedOK(req[w]) /\ req[w].moves /\ ~ req[w].filed /\ lock = w
  BY <1>1 DEF RequestOK, DecidedOK
<1>3. \A v \in Workers : ~ req[v].filed
  BY <1>2, FiledHoldsLock
<1>4. InHand = 0 /\ InHand' \in { 0, 1 } /\ (InHand' = 1 => r.filed)
  <2>1. ASSUME NEW v \in Workers, req'[v].filed PROVE r.filed
    <3>1. CASE v = w  BY <1>1, <2>1, <3>1
    <3>2. CASE v # w  BY <1>1, <1>3, <2>1, <3>2
    <3> QED BY <3>1, <3>2
  <2>2. (\E v \in Workers : req'[v].filed) => r.filed
    BY <2>1
  <2> QED BY <1>3, <2>2 DEF InHand
<1>5. TypeOK'
  BY <1>1 DEF IInv, TypeOK
<1>6. (filings >= lost + InHand + Claimed)'
  <2>1. Claimed \in Nat /\ Claimed' = Claimed
    BY DEF Claimed
  <2>2. filings' >= lost + InHand' + Claimed
    BY <1>1, <1>4, <2>1 DEF InHand
  <2>3. lost' = lost
    OBVIOUS
  <2> QED BY <2>1, <2>2, <2>3
<1>7. req'[w] = r /\ row' = row /\ lock' = lock
  BY <1>1
<1>8. DecidedOK(r)
  <2>1. req[w].new \in Row
    BY <1>1 DEF Request
  <2>2. /\ r.new.status = req[w].new.status /\ r.new.track = req[w].new.track
        /\ r.new.reviewed_at = req[w].new.reviewed_at
        /\ r.new.emic_reported_at = req[w].new.emic_reported_at
        /\ r.new.closed_at = req[w].new.closed_at
        /\ r.new.public_summary = req[w].new.public_summary
    BY <2>1 DEF Row
  <2>3. RowOK(r.new) /\ Grows(r.old, r.new)
    BY <1>2, <2>2 DEF DecidedOK, RowOK, Grows
  <2> QED BY <1>2, <2>2, <2>3 DEF DecidedOK
<1>9. \A v \in Workers : RequestOK(v)'
  <2> SUFFICES ASSUME NEW v \in Workers PROVE RequestOK(v)'
    OBVIOUS
  <2>1. CASE v = w
    BY <1>1, <1>2, <1>7, <1>8, <2>1 DEF RequestOK
  <2>2. CASE v # w
    <3>1. req'[v] = req[v]
      BY <1>1, <2>2
    <3>2. Grows(row, row') /\ (lock = v => lock' = v)
      BY <1>7 DEF Grows
    <3> QED BY <3>1, <3>2, OthersKeep
  <2> QED BY <2>1, <2>2
<1>10. (/\ RowOK(row) /\ TimelineEndsAtStatus /\ EventsDeclared
        /\ SummaryOnTimeline /\ ToldOnlyCommitted
        /\ row.emic_channel = "api" => "emic_submitted" \in entries)'
  BY DEF IInv, RowOK, TimelineEndsAtStatus, EventsDeclared, SummaryOnTimeline,
         ToldOnlyCommitted
<1> QED BY <1>5, <1>6, <1>9, <1>10 DEF IInv

LEMMA SubmitAcceptedKeeps ==
  ASSUME IInv, NEW w \in Workers, SubmitAccepted(w)
  PROVE  IInv'
<1> DEFINE r == [req[w] EXCEPT !.submit = "done", !.filed = TRUE,
                               !.new.emic_channel = "api",
                               !.notes = @ \cup { "emic_submitted" }]
<1>1. req[w] \in Request /\ req[w].new \in Row
  BY DEF IInv, TypeOK, Request
<1>2. r \in Request
  BY <1>1 DEF Request, Row, Channels, EntryTypes
<1>3. /\ r.pc = req[w].pc /\ r.submit = "done" /\ r.filed /\ r.old = req[w].old
      /\ (r.moves <=> req[w].moves) /\ r.notes = req[w].notes \cup { "emic_submitted" }
      /\ r.new = [req[w].new EXCEPT !.emic_channel = "api"]
      /\ r.new.emic_channel = "api"
  BY <1>1 DEF Request, Row
<1>4. req' = [req EXCEPT ![w] = r] /\ filings' = filings + 1
      /\ req[w].pc = "flushed" /\ req[w].submit = "due"
      /\ UNCHANGED <<row, cluster, timeline, entries, photo, lost, told, lock, aborts>>
  BY DEF SubmitAccepted
<1> HIDE DEF r
<1> QED BY <1>2, <1>3, <1>4, SubmitKeeps

LEMMA SubmitFailedKeeps ==
  ASSUME IInv, NEW w \in Workers, SubmitFailed(w)
  PROVE  IInv'
<1>1. PICK taken \in BOOLEAN :
        /\ req' = [req EXCEPT ![w].submit = "done", ![w].filed = taken,
                              ![w].notes = @ \cup { "emic_submit_failed" }]
        /\ filings' = filings + (IF taken THEN 1 ELSE 0)
  BY DEF SubmitFailed
<1> DEFINE r == [req[w] EXCEPT !.submit = "done", !.filed = taken,
                               !.notes = @ \cup { "emic_submit_failed" }]
<1>2. req[w] \in Request /\ RequestOK(w) /\ req[w].new \in Row
  BY DEF IInv, TypeOK, Request
<1>3. r \in Request
  BY <1>2 DEF Request, EntryTypes
<1>4. /\ r.pc = req[w].pc /\ r.submit = "done" /\ r.filed = taken /\ r.old = req[w].old
      /\ (r.moves <=> req[w].moves) /\ r.notes = req[w].notes \cup { "emic_submit_failed" }
      /\ r.new = req[w].new
  BY <1>2 DEF Request
<1>5. req' = [req EXCEPT ![w] = r] /\ req[w].pc = "flushed" /\ req[w].submit = "due"
      /\ UNCHANGED <<row, cluster, timeline, entries, photo, lost, told, lock, aborts>>
  BY <1>1 DEF SubmitFailed
<1>6. req[w].new.emic_channel = "api" => req[w].old.emic_channel = "api"
  BY <1>2, <1>5 DEF RequestOK, DecidedOK
<1>7. req[w].new = [req[w].new EXCEPT !.emic_channel = req[w].new.emic_channel]
  BY <1>2 DEF Row
<1> HIDE DEF r
<1>8. r.new = [req[w].new EXCEPT !.emic_channel = r.new.emic_channel]
      /\ (r.new.emic_channel = "api" => r.old.emic_channel = "api")
  BY <1>4, <1>6, <1>7
<1>9. filings' = filings + (IF r.filed THEN 1 ELSE 0)
  BY <1>1, <1>4
<1> QED BY <1>3, <1>4, <1>5, <1>8, <1>9, SubmitKeeps
LEMMA CommitKeeps ==
  ASSUME IInv, NEW w \in Workers, Commit(w)
  PROVE  IInv'
<1> DEFINE r    == req[w]
           rest == IF r.after = "idle" THEN Idle
                   ELSE [Idle EXCEPT !.pc = r.after, !.old = r.old]
<1>1. /\ r \in Request /\ RequestOK(w) /\ req \in [Workers -> Request]
      /\ row \in Row /\ RowOK(row) /\ lock \in Workers \cup { NoWorker }
      /\ r.old \in Row /\ r.new \in Row /\ RowOK(r.old) /\ Grows(r.old, row)
  BY DEF IInv, TypeOK, Request, RequestOK
<1>2. /\ r.pc = "flushed" /\ DecidedOK(r) /\ row' = Written(r.old, r.new, row)
      /\ cluster' = Col(r.oldCluster, r.newCluster, cluster)
      /\ timeline' = IF r.moves THEN Append(timeline, StatusEvent(r)) ELSE timeline
      /\ entries' = entries \cup r.notes /\ lock' = Unlock(w)
      /\ req' = [req EXCEPT ![w] = rest]
      /\ UNCHANGED <<photo, filings, lost, told, aborts>>
  BY <1>1 DEF Commit, RequestOK
<1>3. row' \in Row /\ RowOK(row') /\ Grows(row, row')
  BY <1>1, <1>2, WrittenSound DEF DecidedOK
<1>4. rest \in Request /\ ~ rest.filed /\ rest.pc \notin { "decided", "flushed" }
      /\ rest.old \in { r.old, NewCase }
  BY <1>1, IdleSound DEF Request, Phases
<1> HIDE DEF rest
<1>5. req'[w] = rest /\ \A v \in Workers \ { w } : req'[v] = req[v]
  BY <1>1, <1>2
<1>6. TypeOK'
  <2>1. StatusEvent(r) \in Move
    BY <1>1 DEF StatusEvent, Move, Row
  <2>2. timeline' \in Seq(Move)
    BY <1>2, <2>1 DEF IInv, TypeOK
  <2>3. cluster' \in ClusterStates /\ entries' \subseteq EntryTypes
        /\ lock' \in Workers \cup { NoWorker }
    BY <1>1, <1>2 DEF IInv, TypeOK, Col, Request, Unlock
  <2>4. req' \in [Workers -> Request]
    BY <1>1, <1>2, <1>4
  <2> QED BY <1>2, <1>3, <2>2, <2>3, <2>4 DEF IInv, TypeOK
<1>7. \A v \in Workers : RequestOK(v)'
  <2> SUFFICES ASSUME NEW v \in Workers PROVE RequestOK(v)'
    OBVIOUS
  <2>1. CASE v = w
    <3>1. RowOK(rest.old) /\ Grows(rest.old, row')
      BY <1>1, <1>3, <1>4, IdleSound, GrowsTransitive
    <3> QED BY <1>4, <1>5, <2>1, <3>1 DEF RequestOK
  <2>2. CASE v # w
    <3>1. lock = v => lock' = v
      BY <1>2, <2>2 DEF Unlock
    <3> QED BY <1>3, <1>5, <2>2, <3>1, OthersKeep
  <2> QED BY <2>1, <2>2
<1>8. TimelineEndsAtStatus' /\ EventsDeclared' /\ ToldOnlyCommitted'
  <2>1. timeline \in Seq(Move) /\ TimelineEndsAtStatus /\ EventsDeclared
        /\ ToldOnlyCommitted /\ told' = told
    BY <1>2 DEF IInv, TypeOK
  <2>2. CASE r.moves
    <3>1. /\ row'.status = r.new.status
          /\ timeline' = Append(timeline, StatusEvent(r))
          /\ CanTransition(r.old.status, r.new.status)
      BY <1>2, <2>2 DEF DecidedOK, Written, Col
    <3>2. /\ Len(timeline') = Len(timeline) + 1
          /\ timeline'[Len(timeline')] = StatusEvent(r)
          /\ \A i \in 1..Len(timeline) : timeline'[i] = timeline[i]
          /\ timeline' # << >> /\ Len(timeline) \in Nat
      BY <2>1, <3>1
    <3>3. TimelineEndsAtStatus'
      BY <3>1, <3>2 DEF TimelineEndsAtStatus, StatusEvent
    <3>4. EventsDeclared'
      BY <2>1, <3>1, <3>2 DEF EventsDeclared, StatusEvent, CanTransition
    <3>5. ToldOnlyCommitted'
      BY <2>1, <3>1, <3>2 DEF ToldOnlyCommitted
    <3> QED BY <3>3, <3>4, <3>5
  <2>3. CASE ~ r.moves
    <3>1. row'.status = row.status /\ timeline' = timeline
      BY <1>2, <2>3 DEF DecidedOK, Written, Col
    <3> QED BY <2>1, <3>1 DEF TimelineEndsAtStatus, EventsDeclared, ToldOnlyCommitted
  <2> QED BY <2>2, <2>3
<1>9. SummaryOnTimeline'
  <2>1. row'.public_summary =>
          \/ row.public_summary
          \/ r.new.public_summary /\ ~ r.old.public_summary
    BY <1>1, <1>2 DEF Written, Col, Row
  <2>2. row.public_summary => "public_update" \in entries
    BY DEF IInv, SummaryOnTimeline
  <2>3. r.new.public_summary /\ ~ r.old.public_summary => "public_update" \in r.notes
    BY <1>2 DEF DecidedOK
  <2> QED BY <1>2, <2>1, <2>2, <2>3 DEF SummaryOnTimeline
<1>10. row'.emic_channel = "api" =>
         \/ row.emic_channel = "api"
         \/ r.filed /\ "emic_submitted" \in r.notes
  BY <1>2 DEF DecidedOK, Written, Col
<1>11. (row.emic_channel = "api" => "emic_submitted" \in entries)'
  BY <1>2, <1>10 DEF IInv
<1>12. (filings >= lost + InHand + Claimed)'
  <2>1. /\ filings \in Nat /\ lost \in Nat /\ filings >= lost + InHand + Claimed
        /\ filings' = filings /\ lost' = lost
    BY <1>2 DEF IInv, TypeOK
  <2>2. ASSUME NEW v \in Workers, req'[v].filed PROVE v # w /\ req[v].filed
    BY <1>4, <1>5, <2>2
  <2>3. r.filed => \A v \in Workers : req[v].filed => v = w
    BY FiledHoldsLock
  <2>4. (\E v \in Workers : req'[v].filed) => ~ r.filed /\ \E v \in Workers : req[v].filed
    BY <2>2, <2>3
  <2>5. Claimed' = 1 => Claimed = 1 \/ r.filed
    BY <1>10 DEF Claimed
  <2>6. Claimed \in { 0, 1 } /\ Claimed' \in { 0, 1 }
    BY DEF Claimed
  <2>7. InHand = 0 => ~ r.filed
    BY DEF InHand
  <2>8. InHand \in { 0, 1 } /\ InHand' \in { 0, 1 }
        /\ (InHand' = 1 => InHand = 1 /\ ~ r.filed)
    BY <2>4 DEF InHand
  <2>9. PICK held \in { 0, 1 }, claims \in { 0, 1 } : held = InHand' /\ claims = Claimed'
    BY <2>6, <2>8
  <2>10. /\ InHand \in { 0, 1 } /\ Claimed \in { 0, 1 }
         /\ (held = 1 => InHand = 1 /\ ~ r.filed)
         /\ (claims = 1 => Claimed = 1 \/ (InHand = 1 /\ held = 0))
    <3>1. r.filed => InHand = 1 /\ held = 0
      BY <2>7, <2>8, <2>9
    <3>2. held = 1 => InHand = 1 /\ ~ r.filed
      BY <2>8, <2>9
    <3>3. claims = 1 => Claimed = 1 \/ r.filed
      BY <2>5, <2>9
    <3>4. InHand \in { 0, 1 } /\ Claimed \in { 0, 1 }
      BY <2>6, <2>8
    <3>5. claims = 1 => Claimed = 1 \/ (InHand = 1 /\ held = 0)
      BY <3>1, <3>3
    <3> QED BY <3>2, <3>4, <3>5
  <2>11. held + claims <= InHand + Claimed
    BY <2>10
  <2>12. filings \in Nat /\ lost \in Nat /\ filings >= lost + InHand + Claimed
    BY <2>1
  <2>13. filings >= lost + held + claims
    BY <2>10, <2>11, <2>12
  <2> QED BY <2>1, <2>9, <2>13
<1> QED BY <1>3, <1>6, <1>7, <1>8, <1>9, <1>11, <1>12 DEF IInv

LEMMA StorePhotoKeeps ==
  ASSUME IInv, NEW w \in Workers, StorePhoto(w)
  PROVE  IInv'
<1> DEFINE r == [req[w] EXCEPT !.pc = "announcing"]
<1>1. req \in [Workers -> Request] /\ req[w].pc = "storing" /\ RequestOK(w)
  BY DEF IInv, TypeOK, StorePhoto
<1>2. r \in Request /\ r.pc = "announcing" /\ r.old = req[w].old /\ ~ r.filed
  BY <1>1 DEF Request, Phases, RequestOK
<1>3. req' = [req EXCEPT ![w] = r]
      /\ UNCHANGED <<row, cluster, timeline, entries, filings, lost, told, lock, aborts>>
  BY DEF StorePhoto
<1>4. photo' \in BOOLEAN /\ aborts' \in Nat /\ lost' = lost /\ lost \in Nat
      /\ told' \subseteq CaseStatus /\ lock' \in Workers \cup { NoWorker }
      /\ \A v \in Workers \ { w } : lock = v => lock' = v
  BY <1>3 DEF StorePhoto, IInv, TypeOK
<1> HIDE DEF r
<1>5. RequestOK(w)'
  <2>1. req'[w] = r /\ row' = row
    BY <1>1, <1>3
  <2> QED BY <1>1, <1>2, <2>1 DEF RequestOK
<1>6. ToldOnlyCommitted'
  BY <1>3 DEF IInv, ToldOnlyCommitted
<1>7. lost' + InHand' <= lost + InHand
  BY <1>2, <1>3, <1>4, InHandShrinks DEF InHand
<1> QED BY <1>2, <1>3, <1>4, <1>5, <1>6, <1>7, RowUntouched

\* Only a status that was reached is announced: a row that differs from what a
\* request read has left pending_review, by an event.
LEMMA AnnounceKeeps ==
  ASSUME IInv, NEW w \in Workers, Announce(w)
  PROVE  IInv'
<1>1. req \in [Workers -> Request] /\ row \in Row /\ timeline \in Seq(Move)
      /\ told \subseteq CaseStatus /\ lost \in Nat
  BY DEF IInv, TypeOK
<1>2. req' = [req EXCEPT ![w] = Idle]
      /\ UNCHANGED <<row, cluster, timeline, entries, photo, filings, lost, lock, aborts>>
  BY DEF Announce
<1>3. told' \subseteq CaseStatus
  BY <1>1 DEF Announce, Row
<1>4. photo' \in BOOLEAN /\ aborts' \in Nat /\ lost' \in Nat
      /\ lock' \in Workers \cup { NoWorker }
      /\ \A v \in Workers \ { w } : lock = v => lock' = v
  BY <1>2 DEF IInv, TypeOK
<1>5. RequestOK(w)'
  <2>1. req'[w] = Idle /\ row' = row
    BY <1>1, <1>2
  <2> QED BY <1>1, <2>1, IdleSound DEF RequestOK
<1>6. ToldOnlyCommitted'
  <2>1. ToldOnlyCommitted /\ timeline' = timeline
    BY <1>2 DEF IInv
  <2>2. CASE told' = told
    BY <2>1, <2>2 DEF ToldOnlyCommitted
  <2>3. CASE row.status # req[w].old.status /\ told' = told \cup { row.status }
    <3>1. row.status # "pending_review"
      BY <2>3 DEF IInv, RequestOK, RowOK, Grows
    <3>2. timeline # << >> /\ row.status = timeline[Len(timeline)].to
      BY <3>1 DEF IInv, TimelineEndsAtStatus
    <3>3. Len(timeline) \in DOMAIN timeline
      BY <1>1, <3>2
    <3> QED BY <2>1, <2>3, <3>2, <3>3 DEF ToldOnlyCommitted
  <2> QED BY <2>2, <2>3 DEF Announce, ChangedSince
<1>7. lost' + InHand' <= lost + InHand
  BY <1>1, <1>2, IdleSound, InHandShrinks DEF InHand
<1> QED BY <1>2, <1>3, <1>4, <1>5, <1>6, <1>7, IdleSound, RowUntouched

LEMMA AbortKeeps ==
  ASSUME IInv, NEW w \in Workers, Abort(w)
  PROVE  IInv'
<1>1. req \in [Workers -> Request] /\ row \in Row /\ lost \in Nat /\ aborts \in Nat
      /\ lock \in Workers \cup { NoWorker }
  BY DEF IInv, TypeOK
<1>2. req' = [req EXCEPT ![w] = Idle] /\ lock' = Unlock(w) /\ aborts' = aborts + 1
      /\ lost' = lost + (IF req[w].filed THEN 1 ELSE 0)
      /\ UNCHANGED <<row, cluster, timeline, entries, photo, filings, told>>
  BY DEF Abort
<1>3. photo' \in BOOLEAN /\ aborts' \in Nat /\ lost' \in Nat /\ told' \subseteq CaseStatus
      /\ lock' \in Workers \cup { NoWorker }
      /\ \A v \in Workers \ { w } : lock = v => lock' = v
  BY <1>1, <1>2 DEF IInv, TypeOK, Unlock
<1>4. RequestOK(w)'
  <2>1. req'[w] = Idle /\ row' = row
    BY <1>1, <1>2
  <2> QED BY <1>1, <2>1, IdleSound DEF RequestOK
<1>5. ToldOnlyCommitted'
  BY <1>2 DEF IInv, ToldOnlyCommitted
<1>6. lost' + InHand' <= lost + InHand
  <2>1. InHand \in { 0, 1 } /\ InHand' \in { 0, 1 } /\ InHand' <= InHand
        /\ (req[w].filed => InHand = 1 /\ InHand' = 0)
    BY <1>2, IdleSound, InHandShrinks
  <2>2. PICK held \in { 0, 1 } : held = InHand'
    BY <2>1
  <2>3. lost \in Nat /\ InHand \in { 0, 1 } /\ (held = 1 => InHand = 1)
        /\ (req[w].filed => InHand = 1 /\ held = 0)
    BY <1>1, <2>1, <2>2
  <2>4. lost + (IF req[w].filed THEN 1 ELSE 0) + held <= lost + InHand
    BY <2>3
  <2> QED BY <1>2, <2>2, <2>4
<1> QED BY <1>2, <1>3, <1>4, <1>5, <1>6, IdleSound, RowUntouched

-----------------------------------------------------------------------------
(* The theorems *)

LEMMA InitSound == Init => IInv
<1> SUFFICES ASSUME Init PROVE IInv
  OBVIOUS
<1>1. TypeOK
  <2>1. timeline \in Seq(Move)
    BY DEF Init
  <2>2. req \in [Workers -> Request]
    BY IdleSound DEF Init
  <2> QED BY <2>1, <2>2, IdleSound DEF Init, TypeOK, ClusterStates
<1>2. \A w \in Workers : RequestOK(w)
  BY IdleSound DEF Init, RequestOK
<1>3. InHand = 0 /\ Claimed = 0
  BY IdleSound DEF Init, InHand, Claimed, NewCase
<1> QED BY <1>1, <1>2, <1>3, IdleSound DEF Init, IInv, NewCase, TimelineEndsAtStatus,
        EventsDeclared, SummaryOnTimeline, ToldOnlyCommitted

LEMMA StepSound == IInv /\ [Next]_vars => IInv'
<1> SUFFICES ASSUME IInv, [Next]_vars PROVE IInv'
  OBVIOUS
<1>1. CASE Next
  <2> SUFFICES ASSUME NEW w \in Workers,
                      Open(w) \/ Handle(w) \/ Flush(w) \/ Finish(w) \/ Abort(w)
               PROVE  IInv'
    BY <1>1 DEF Next
  <2>1. CASE Finish(w)
    BY <2>1, SubmitAcceptedKeeps, SubmitFailedKeeps, CommitKeeps, StorePhotoKeeps,
       AnnounceKeeps DEF Finish
  <2> QED BY <2>1, OpenKeeps, HandleKeeps, FlushKeeps, AbortKeeps
<1>2. CASE UNCHANGED vars
  <2>1. UNCHANGED <<row, cluster, timeline, entries, photo, filings, lost, told, req,
                    lock, aborts>>
    BY <1>2 DEF vars
  <2>2. \A w \in Workers : RequestOK(w)'
    BY <2>1 DEF IInv, RequestOK
  <2>3. TypeOK' /\ TimelineEndsAtStatus' /\ EventsDeclared' /\ SummaryOnTimeline'
        /\ ToldOnlyCommitted'
    BY <2>1 DEF IInv, TypeOK, TimelineEndsAtStatus, EventsDeclared, SummaryOnTimeline,
                ToldOnlyCommitted
  <2>4. (filings >= lost + InHand + Claimed)'
    BY <2>1 DEF IInv, InHand, Claimed
  <2> QED BY <2>1, <2>2, <2>3, <2>4 DEF IInv, RowOK
<1> QED BY <1>1, <1>2

\* Every reachable state satisfies the inductive invariant.
THEOREM Invariance == Spec => []IInv
BY InitSound, StepSound, PTL DEF Spec

\* Every variable keeps its type, whatever the number of workers and the bounds.
THEOREM TypeCorrect == Spec => []TypeOK
<1>1. IInv => TypeOK
  BY DEF IInv
<1> QED BY <1>1, Invariance, PTL

\* Whatever columns two racing requests wrote last, the time stamps tell what the
\* status and the track tell.
THEOREM StampsKept == Spec => []StampsAgree
<1>1. IInv => StampsAgree
  BY DEF IInv, RowOK, StampsAgree, ReviewedIffDecided, EmicStamped, ClosedStamped
<1> QED BY <1>1, Invariance, PTL

\* However many requests overwrote each other, every event is a declared move and
\* the one committed last ends at the status of the row.
THEOREM TimelineTrusted == Spec => []TimelineSound
<1>1. IInv => TimelineSound
  BY DEF IInv, TimelineSound
<1> QED BY <1>1, Invariance, PTL

\* Nobody is told of a status that no committed event reached.
THEOREM NothingToldTooEarly == Spec => []ToldOnlyCommitted
<1>1. IInv => ToldOnlyCommitted
  BY DEF IInv
<1> QED BY <1>1, Invariance, PTL

\* "No response is ever fabricated" (connectors/emic.py): a case filed through
\* the interface rests on a submission EMIC accepted and that was not lost, and
\* the summary citizens read was put on the timeline.
THEOREM NoResponseFabricated == Spec => []NothingFabricated
<1>1. ASSUME IInv PROVE ApiChannelBacked
  <2> SUFFICES ASSUME row.emic_channel = "api"
               PROVE  filings > lost /\ "emic_submitted" \in entries
    BY DEF ApiChannelBacked
  <2>1. "emic_submitted" \in entries
    BY <1>1 DEF IInv
  <2>2. filings \in Nat /\ lost \in Nat /\ filings >= lost + InHand + Claimed
        /\ Claimed = 1 /\ InHand \in { 0, 1 }
    BY <1>1 DEF IInv, TypeOK, Claimed, InHand
  <2>3. filings > lost
    BY <2>2
  <2> QED BY <2>1, <2>3
<1>2. IInv => SummaryOnTimeline
  BY DEF IInv
<1>3. IInv => NothingFabricated
  BY <1>1, <1>2 DEF NothingFabricated
<1> QED BY <1>3, Invariance, PTL

-----------------------------------------------------------------------------
(***************************************************************************)
(* Requests that do not overlap (there is at most one worker), for every   *)
(* bound and both EMIC modes.  The proofs rest on the invariant above, and *)
(* end in the theorem that the case implements CaseProtocol.               *)
(*                                                                         *)
(* With one worker, the copy a request holds is still the committed row    *)
(* when it commits, so what it checked is still true when it writes.       *)
(***************************************************************************)

\* No two requests are in flight together.
OneWorker == \A v, w \in Workers : v = w

-----------------------------------------------------------------------------
(* The invariant *)

\* What the status says of the other columns.
RowTight(r) ==
  /\ r.closed_at <=> r.status = "closed"
  /\ r.status \in ProgressPath(r.status, r.track)
  /\ r.emic_reported_at => r.status \in EmicStatuses \cup { "closed" }

RequestFresh(w) ==
  LET r == req[w] IN
  /\ r.pc \in { "read", "decided", "flushed" } => r.old = row
  /\ r.pc \in { "decided", "flushed" } =>
       /\ RowTight(r.new)
       /\ r.oldCluster = cluster
       /\ r.newCluster = IF r.moves THEN ClusterAfter(cluster, r.new.status) ELSE cluster
       /\ r.submit # "no" => r.new.status = "reported_emic"

\* The submission a case that was reported accounts for.
Reported == IF row.emic_reported_at THEN 1 ELSE 0

SInv ==
  /\ RowTight(row)
  /\ ClusterFollowsCase
  /\ filings <= lost + InHand + Reported
  /\ \A w \in Workers : RequestFresh(w)

-----------------------------------------------------------------------------
(* Lemmas about rows *)

LEMMA TransitionedTight ==
  ASSUME NEW copy \in Row, NEW to \in CaseStatus,
         RowTight(copy), CanTransition(copy.status, to)
  PROVE  RowTight(Transitioned(copy, to))
<1> DEFINE new == Transitioned(copy, to)
<1>1. /\ new.status = to
      /\ new.track = TrackAfter(copy, to)
      /\ new.emic_reported_at <=> EmicStamp(copy, to)
      /\ new.closed_at <=> CloseStamp(copy, to)
  BY DEF Transitioned, Row
<1>2. copy.status # "closed"
      /\ (copy.status \in EmicStatuses => to \in EmicStatuses \cup { "closed" })
  BY DEF CanTransition, Transitions, EmicStatuses, CaseStatus, Row
<1> HIDE DEF new
<1>3. new.closed_at <=> new.status = "closed"
  BY <1>1, <1>2 DEF RowTight, CloseStamp
<1>4. new.emic_reported_at => new.status \in EmicStatuses \cup { "closed" }
  BY <1>1, <1>2 DEF RowTight, EmicStamp, EmicStatuses
<1>5. copy.track \in { "emic", "community", "none" }
  BY DEF Row, Tracks, NoTrack
<1>6. new.status \in ProgressPath(new.status, new.track)
  BY <1>1, <1>5 DEF ProgressPath, TrackAfter, TrackOf, NoTrack, CaseStatus,
                    EmicStatuses, CommunityStatuses
<1> QED BY <1>3, <1>4, <1>6 DEF RowTight, new

\* Nothing intervened: what is written is the copy.
LEMMA WrittenFresh ==
  ASSUME NEW new \in Row, NEW cur \in Row
  PROVE  LET w == Written(cur, new, cur) IN
         /\ w.status = new.status /\ w.track = new.track
         /\ w.closed_at = new.closed_at /\ w.emic_reported_at = new.emic_reported_at
BY DEF Written, Col, Row
-----------------------------------------------------------------------------
(* Lemmas about steps *)

LEMMA InHandOfOne ==
  ASSUME OneWorker, NEW w \in Workers
  PROVE  /\ InHand = IF req[w].filed THEN 1 ELSE 0
         /\ InHand' = IF req'[w].filed THEN 1 ELSE 0
BY DEF OneWorker, InHand

\* A step that leaves the row and its cluster alone.
LEMMA RowUntouchedTight ==
  ASSUME OneWorker, SInv, NEW w \in Workers, RequestFresh(w)',
         UNCHANGED <<row, cluster>>, filings' <= lost' + InHand' + Reported
  PROVE  SInv'
<1>1. \A v \in Workers : RequestFresh(v)'
  BY DEF OneWorker
<1>2. Reported' = Reported
  BY DEF Reported
<1>3. RowTight(row)' /\ ClusterFollowsCase'
  BY DEF SInv, RowTight, ClusterFollowsCase
<1> QED BY <1>1, <1>2, <1>3 DEF SInv

\* A step that submits nothing either.
LEMMA NothingFiled ==
  ASSUME OneWorker, SInv, NEW w \in Workers, req'[w].filed <=> req[w].filed,
         UNCHANGED <<filings, lost>>
  PROVE  filings' <= lost' + InHand' + Reported
<1>1. InHand' = InHand
  BY InHandOfOne
<1> QED BY <1>1 DEF SInv

LEMMA AcceptTight ==
  ASSUME OneWorker, IInv, SInv, NEW w \in Workers, NEW new \in Row,
         NEW notes, NEW submit \in { "no", "due" }, NEW after,
         RowTight(new), submit = "due" => new.status = "reported_emic",
         Accept(w, new, notes, submit, after)
  PROVE  SInv'
<1>1. req[w] \in Request /\ req \in [Workers -> Request] /\ req[w].pc = "read"
      /\ RequestFresh(w)
  BY DEF IInv, TypeOK, SInv, Accept
<1>2. /\ req'[w].pc = "decided" /\ req'[w].old = req[w].old /\ req'[w].new = new
      /\ req'[w].oldCluster = cluster /\ req'[w].submit = submit
      /\ (req'[w].moves <=> new.status # req[w].old.status)
      /\ (req'[w].filed <=> req[w].filed)
      /\ req'[w].newCluster = IF new.status # req[w].old.status
                               THEN ClusterAfter(cluster, new.status) ELSE cluster
  BY <1>1 DEF Accept, Request
<1>3. UNCHANGED <<row, cluster, filings, lost>>
  BY DEF Accept
<1>4. RequestFresh(w)'
  BY <1>1, <1>2, <1>3 DEF RequestFresh
<1>5. filings' <= lost' + InHand' + Reported
  BY <1>2, <1>3, NothingFiled
<1> QED BY <1>3, <1>4, <1>5, RowUntouchedTight

LEMMA MoveTight ==
  ASSUME OneWorker, IInv, SInv, NEW w \in Workers, NEW to \in CaseStatus,
         CanTransition(req[w].old.status, to), NEW after, MoveTo(w, to, after)
  PROVE  SInv'
<1> DEFINE old == req[w].old
<1>1. old \in Row /\ RowOK(old) /\ RowTight(old)
  BY DEF IInv, TypeOK, Request, RequestOK, SInv, RequestFresh, MoveTo, Accept
<1>2. Transitioned(old, to) \in Row /\ RowTight(Transitioned(old, to))
  BY <1>1, TransitionedSound, TransitionedTight
<1>3. Accept(w, Transitioned(old, to), {}, "no", after)
  BY DEF MoveTo
<1> HIDE DEF old
<1> QED BY <1>2, <1>3, AcceptTight

LEMMA ReportToEmicTight ==
  ASSUME OneWorker, IInv, SInv, NEW w \in Workers,
         CanTransition(req[w].old.status, "reported_emic"), ReportToEmic(w)
  PROVE  SInv'
<1> DEFINE old   == req[w].old
           moved == Transitioned(old, "reported_emic")
           new   == [moved EXCEPT !.emic_channel = UnansweredChannel]
<1>1. old \in Row /\ RowOK(old) /\ RowTight(old)
  BY DEF IInv, TypeOK, Request, RequestOK, SInv, RequestFresh, ReportToEmic, Accept
<1>2. moved \in Row /\ RowTight(moved) /\ moved.status = "reported_emic"
  BY <1>1, TransitionedSound, TransitionedTight DEF CaseStatus
<1>3. Accept(w, new, {}, IF ApiMode THEN "due" ELSE "no", "announcing")
  BY DEF ReportToEmic
<1> HIDE DEF old, moved
<1>4. /\ new \in Row /\ new.status = "reported_emic" /\ new.track = moved.track
      /\ new.closed_at = moved.closed_at
      /\ new.emic_reported_at = moved.emic_reported_at
  BY <1>2 DEF Row, UnansweredChannel, Channels
<1> HIDE DEF new
<1>5. RowTight(new)
  BY <1>2, <1>4 DEF RowTight
<1>6. (IF ApiMode THEN "due" ELSE "no") \in { "no", "due" }
  OBVIOUS
<1> QED BY <1>3, <1>4, <1>5, <1>6, AcceptTight

\* A copy that differs in the summary only.
LEMMA EditedTight ==
  ASSUME NEW copy \in Row, NEW b \in BOOLEAN, RowOK(copy), RowTight(copy)
  PROVE  LET edited == [copy EXCEPT !.public_summary = @ \/ b] IN
         /\ edited \in Row /\ RowOK(edited) /\ RowTight(edited)
         /\ edited.status = copy.status
BY DEF Row, RowOK, RowTight

LEMMA UpdateEmicTight ==
  ASSUME OneWorker, IInv, SInv, NEW w \in Workers, NEW noted \in BOOLEAN,
         NEW to \in { req[w].old.status, "emic_processing", "closed" },
         UpdateEmic(w, noted, to)
  PROVE  SInv'
<1> DEFINE old    == req[w].old
           edited == [old EXCEPT !.public_summary = @ \/ noted]
           new    == IF to = old.status THEN edited ELSE Transitioned(edited, to)
           notes  == IF noted THEN { "public_update" } ELSE {}
<1>1. old \in Row /\ RowOK(old) /\ RowTight(old)
  BY DEF IInv, TypeOK, Request, RequestOK, SInv, RequestFresh, UpdateEmic, Accept
<1>2. Accept(w, new, notes, "no", "announcing")
  BY DEF UpdateEmic
<1>3. to # old.status => CanTransition(old.status, to) /\ to \in CaseStatus
  BY DEF UpdateEmic, CaseStatus
<1> HIDE DEF old, notes
<1>4. edited \in Row /\ RowOK(edited) /\ RowTight(edited) /\ edited.status = old.status
  BY <1>1, EditedTight
<1> HIDE DEF edited
<1>5. new \in Row /\ RowTight(new)
  BY <1>3, <1>4, TransitionedSound, TransitionedTight
<1> HIDE DEF new
<1> QED BY <1>2, <1>5, AcceptTight

LEMMA AddUpdateTight ==
  ASSUME OneWorker, IInv, SInv, NEW w \in Workers, NEW public \in BOOLEAN,
         AddUpdate(w, public)
  PROVE  SInv'
<1> DEFINE old   == req[w].old
           new   == [old EXCEPT !.public_summary = @ \/ public]
           notes == IF public THEN { "public_update" } ELSE {}
<1>1. old \in Row /\ RowOK(old) /\ RowTight(old)
  BY DEF IInv, TypeOK, Request, RequestOK, SInv, RequestFresh, AddUpdate, Accept
<1>2. Accept(w, new, notes, "no", "idle")
  BY DEF AddUpdate
<1> HIDE DEF old, notes
<1>3. new \in Row /\ RowTight(new)
  BY <1>1, EditedTight
<1> HIDE DEF new
<1> QED BY <1>2, <1>3, AcceptTight

LEMMA HandleTight ==
  ASSUME OneWorker, IInv, SInv, NEW w \in Workers, Handle(w)
  PROVE  SInv'
<1>1. ASSUME NEW decision \in { "emic", "community", "dismiss" }, Review(w, decision)
      PROVE  SInv'
  <2>1. CanTransition(req[w].old.status, "reported_emic")
        /\ CanTransition(req[w].old.status, "community_open")
        /\ CanTransition(req[w].old.status, "dismissed")
    BY <1>1 DEF Review, CanTransition, Transitions
  <2>2. CASE ReportToEmic(w)
    BY <2>1, <2>2, ReportToEmicTight
  <2>3. CASE MoveTo(w, "community_open", "announcing")
    BY <2>1, <2>3, MoveTight DEF CaseStatus
  <2>4. CASE MoveTo(w, "dismissed", "announcing")
    BY <2>1, <2>4, MoveTight DEF CaseStatus
  <2> QED BY <1>1, <2>2, <2>3, <2>4 DEF Review
<1>2. ASSUME NEW to \in CaseStatus, TransitionCase(w, to)
      PROVE  SInv'
  BY <1>2, ReportToEmicTight, MoveTight DEF TransitionCase
<1>3. ASSUME CommunitySubmit(w)
      PROVE  SInv'
  <2>1. CanTransition(req[w].old.status, "community_submitted")
    BY <1>3 DEF CommunitySubmit, CanTransition, Transitions
  <2> QED BY <1>3, <2>1, MoveTight DEF CommunitySubmit, CaseStatus
<1>4. ASSUME NEW approve \in BOOLEAN, CommunityConfirm(w, approve)
      PROVE  SInv'
  <2> DEFINE to == IF approve THEN "closed" ELSE "community_open"
  <2>1. to \in CaseStatus /\ CanTransition(req[w].old.status, to)
    BY <1>4 DEF CommunityConfirm, CanTransition, Transitions, CaseStatus
  <2>2. MoveTo(w, to, "announcing")
    BY <1>4 DEF CommunityConfirm
  <2> HIDE DEF to
  <2> QED BY <2>1, <2>2, MoveTight
<1>5. ASSUME Refuse(w)
      PROVE  SInv'
  <2>1. req'[w] = Idle /\ UNCHANGED <<row, cluster, filings, lost>> /\ ~ req[w].filed
    BY <1>5 DEF Refuse, IInv, TypeOK, RequestOK
  <2>2. RequestFresh(w)'
    BY <2>1, IdleSound DEF RequestFresh
  <2>3. filings' <= lost' + InHand' + Reported
    BY <2>1, IdleSound, NothingFiled
  <2> QED BY <2>1, <2>2, <2>3, RowUntouchedTight
<1> QED BY <1>1, <1>2, <1>3, <1>4, <1>5, UpdateEmicTight, AddUpdateTight DEF Handle

LEMMA OpenTight ==
  ASSUME OneWorker, IInv, SInv, NEW w \in Workers, Open(w)
  PROVE  SInv'
<1>1. ~ req[w].filed /\ req \in [Workers -> Request]
  BY DEF Open, IInv, TypeOK, RequestOK
<1>2. /\ req'[w].pc = "read" /\ req'[w].old = row /\ ~ req'[w].filed
      /\ UNCHANGED <<row, cluster, filings, lost>>
  BY <1>1, IdleSound DEF Open, Idle
<1>3. RequestFresh(w)'
  BY <1>2 DEF RequestFresh
<1>4. filings' <= lost' + InHand' + Reported
  BY <1>1, <1>2, NothingFiled
<1> QED BY <1>2, <1>3, <1>4, RowUntouchedTight

LEMMA FlushTight ==
  ASSUME OneWorker, IInv, SInv, NEW w \in Workers, Flush(w)
  PROVE  SInv'
<1>1. req \in [Workers -> Request] /\ req[w].pc = "decided" /\ RequestFresh(w)
  BY DEF Flush, IInv, TypeOK, SInv
<1>2. /\ req'[w] = [req[w] EXCEPT !.pc = "flushed"]
      /\ UNCHANGED <<row, cluster, filings, lost>>
  BY <1>1 DEF Flush
<1>3. /\ req'[w].pc = "flushed" /\ req'[w].old = req[w].old /\ req'[w].new = req[w].new
      /\ req'[w].oldCluster = req[w].oldCluster /\ req'[w].newCluster = req[w].newCluster
      /\ (req'[w].moves <=> req[w].moves) /\ req'[w].submit = req[w].submit
      /\ (req'[w].filed <=> req[w].filed)
  BY <1>1, <1>2 DEF Request
<1>4. RequestFresh(w)'
  BY <1>1, <1>2, <1>3 DEF RequestFresh
<1>5. filings' <= lost' + InHand' + Reported
  BY <1>2, <1>3, NothingFiled
<1> QED BY <1>2, <1>4, <1>5, RowUntouchedTight

\* A step of the EMIC call puts in hand what it files.
LEMMA SubmitTight ==
  ASSUME OneWorker, IInv, SInv, NEW w \in Workers, NEW taken \in BOOLEAN, NEW channel,
         req[w].pc = "flushed", req[w].submit = "due",
         req'[w].pc = "flushed", req'[w].submit = "done", req'[w].filed = taken,
         req'[w].old = req[w].old, req'[w].moves <=> req[w].moves,
         req'[w].oldCluster = req[w].oldCluster, req'[w].newCluster = req[w].newCluster,
         req'[w].new = [req[w].new EXCEPT !.emic_channel = channel],
         filings' = filings + (IF taken THEN 1 ELSE 0),
         UNCHANGED <<row, cluster, lost>>
  PROVE  SInv'
<1>1. RequestFresh(w) /\ req[w].new \in Row /\ ~ req[w].filed
  BY DEF SInv, IInv, TypeOK, Request, RequestOK
<1>2. /\ req'[w].new.status = req[w].new.status /\ req'[w].new.track = req[w].new.track
      /\ (req'[w].new.closed_at <=> req[w].new.closed_at)
      /\ (req'[w].new.emic_reported_at <=> req[w].new.emic_reported_at)
  BY <1>1 DEF Row
<1>3. RowTight(req'[w].new)
  BY <1>1, <1>2 DEF RequestFresh, RowTight
<1>4. RequestFresh(w)'
  BY <1>1, <1>2, <1>3 DEF RequestFresh
<1>5. filings' <= lost' + InHand' + Reported
  <2>1. InHand = 0 /\ InHand' = IF taken THEN 1 ELSE 0
    BY <1>1, InHandOfOne
  <2>2. filings \in Nat /\ lost \in Nat /\ Reported \in { 0, 1 }
        /\ filings <= lost + 0 + Reported
    BY <2>1 DEF SInv, IInv, TypeOK, Reported
  <2>3. filings + (IF taken THEN 1 ELSE 0) <= lost + (IF taken THEN 1 ELSE 0) + Reported
    BY <2>2
  <2>4. lost' = lost
    OBVIOUS
  <2> QED BY <2>1, <2>3, <2>4
<1> QED BY <1>4, <1>5, RowUntouchedTight

LEMMA SubmitAcceptedTight ==
  ASSUME OneWorker, IInv, SInv, NEW w \in Workers, SubmitAccepted(w)
  PROVE  SInv'
<1>1. req \in [Workers -> Request] /\ req[w].new \in Row
  BY DEF IInv, TypeOK, Request
<1>2. req'[w] = [req[w] EXCEPT !.submit = "done", !.filed = TRUE,
                               !.new.emic_channel = "api",
                               !.notes = @ \cup { "emic_submitted" }]
  BY <1>1 DEF SubmitAccepted
<1>3. /\ req'[w].pc = req[w].pc /\ req'[w].submit = "done" /\ req'[w].filed = TRUE
      /\ req'[w].old = req[w].old /\ (req'[w].moves <=> req[w].moves)
      /\ req'[w].oldCluster = req[w].oldCluster /\ req'[w].newCluster = req[w].newCluster
      /\ req'[w].new = [req[w].new EXCEPT !.emic_channel = "api"]
  BY <1>1, <1>2 DEF Request
<1>4. /\ req[w].pc = "flushed" /\ req[w].submit = "due"
      /\ filings' = filings + 1 /\ UNCHANGED <<row, cluster, lost>>
  BY DEF SubmitAccepted
<1>5. filings' = filings + (IF TRUE THEN 1 ELSE 0) /\ req'[w].pc = "flushed"
  BY <1>3, <1>4
<1>6. TRUE \in BOOLEAN
  OBVIOUS
<1> QED BY <1>3, <1>4, <1>5, <1>6, SubmitTight

LEMMA SubmitFailedTight ==
  ASSUME OneWorker, IInv, SInv, NEW w \in Workers, SubmitFailed(w)
  PROVE  SInv'
<1>1. PICK taken \in BOOLEAN :
        /\ req' = [req EXCEPT ![w].submit = "done", ![w].filed = taken,
                              ![w].notes = @ \cup { "emic_submit_failed" }]
        /\ filings' = filings + (IF taken THEN 1 ELSE 0)
  BY DEF SubmitFailed
<1>2. req \in [Workers -> Request] /\ req[w].new \in Row
  BY DEF IInv, TypeOK, Request
<1>3. req'[w] = [req[w] EXCEPT !.submit = "done", !.filed = taken,
                               !.notes = @ \cup { "emic_submit_failed" }]
  BY <1>1, <1>2
<1>4. /\ req'[w].pc = req[w].pc /\ req'[w].submit = "done" /\ req'[w].filed = taken
      /\ req'[w].old = req[w].old /\ (req'[w].moves <=> req[w].moves)
      /\ req'[w].oldCluster = req[w].oldCluster /\ req'[w].newCluster = req[w].newCluster
      /\ req'[w].new = req[w].new
  BY <1>2, <1>3 DEF Request
<1>5. req'[w].new = [req[w].new EXCEPT !.emic_channel = req[w].new.emic_channel]
  BY <1>2, <1>4 DEF Row
<1>6. /\ req[w].pc = "flushed" /\ req[w].submit = "due"
      /\ row' = row /\ cluster' = cluster /\ lost' = lost
  BY DEF SubmitFailed
<1>7. req'[w].pc = "flushed"
  BY <1>4, <1>6
<1>8. \E channel : req'[w].new = [req[w].new EXCEPT !.emic_channel = channel]
  BY <1>5
<1>9. filings' = filings + (IF taken THEN 1 ELSE 0)
  BY <1>1
<1> QED BY <1>4, <1>6, <1>7, <1>8, <1>9, SubmitTight

\* What the only request in flight commits: the row becomes its copy.
LEMMA CommitWritesCopy ==
  ASSUME IInv, SInv, NEW w \in Workers, Commit(w)
  PROVE  LET r == req[w] IN
         /\ r.old = row /\ r.new \in Row /\ row' \in Row
         /\ row'.status = r.new.status /\ row'.track = r.new.track
         /\ (row'.closed_at <=> r.new.closed_at)
         /\ (row'.emic_reported_at <=> r.new.emic_reported_at)
         /\ DecidedOK(r) /\ RowTight(r.new) /\ RowTight(row')
         /\ cluster' = IF r.moves THEN ClusterAfter(cluster, r.new.status) ELSE cluster
<1> DEFINE r == req[w]
<1>1. r.pc = "flushed" /\ RequestFresh(w) /\ RequestOK(w) /\ r.new \in Row /\ row \in Row
  BY DEF Commit, SInv, IInv, TypeOK, Request
<1>2. r.old = row /\ DecidedOK(r) /\ RowTight(r.new) /\ r.oldCluster = cluster
      /\ r.newCluster = IF r.moves THEN ClusterAfter(cluster, r.new.status) ELSE cluster
  BY <1>1 DEF RequestFresh, RequestOK
<1>3. row' = Written(r.old, r.new, row)
      /\ cluster' = Col(r.oldCluster, r.newCluster, cluster)
  BY DEF Commit
<1> HIDE DEF r
<1>4. row' = Written(row, r.new, row) /\ row' \in Row
  BY <1>1, <1>2, <1>3 DEF Written, Col, Row
<1>5. /\ row'.status = r.new.status /\ row'.track = r.new.track
      /\ row'.closed_at = r.new.closed_at
      /\ row'.emic_reported_at = r.new.emic_reported_at
  BY <1>1, <1>4, WrittenFresh
<1>6. RowTight(row')
  BY <1>2, <1>5 DEF RowTight
<1>7. cluster' = r.newCluster
  BY <1>2, <1>3 DEF Col
<1> QED BY <1>1, <1>2, <1>4, <1>5, <1>6, <1>7 DEF r

LEMMA CommitTight ==
  ASSUME OneWorker, IInv, SInv, NEW w \in Workers, Commit(w)
  PROVE  SInv'
<1> DEFINE r == req[w]
<1>1. /\ r.old = row /\ r.new \in Row /\ row' \in Row
      /\ row'.status = r.new.status /\ row'.track = r.new.track
      /\ (row'.closed_at <=> r.new.closed_at)
      /\ (row'.emic_reported_at <=> r.new.emic_reported_at)
      /\ DecidedOK(r) /\ RowTight(r.new) /\ RowTight(row')
      /\ cluster' = IF r.moves THEN ClusterAfter(cluster, r.new.status) ELSE cluster
  BY CommitWritesCopy
<1>2. r \in Request /\ req \in [Workers -> Request] /\ RequestOK(w) /\ r.pc = "flushed"
      /\ UNCHANGED <<filings, lost>> /\ RequestFresh(w) /\ ClusterFollowsCase
      /\ row \in Row /\ RowTight(row)
  BY DEF IInv, TypeOK, Commit, SInv
<1>3. req'[w].pc \in { "idle", "storing", "announcing" } /\ ~ req'[w].filed
  <2>1. req'[w] = IF r.after = "idle" THEN Idle
                  ELSE [Idle EXCEPT !.pc = r.after, !.old = r.old]
    BY <1>2 DEF Commit
  <2> QED BY <1>2, <2>1 DEF Idle, Request
<1>4. \A v \in Workers : RequestFresh(v)'
  <2>1. RequestFresh(w)'
    BY <1>3 DEF RequestFresh
  <2> QED BY <2>1 DEF OneWorker
<1> HIDE DEF r
<1>5. ClusterFollowsCase'
  <2>1. CASE r.moves
    <3>1. row.status \notin FinalStatuses
      BY <1>1, <2>1 DEF DecidedOK, CanTransition, Transitions, FinalStatuses
    <3> QED BY <1>1, <1>2, <2>1, <3>1 DEF ClusterFollowsCase, ClusterAfter
  <2>2. CASE ~ r.moves
    BY <1>1, <1>2, <2>2 DEF DecidedOK, ClusterFollowsCase
  <2> QED BY <2>1, <2>2
<1>6. row.emic_reported_at => row'.emic_reported_at
  BY <1>1 DEF DecidedOK, Grows
<1>7. r.filed => ~ row.emic_reported_at /\ row'.emic_reported_at
  <2> SUFFICES ASSUME r.filed PROVE ~ row.emic_reported_at /\ row'.emic_reported_at
    OBVIOUS
  <2>1. r.moves /\ r.new.status = "reported_emic"
    BY <1>2 DEF r, RequestOK, RequestFresh
  <2>2. row.status \notin EmicStatuses \cup { "closed" }
    BY <1>1, <2>1 DEF DecidedOK, CanTransition, Transitions, EmicStatuses
  <2>3. RowOK(r.new)
    BY <1>1 DEF DecidedOK
  <2> QED BY <1>1, <1>2, <2>1, <2>2, <2>3 DEF RowTight, RowOK, EmicStatuses
<1>8. (filings <= lost + InHand + Reported)'
  <2>1. InHand = (IF r.filed THEN 1 ELSE 0) /\ InHand' = 0
    BY <1>3, InHandOfOne DEF r
  <2>2. PICK said \in { 0, 1 } : said = Reported'
    BY DEF Reported
  <2>3. /\ Reported \in { 0, 1 } /\ (Reported = 1 => said = 1)
        /\ (r.filed => Reported = 0 /\ said = 1)
    BY <1>6, <1>7, <2>2 DEF Reported
  <2>4. filings \in Nat /\ lost \in Nat
        /\ filings <= lost + (IF r.filed THEN 1 ELSE 0) + Reported
    BY <2>1 DEF SInv, IInv, TypeOK
  <2>5. filings <= lost + 0 + said
    BY <2>3, <2>4
  <2> QED BY <1>2, <2>1, <2>2, <2>5
<1> QED BY <1>1, <1>4, <1>5, <1>8 DEF SInv

LEMMA StorePhotoTight ==
  ASSUME OneWorker, IInv, SInv, NEW w \in Workers, StorePhoto(w)
  PROVE  SInv'
<1>1. req \in [Workers -> Request] /\ req[w].pc = "storing"
  BY DEF StorePhoto, IInv, TypeOK
<1>2. req'[w].pc = "announcing" /\ (req'[w].filed <=> req[w].filed)
      /\ UNCHANGED <<row, cluster, filings, lost>>
  BY <1>1 DEF StorePhoto, Request
<1>3. RequestFresh(w)'
  BY <1>2 DEF RequestFresh
<1>4. filings' <= lost' + InHand' + Reported
  BY <1>2, NothingFiled
<1> QED BY <1>2, <1>3, <1>4, RowUntouchedTight

LEMMA AnnounceTight ==
  ASSUME OneWorker, IInv, SInv, NEW w \in Workers, Announce(w)
  PROVE  SInv'
<1>1. req \in [Workers -> Request] /\ ~ req[w].filed
  BY DEF Announce, IInv, TypeOK, RequestOK
<1>2. req'[w] = Idle /\ UNCHANGED <<row, cluster, filings, lost>>
  BY <1>1 DEF Announce
<1>3. RequestFresh(w)'
  BY <1>2, IdleSound DEF RequestFresh
<1>4. filings' <= lost' + InHand' + Reported
  BY <1>1, <1>2, IdleSound, NothingFiled
<1> QED BY <1>2, <1>3, <1>4, RowUntouchedTight

LEMMA AbortTight ==
  ASSUME OneWorker, IInv, SInv, NEW w \in Workers, Abort(w)
  PROVE  SInv'
<1>1. req \in [Workers -> Request]
  BY DEF IInv, TypeOK
<1>2. req'[w] = Idle /\ UNCHANGED <<row, cluster, filings>>
      /\ lost' = lost + (IF req[w].filed THEN 1 ELSE 0)
  BY <1>1 DEF Abort
<1>3. RequestFresh(w)'
  BY <1>2, IdleSound DEF RequestFresh
<1>4. filings' <= lost' + InHand' + Reported
  <2>1. InHand = (IF req[w].filed THEN 1 ELSE 0) /\ InHand' = 0
    BY <1>2, IdleSound, InHandOfOne
  <2>2. filings <= lost + (IF req[w].filed THEN 1 ELSE 0) + Reported
    BY <2>1 DEF SInv
  <2>3. filings \in Nat /\ lost \in Nat /\ Reported \in { 0, 1 }
    BY DEF IInv, TypeOK, Reported
  <2>4. filings <= (lost + (IF req[w].filed THEN 1 ELSE 0)) + 0 + Reported
    BY <2>2, <2>3
  <2> QED BY <1>2, <2>1, <2>4
<1> QED BY <1>2, <1>3, <1>4, RowUntouchedTight

-----------------------------------------------------------------------------
(* The theorems *)

LEMMA InitTight == ASSUME OneWorker, Init PROVE SInv
<1>1. RowTight(row) /\ ClusterFollowsCase
  BY DEF Init, NewCase, RowTight, ClusterFollowsCase, ProgressPath, EmicStatuses,
         FinalStatuses
<1>2. \A w \in Workers : RequestFresh(w)
  BY IdleSound DEF Init, RequestFresh
<1>3. filings <= lost + InHand + Reported
  BY IdleSound DEF Init, InHand, Reported, NewCase
<1> QED BY <1>1, <1>2, <1>3 DEF SInv

LEMMA StepTight == ASSUME OneWorker, IInv, SInv, [Next]_vars PROVE SInv'
<1>1. CASE Next
  <2> SUFFICES ASSUME NEW w \in Workers,
                      Open(w) \/ Handle(w) \/ Flush(w) \/ Finish(w) \/ Abort(w)
               PROVE  SInv'
    BY <1>1 DEF Next
  <2>1. CASE Finish(w)
    BY <2>1, SubmitAcceptedTight, SubmitFailedTight, CommitTight, StorePhotoTight,
       AnnounceTight DEF Finish
  <2> QED BY <2>1, OpenTight, HandleTight, FlushTight, AbortTight
<1>2. CASE UNCHANGED vars
  <2>1. UNCHANGED <<row, cluster, filings, lost, req>>
    BY <1>2 DEF vars
  <2> QED BY <2>1 DEF SInv, RowTight, ClusterFollowsCase, InHand, Reported, RequestFresh
<1> QED BY <1>1, <1>2

\* With no overlap, every reachable state satisfies both invariants.
THEOREM SerialInvariance == ASSUME OneWorker PROVE Spec => []SInv
<1>1. Init => SInv
  BY InitTight
<1>2. IInv /\ SInv /\ [Next]_vars => SInv'
  BY StepTight
<1> QED BY <1>1, <1>2, Invariance, PTL DEF Spec

\* Status, closing time and spot end together: the spot of a case is open to
\* reports exactly while the case is, and the closing time belongs to closed cases
\* alone.
THEOREM ClosesAsOne == ASSUME OneWorker PROVE Spec => []ClosingConsistent
<1>1. SInv => ClosingConsistent
  BY DEF SInv, RowTight, ClosingConsistent, ClosedIffStamped
<1> QED BY <1>1, SerialInvariance, PTL

\* The progress bar of every case has a place for its status.
THEOREM ProgressHasPlace == ASSUME OneWorker PROVE Spec => []ProgressShowsCurrent
<1>1. SInv => ProgressShowsCurrent
  BY DEF SInv, RowTight, ProgressShowsCurrent
<1> QED BY <1>1, SerialInvariance, PTL

\* EMIC gets a case a second time only after a transaction died on the first.
THEOREM NoDoubleFiling == ASSUME OneWorker PROVE Spec => []FiledOnce
<1>1. ASSUME OneWorker, IInv, SInv PROVE FiledOnce
  <2>1. filings \in Nat /\ lost \in Nat /\ filings <= lost + InHand + Reported
        /\ InHand \in { 0, 1 } /\ Reported \in { 0, 1 }
    BY <1>1 DEF SInv, IInv, TypeOK, InHand, Reported
  <2>2. InHand = 1 => Reported = 0
    <3> SUFFICES ASSUME NEW w \in Workers, req[w].filed PROVE ~ row.emic_reported_at
      BY DEF InHand, Reported
    <3>1. RequestOK(w) /\ RequestFresh(w)
      BY <1>1 DEF IInv, SInv
    <3>2. req[w].old = row /\ DecidedOK(req[w]) /\ req[w].moves
          /\ req[w].new.status = "reported_emic"
      BY <3>1 DEF RequestOK, RequestFresh
    <3>3. row.status \notin EmicStatuses \cup { "closed" }
      BY <3>2 DEF DecidedOK, CanTransition, Transitions, EmicStatuses
    <3> QED BY <1>1, <3>3 DEF SInv, RowTight
  <2>3. filings <= 1 + lost
    BY <2>1, <2>2
  <2> QED BY <2>3 DEF FiledOnce
<1> QED BY <1>1, Invariance, SerialInvariance, PTL

\* A step of the case is a move of the protocol, or leaves its status and its
\* timeline alone.
LEMMA StepSimulates ==
  ASSUME OneWorker, IInv, SInv, [Next]_vars
  PROVE  [Protocol!Next]_(Protocol!vars)
<1>1. ASSUME NEW w \in Workers, Commit(w)
      PROVE  Protocol!Next \/ (row'.status = row.status /\ timeline' = timeline)
  <2> DEFINE r == req[w]
  <2>1. r.old = row /\ row'.status = r.new.status /\ DecidedOK(r) /\ row' \in Row
    BY <1>1, CommitWritesCopy
  <2>2. timeline' = IF r.moves THEN Append(timeline, StatusEvent(r)) ELSE timeline
    BY <1>1 DEF Commit
  <2> HIDE DEF r
  <2>3. CASE r.moves
    <3>1. CanTransition(row.status, row'.status)
          /\ timeline' = Append(timeline, [from |-> row.status, to |-> row'.status])
          /\ row'.status \in CaseStatus
      BY <2>1, <2>2, <2>3 DEF DecidedOK, StatusEvent, Row
    <3>2. Protocol!Move(row'.status)
      BY <3>1 DEF Protocol!Move, Protocol!CanTransition, Protocol!Transitions,
                  CanTransition, Transitions
    <3> QED BY <3>1, <3>2 DEF Protocol!Next, Protocol!CaseStatus, CaseStatus
  <2>4. CASE ~ r.moves
    BY <2>1, <2>2, <2>4 DEF DecidedOK
  <2> QED BY <2>3, <2>4
<1>2. ASSUME ~ \E w \in Workers : Commit(w)
      PROVE  row' = row /\ timeline' = timeline
  <2>1. CASE Next
    <3> SUFFICES ASSUME NEW w \in Workers,
                        Open(w) \/ Handle(w) \/ Flush(w) \/ Finish(w) \/ Abort(w)
                 PROVE  row' = row /\ timeline' = timeline
      BY <2>1 DEF Next
    <3>1. CASE Handle(w)
      BY <3>1 DEF Handle, Review, TransitionCase, UpdateEmic, CommunitySubmit,
                  CommunityConfirm, AddUpdate, Refuse, ReportToEmic, MoveTo, Accept
    <3>2. CASE Finish(w)
      BY <1>2, <3>2 DEF Finish, SubmitAccepted, SubmitFailed, StorePhoto, Announce
    <3> QED BY <3>1, <3>2 DEF Open, Flush, Abort
  <2>2. CASE UNCHANGED vars
    BY <2>2 DEF vars
  <2> QED BY <2>1, <2>2
<1> QED BY <1>1, <1>2 DEF Protocol!vars

\* The status and the timeline of a case behave as the status machine says.
THEOREM Implements == ASSUME OneWorker PROVE Spec => ImplementsProtocol
<1>1. Init => Protocol!Init
  BY DEF Init, Protocol!Init, NewCase
<1>2. IInv /\ SInv /\ [Next]_vars => [Protocol!Next]_(Protocol!vars)
  BY StepSimulates
<1> QED BY <1>1, <1>2, Invariance, SerialInvariance, PTL
        DEF Spec, ImplementsProtocol, Protocol!Spec

\* "The console can only move a case along an allowed path".
THEOREM MovesAllowed == ASSUME OneWorker PROVE Spec => MovesDeclared
<1>1. IInv /\ SInv /\ [Next]_vars => [CanTransition(row.status, row'.status)]_(row.status)
  <2> SUFFICES ASSUME IInv, SInv, [Next]_vars
               PROVE  CanTransition(row.status, row'.status) \/ row'.status = row.status
    OBVIOUS
  <2>1. [Protocol!Next]_(Protocol!vars)
    BY StepSimulates
  <2> QED BY <2>1 DEF Protocol!Next, Protocol!Move, Protocol!CanTransition,
                      Protocol!Transitions, Protocol!vars, CanTransition, Transitions
<1> QED BY <1>1, Invariance, SerialInvariance, PTL DEF Spec, MovesDeclared

=============================================================================
