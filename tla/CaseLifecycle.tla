--------------------------- MODULE CaseLifecycle ---------------------------
(***************************************************************************)
(* The life of one incident case after it was created: the requests of the *)
(* case router and of the public community form                            *)
(* (app/routers/cases.py, app/routers/public.py) and the handlers they     *)
(* call (app/services/case_service.py).                                    *)
(*                                                                         *)
(* A request reads the case row once, checks and changes its own copy, and *)
(* writes back in one transaction the columns that differ from what it     *)
(* read.  Nothing makes it read again: the sessions run at PostgreSQL's    *)
(* READ COMMITTED with no SELECT FOR UPDATE and no version column, so an   *)
(* UPDATE that waited for another transaction overwrites what that one     *)
(* wrote.  Workers are the requests that may be in flight together.        *)
(*                                                                         *)
(* Time stamps are modelled by "set or not".  Internal notes and the texts  *)
(* copied from EMIC (its case number, its status, the unit) are left out:   *)
(* of a request that only writes those, the model keeps its course.        *)
(***************************************************************************)
EXTENDS CaseStates, Naturals, Sequences

CONSTANTS
  Workers,    \* handlers that may serve requests for the case at once
  NoWorker,   \* nobody holds the row lock
  ApiMode,    \* TRUE when EMIC_SUBMIT_URL is configured
  MaxMoves,   \* bound: no request is accepted beyond this many status moves
  MaxAborts   \* bound: how often a request dies half way

ASSUME WorkersAssumption == NoWorker \notin Workers
ASSUME ModeAssumption    == ApiMode \in BOOLEAN
ASSUME BoundsAssumption  == MaxMoves \in Nat /\ MaxAborts \in Nat

VARIABLES
  row,        \* the committed incident_cases row
  cluster,    \* committed status of the report_clusters row of the case
  timeline,   \* committed "status_changed" events, oldest commit first
  entries,    \* types of the other committed case events (public note, EMIC call)
  photo,      \* a citizen's "after" photo is stored for the case
  filings,    \* submissions the EMIC endpoint has accepted for the case
  lost,       \* accepted submissions whose transaction never committed
  told,       \* statuses announced to the reporters of the case
  req,        \* req[w]: what worker w is doing
  lock,       \* the worker whose transaction holds the lock of the row
  aborts      \* requests that died so far

vars == <<row, cluster, timeline, entries, photo, filings, lost, told, req,
          lock, aborts>>

-----------------------------------------------------------------------------
(* The shape of the data *)

Channels    == { "none", "manual", "api" }
ClusterStates == { "promoted", "closed", "dismissed" }
EntryTypes  == { "public_update", "emic_submitted", "emic_submit_failed" }

Row == [ status : CaseStatus, track : Tracks,
         reviewed_at : BOOLEAN, emic_reported_at : BOOLEAN,
         community_submitted_at : BOOLEAN, closed_at : BOOLEAN,
         emic_channel : Channels, public_summary : BOOLEAN ]

Move == [ from : CaseStatus, to : CaseStatus ]

\* A request: the row as it read it and as it wants it, the cluster status as
\* it loaded and as it wants it, whether it moves the case, the other events it
\* writes, how far its EMIC call is, whether EMIC accepted, and what comes
\* after the commit.
Phases == { "idle", "read", "decided", "flushed", "storing", "announcing" }

Request == [ pc : Phases, old : Row, new : Row,
             oldCluster : ClusterStates, newCluster : ClusterStates,
             moves : BOOLEAN, notes : SUBSET EntryTypes,
             submit : { "no", "due", "done" }, filed : BOOLEAN,
             after : { "idle", "storing", "announcing" } ]

NewCase ==
  [ status |-> "pending_review", track |-> NoTrack,
    reviewed_at |-> FALSE, emic_reported_at |-> FALSE,
    community_submitted_at |-> FALSE, closed_at |-> FALSE,
    emic_channel |-> "none", public_summary |-> FALSE ]

Idle ==
  [ pc |-> "idle", old |-> NewCase, new |-> NewCase,
    oldCluster |-> "promoted", newCluster |-> "promoted",
    moves |-> FALSE, notes |-> {}, submit |-> "no", filed |-> FALSE,
    after |-> "idle" ]

Init ==
  /\ row = NewCase
  /\ cluster = "promoted"
  /\ timeline = << >>
  /\ entries = {}
  /\ photo = FALSE
  /\ filings = 0
  /\ lost = 0
  /\ told = {}
  /\ req = [w \in Workers |-> Idle]
  /\ lock = NoWorker
  /\ aborts = 0

-----------------------------------------------------------------------------
(* Reading the row *)

\* The committed row, whatever other transactions have in hand.
Open(w) ==
  /\ req[w].pc = "idle"
  /\ req' = [req EXCEPT ![w] = [Idle EXCEPT !.pc = "read", !.old = row, !.new = row]]
  /\ UNCHANGED <<row, cluster, timeline, entries, photo, filings, lost, told,
                 lock, aborts>>

-----------------------------------------------------------------------------
(* The handlers: each checks and changes the copy it was given *)

\* The columns transition() sets, one operator for each rule it follows.  The
\* operators marked "slip" are mistakes a change to that rule could make; no
\* action uses them.

TrackAfter_slip(copy, to) == IF copy.track = NoTrack THEN TrackOf(to) ELSE copy.track

TrackAfter(copy, to) == IF TrackOf(to) = NoTrack THEN copy.track ELSE TrackOf(to)

ReviewStamp_slip(copy, to) == copy.reviewed_at \/ to = "pending_review"

ReviewStamp(copy, to) == copy.reviewed_at \/ copy.status = "pending_review"

EmicStamp(copy, to) == copy.emic_reported_at \/ to = "reported_emic"

CloseStamp(copy, to) == copy.closed_at \/ to = "closed"

ClusterAfter_slip1(loaded, to) == IF to = "closed" THEN to ELSE loaded

ClusterAfter_slip2(loaded, to) == to

ClusterAfter(loaded, to) == IF to \in FinalStatuses THEN to ELSE loaded

\* transition(): what a copy of the row becomes when the case moves.
Transitioned(copy, to) ==
  [copy EXCEPT
     !.status = to,
     !.track = TrackAfter(copy, to),
     !.reviewed_at = ReviewStamp(copy, to),
     !.emic_reported_at = EmicStamp(copy, to),
     !.community_submitted_at = @ \/ to = "community_submitted",
     !.closed_at = CloseStamp(copy, to)]

\* A handler ends with new values for its copy, which the session will flush.
Accept(w, new, notes, submit, after) ==
  LET moves == new.status # req[w].old.status IN
  /\ req[w].pc = "read"
  /\ moves => CanTransition(req[w].old.status, new.status) /\ Len(timeline) < MaxMoves
  /\ req' = [req EXCEPT ![w] =
       [@ EXCEPT !.pc = "decided",
                 !.new = new,
                 !.oldCluster = cluster,
                 !.newCluster = IF moves THEN ClusterAfter(cluster, new.status)
                                ELSE cluster,
                 !.moves = moves,
                 !.notes = notes,
                 !.submit = submit,
                 !.after = after]]
  /\ UNCHANGED <<row, cluster, timeline, entries, photo, filings, lost, told,
                 lock, aborts>>

MoveTo(w, to, after) == Accept(w, Transitioned(req[w].old, to), {}, "no", after)

\* The channel of a case EMIC has not answered for yet.
UnansweredChannel_slip == IF ApiMode THEN "api" ELSE "manual"

UnansweredChannel == "manual"

\* report_to_emic: manual filing unless the endpoint is configured.
ReportToEmic(w) ==
  Accept(w, [Transitioned(req[w].old, "reported_emic")
               EXCEPT !.emic_channel = UnansweredChannel],
         {}, IF ApiMode THEN "due" ELSE "no", "announcing")

Review(w, decision) ==
  /\ req[w].old.status = "pending_review"
  /\ \/ decision = "emic" /\ ReportToEmic(w)
     \/ decision = "community" /\ MoveTo(w, "community_open", "announcing")
     \/ decision = "dismiss" /\ MoveTo(w, "dismissed", "announcing")

\* POST /cases/{id}/transition: any target the state machine allows.
TransitionCase(w, to) ==
  /\ CanTransition(req[w].old.status, to)
  /\ IF to = "reported_emic" THEN ReportToEmic(w) ELSE MoveTo(w, to, "announcing")

\* update_emic: what EMIC says is recorded, a public note may be added, and the
\* case may move; a refused move takes the rest back with it.
UpdateEmic(w, noted, to) ==
  LET old     == req[w].old
      edited  == [old EXCEPT !.public_summary = @ \/ noted]
  IN
  /\ old.status \in EmicStatuses
  /\ to # old.status => CanTransition(old.status, to)
  /\ Accept(w, IF to = old.status THEN edited ELSE Transitioned(edited, to),
            IF noted THEN { "public_update" } ELSE {}, "no", "announcing")

\* The citizens' form: checked before the files are read and again after, on
\* the same copy; the photos are stored once the move is committed.
CommunitySubmit(w) ==
  /\ req[w].old.status = "community_open"
  /\ MoveTo(w, "community_submitted", "storing")

CommunityConfirm(w, approve) ==
  /\ req[w].old.status = "community_submitted"
  /\ MoveTo(w, IF approve THEN "closed" ELSE "community_open", "announcing")

AddUpdate(w, public) ==
  Accept(w, [req[w].old EXCEPT !.public_summary = @ \/ public],
         IF public THEN { "public_update" } ELSE {}, "no", "idle")

\* A check failed: the session rolls back and the client gets 400 or 409.
\* Every status refuses some request, so this is always possible.
Refuse(w) ==
  /\ req[w].pc = "read"
  /\ req' = [req EXCEPT ![w] = Idle]
  /\ UNCHANGED <<row, cluster, timeline, entries, photo, filings, lost, told,
                 lock, aborts>>

-----------------------------------------------------------------------------
(* The transaction *)

Flush_slip(w) ==
  /\ req[w].pc = "decided"
  /\ lock = NoWorker /\ lock' = w
  /\ told' = told \cup { req[w].new.status }
  /\ req' = [req EXCEPT ![w].pc = "flushed"]
  /\ UNCHANGED <<row, cluster, timeline, entries, photo, filings, lost, aborts>>

\* The UPDATE takes the row lock; a request that changes no column of the row
\* only inserts an event and waits for nobody.
Flush(w) ==
  /\ req[w].pc = "decided"
  /\ IF req[w].new = req[w].old
     THEN UNCHANGED lock
     ELSE lock = NoWorker /\ lock' = w
  /\ req' = [req EXCEPT ![w].pc = "flushed"]
  /\ UNCHANGED <<row, cluster, timeline, entries, photo, filings, lost, told, aborts>>

\* emic.submit returned: EMIC has the case.
SubmitAccepted(w) ==
  /\ req[w].pc = "flushed" /\ req[w].submit = "due"
  /\ req' = [req EXCEPT ![w].submit = "done", ![w].filed = TRUE,
                        ![w].new.emic_channel = "api",
                        ![w].notes = @ \cup { "emic_submitted" }]
  /\ filings' = filings + 1
  /\ UNCHANGED <<row, cluster, timeline, entries, photo, lost, told, lock, aborts>>

\* emic.submit raised ConnectorError: refused, unreachable, or a timeout after
\* EMIC had taken the case in.
SubmitFailed(w) ==
  /\ req[w].pc = "flushed" /\ req[w].submit = "due"
  /\ \E taken \in BOOLEAN :
       /\ req' = [req EXCEPT ![w].submit = "done", ![w].filed = taken,
                             ![w].notes = @ \cup { "emic_submit_failed" }]
       /\ filings' = filings + (IF taken THEN 1 ELSE 0)
  /\ UNCHANGED <<row, cluster, timeline, entries, photo, lost, told, lock, aborts>>

\* The session writes a column only where its copy changed.
Col_slip(old, new, cur) == IF new # old /\ cur = old THEN new ELSE cur

Col(old, new, cur) == IF new # old THEN new ELSE cur

Written(old, new, cur) ==
  [ status                 |-> Col(old.status, new.status, cur.status),
    track                  |-> Col(old.track, new.track, cur.track),
    reviewed_at            |-> Col(old.reviewed_at, new.reviewed_at, cur.reviewed_at),
    emic_reported_at       |-> Col(old.emic_reported_at, new.emic_reported_at,
                                   cur.emic_reported_at),
    community_submitted_at |-> Col(old.community_submitted_at,
                                   new.community_submitted_at,
                                   cur.community_submitted_at),
    closed_at              |-> Col(old.closed_at, new.closed_at, cur.closed_at),
    emic_channel           |-> Col(old.emic_channel, new.emic_channel, cur.emic_channel),
    public_summary         |-> Col(old.public_summary, new.public_summary,
                                   cur.public_summary) ]

\* The event of a move names the status the request left, as it read it.
StatusEvent_slip(r) == [ from |-> r.new.status, to |-> r.new.status ]

StatusEvent(r) == [ from |-> r.old.status, to |-> r.new.status ]

Unlock(w) == IF lock = w THEN NoWorker ELSE lock

\* db.commit(): the row, its cluster and the events become visible together.
Commit(w) ==
  LET r == req[w] IN
  /\ r.pc = "flushed" /\ r.submit # "due"
  /\ row' = Written(r.old, r.new, row)
  /\ cluster' = Col(r.oldCluster, r.newCluster, cluster)
  /\ timeline' = IF r.moves
                 THEN Append(timeline, StatusEvent(r)) ELSE timeline
  /\ entries' = entries \cup r.notes
  /\ lock' = Unlock(w)
  /\ req' = [req EXCEPT ![w] = IF r.after = "idle" THEN Idle
                               ELSE [Idle EXCEPT !.pc = r.after, !.old = r.old]]
  /\ UNCHANGED <<photo, filings, lost, told, aborts>>

\* save_photo, a transaction of its own for each photo.  It prepares the
\* already re-encoded bytes again; a photo refused then is skipped.
StorePhoto(w) ==
  /\ req[w].pc = "storing"
  /\ photo' \in { photo, TRUE }
  /\ req' = [req EXCEPT ![w].pc = "announcing"]
  /\ UNCHANGED <<row, cluster, timeline, entries, filings, lost, told, lock, aborts>>

ChangedSince_slip(w) == row.status \in EmicStatuses \cup { "closed" }

ChangedSince(w) == row.status # req[w].old.status

\* db.refresh + after_commit: what is announced is the status of the row now,
\* if it is not the one the request had read.
Announce(w) ==
  /\ req[w].pc = "announcing"
  /\ told' = IF ChangedSince(w) THEN told \cup { row.status } ELSE told
  /\ req' = [req EXCEPT ![w] = Idle]
  /\ UNCHANGED <<row, cluster, timeline, entries, photo, filings, lost, lock, aborts>>

\* The process or its connection dies: PostgreSQL drops the open transaction,
\* EMIC keeps what it accepted, and what was to follow a commit never happens.
Abort(w) ==
  /\ req[w].pc # "idle"
  /\ aborts < MaxAborts
  /\ aborts' = aborts + 1
  /\ lost' = lost + (IF req[w].filed THEN 1 ELSE 0)
  /\ lock' = Unlock(w)
  /\ req' = [req EXCEPT ![w] = Idle]
  /\ UNCHANGED <<row, cluster, timeline, entries, photo, filings, told>>

-----------------------------------------------------------------------------
(* The specification *)

Handle(w) ==
  \/ \E decision \in { "emic", "community", "dismiss" } : Review(w, decision)
  \/ \E to \in CaseStatus : TransitionCase(w, to)
  \/ \E noted \in BOOLEAN :
       \E to \in { req[w].old.status, "emic_processing", "closed" } :
         UpdateEmic(w, noted, to)
  \/ CommunitySubmit(w)
  \/ \E approve \in BOOLEAN : CommunityConfirm(w, approve)
  \/ \E public \in BOOLEAN : AddUpdate(w, public)
  \/ Refuse(w)

Finish(w) ==
  \/ SubmitAccepted(w) \/ SubmitFailed(w)
  \/ Commit(w) \/ StorePhoto(w) \/ Announce(w)

Next == \E w \in Workers : Open(w) \/ Handle(w) \/ Flush(w) \/ Finish(w) \/ Abort(w)

Spec == Init /\ [][Next]_vars

\* A request that was read runs to its end: the worker thread keeps running,
\* the EMIC call has a timeout, and PostgreSQL serves a row lock in the order
\* it was asked for, so a waiting UPDATE is not overtaken for ever.
Fairness ==
  \A w \in Workers : /\ WF_vars(Handle(w))
                     /\ SF_vars(Flush(w))
                     /\ WF_vars(Finish(w))

FairSpec == Spec /\ Fairness

-----------------------------------------------------------------------------
(* What holds however many requests overlap *)

\* Every variable has its type (the columns and events of db/models.py).
TypeOK ==
  /\ row \in Row
  /\ cluster \in ClusterStates
  /\ timeline \in Seq(Move)
  /\ entries \subseteq EntryTypes
  /\ photo \in BOOLEAN
  /\ filings \in Nat /\ lost \in Nat /\ aborts \in Nat
  /\ told \subseteq CaseStatus
  /\ req \in [Workers -> Request]
  /\ lock \in Workers \cup { NoWorker }

\* The review stamp and the review point agree: a case carries reviewed_at
\* exactly when it has left pending_review, whichever of two racing reviews
\* came second (transition, case_service.py).
ReviewedIffDecided == row.reviewed_at <=> row.status # "pending_review"

\* The audit trail never loses sight of the row: the event committed last
\* ends at the status the row has, since both are written by one transaction.
TimelineEndsAtStatus ==
  row.status = IF timeline = << >> THEN "pending_review"
               ELSE timeline[Len(timeline)].to

\* Each event taken alone is a declared move, even where two overlapping
\* requests drag the row along an undeclared one.
EventsDeclared ==
  \A i \in 1..Len(timeline) : timeline[i].to \in Transitions[timeline[i].from]

\* The timeline can be trusted: it ends where the case is, by moves that exist.
TimelineSound == TimelineEndsAtStatus /\ EventsDeclared

\* A case that is or was on the EMIC track has its reporting time, also when
\* the escalation came from the community track.
EmicStamped ==
  row.track = "emic" \/ row.status \in EmicStatuses => row.emic_reported_at

\* A closed case has its closing time.
ClosedStamped == row.status = "closed" => row.closed_at

\* The time stamps and the status tell one story, whichever columns of the row
\* two overlapping requests wrote last.
StampsAgree == ReviewedIffDecided /\ EmicStamped /\ ClosedStamped

\* "No response is ever fabricated" (connectors/emic.py): a case that says it
\* went through the interface was accepted by EMIC in a transaction that
\* committed, and its timeline says so.
ApiChannelBacked ==
  row.emic_channel = "api" => filings > lost /\ "emic_submitted" \in entries

\* The progress summary citizens read is one that was put on the timeline, also
\* when it came with an EMIC update whose move was refused.
SummaryOnTimeline == row.public_summary => "public_update" \in entries

\* What citizens read of a case was really said or done.
NothingFabricated == ApiChannelBacked /\ SummaryOnTimeline

\* "Nobody is told about a change that rolled back" (case_service.py): every
\* announced status is one that a committed event reached.
ToldOnlyCommitted == told \subseteq { timeline[i].to : i \in DOMAIN timeline }

\* While no request dies, citizens are never left for good with an outdated
\* status: overlapping requests may skip one, but time and again the status the
\* case has is one that was announced.
RestStatusTold == []<>(row.status \in told \cup { "pending_review" } \/ aborts > 0)

-----------------------------------------------------------------------------
(* What holds when requests for the case do not overlap *)

Protocol == INSTANCE CaseProtocol WITH status <- row.status, history <- timeline

\* The case implements the status machine: it starts pending, every step of
\* the row is a declared move, and the timeline is the chain of those moves.
ImplementsProtocol == Protocol!Spec

\* "The console can only move a case along an allowed path"
\* (domain/case_states.py): no step of the row is an undeclared move.
MovesDeclared == [][CanTransition(row.status, row'.status)]_(row.status)

\* The spot of a finished case takes no more reports and the spot of an open
\* one still does: the cluster is closed or dismissed exactly with its case.
ClusterFollowsCase ==
  cluster = IF row.status \in FinalStatuses THEN row.status ELSE "promoted"

\* closed_at is not left behind on a case that is open.
ClosedIffStamped == row.closed_at <=> row.status = "closed"

\* The end of a case is one event: its status, its closing time and the spot it
\* frees change together, also on a detour.
ClosingConsistent == ClusterFollowsCase /\ ClosedIffStamped

\* The citizens' progress bar has a place for the case: its status lies on the
\* path of its stored track (presenters.progress), also after an escalation.
ProgressShowsCurrent == row.status \in ProgressPath(row.status, row.track)

\* EMIC receives a case once, unless a transaction died after the call.
FiledOnce == filings <= 1 + lost

\* While no request dies, every status a case reaches is announced.
EveryStatusTold ==
  \A s \in CaseStatus \ { "pending_review" } :
    row.status = s /\ aborts = 0 ~> s \in told \/ aborts > 0
=============================================================================
