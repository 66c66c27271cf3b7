------------------------------ MODULE FollowUp ------------------------------
(***************************************************************************)
(* What follows a report: the photos its reporter adds to it               *)
(* (upload_report_photo in app/routers/public.py, save_photo in            *)
(* app/services/media_service.py) and the messages its reporter gets about *)
(* the case (app/services/notification_service.py, after_commit in         *)
(* app/services/case_service.py, _notify_after_intake in                   *)
(* app/services/report_service.py).                                        *)
(*                                                                         *)
(* The reports are those of one spot.  The status of its case is a number  *)
(* that grows with every step (CaseLifecycle has the statuses), 0 while    *)
(* there is no case; how reports find their spot and how two promotions of *)
(* it interfere is in ReportIntake.  A told message is one handed to the   *)
(* mailer, or logged as simulated where none is configured; what the mail  *)
(* server does with it, the LINE messages to the staff and the wording are *)
(* left out.                                                               *)
(***************************************************************************)
EXTENDS Naturals, FiniteSets

CONSTANTS
  Reports,
  Addresses,    \* e-mail addresses
  AddressOf,    \* the address of the reporter
  MaxPhotos,    \* _MAX_PHOTOS_PER_REPORT
  Workers,      \* requests that may be in progress together
  MaxStatus,    \* bound: statuses of the case
  MaxUploads,   \* bound: photos ever stored
  MaxCrashes    \* bound: times the process dies

ASSUME AddressAssumption == AddressOf \in [Reports -> Addresses]
ASSUME PhotoAssumption   == MaxPhotos \in Nat \ { 0 }
ASSUME WorkersAssumption == IsFiniteSet(Workers) /\ Workers # {}
ASSUME ReportsAssumption == Reports # {}
ASSUME BoundsAssumption  == MaxStatus \in Nat \ { 0 } /\ MaxUploads \in Nat /\ MaxCrashes \in Nat

VARIABLES
  reports,  \* reports[r]: the committed row of report r
  photos,   \* photos[i]: the committed row of photo i
  files,    \* the photos in the media store
  status,   \* the status of the case
  told,     \* told[a]: the statuses address a was told
  req,      \* req[w]: the request of worker w
  crashes   \* times the process died so far

vars == <<reports, photos, files, status, told, req, crashes>>

-----------------------------------------------------------------------------
(* The shape of the data *)

PhotoIds == 1..MaxUploads

Report ==
  [ present : BOOLEAN, linked : BOOLEAN, rejected : BOOLEAN, opted : BOOLEAN, count : Nat ]

NoReport ==
  [ present |-> FALSE, linked |-> FALSE, rejected |-> FALSE, opted |-> FALSE, count |-> 0 ]

Photo == [ present : BOOLEAN, report : Reports, linked : BOOLEAN ]

\* row is the report as the request loaded it; seen the status it loaded; chosen
\* are the reports it links or tells, pictures the photos it links.
Request ==
  [ pc : { "idle", "read", "save", "promote", "move", "join", "choose", "tell" },
    report : Reports, row : Report, id : Nat, seen : 0..MaxStatus,
    chosen : SUBSET Reports, pictures : SUBSET PhotoIds ]

AnyReport == CHOOSE r \in Reports : TRUE

NoPhoto == [ present |-> FALSE, report |-> AnyReport, linked |-> FALSE ]

Idle ==
  [ pc |-> "idle", report |-> AnyReport, row |-> NoReport, id |-> 0, seen |-> 0,
    chosen |-> {}, pictures |-> {} ]

Init ==
  /\ reports = [r \in Reports |-> NoReport]
  /\ photos = [i \in PhotoIds |-> NoPhoto]
  /\ files = {}
  /\ status = 0
  /\ told = [a \in Addresses |-> {}]
  /\ req = [w \in Workers |-> Idle]
  /\ crashes = 0

PhotosOf(r) == { i \in PhotoIds : photos[i].present /\ photos[i].report = r }

Goto(w, r) == req' = [req EXCEPT ![w] = r]

-----------------------------------------------------------------------------
(* Reports *)

\* The operators marked "slip" are mistakes a change to the next operator could
\* make; no action uses them.
HearsOnJoining_slip(opted) == opted /\ status = 1

HearsOnJoining(opted) == opted /\ status > 0

\* create_report: a report of a spot that has a case joins the case.
Submit(w, r, opted) ==
  /\ req[w].pc = "idle" /\ ~ reports[r].present
  /\ reports' = [reports EXCEPT ![r] =
       [NoReport EXCEPT !.present = TRUE, !.opted = opted, !.linked = status > 0]]
  /\ Goto(w, IF HearsOnJoining(opted)
             THEN [Idle EXCEPT !.pc = "join", !.report = r, !.seen = status] ELSE Idle)
  /\ UNCHANGED <<photos, files, status, told, crashes>>

SomeRejected == \E r \in Reports : reports[r].present /\ reports[r].rejected

\* _notify_after_intake: the reporter hears where the case stands now, for the
\* commit expired what the session had read.  A report that its cluster counts
\* alone is taken for the first of a new spot, and its reporter hears nothing:
\* that takes a rejected report, which is not counted (and the count that is
\* found may be the one an overlapping request has left, see ReportIntake).
Join(w) ==
  \E alone \in BOOLEAN :
    LET tells == ~ alone /\ reports[req[w].report].opted IN
    /\ req[w].pc = "join"
    /\ alone => SomeRejected
    /\ told' = IF tells
               THEN [told EXCEPT ![AddressOf[req[w].report]] = @ \cup { status }] ELSE told
    /\ Goto(w, Idle)
    /\ UNCHANGED <<reports, photos, files, status, crashes>>

\* reject_report.
Reject(w, r) ==
  /\ req[w].pc = "idle" /\ reports[r].present
  /\ reports' = [reports EXCEPT ![r].rejected = TRUE]
  /\ UNCHANGED <<photos, files, status, told, req, crashes>>

\* unsubscribe: the link names a report.
Unsubscribe(w, r) ==
  /\ req[w].pc = "idle" /\ reports[r].present /\ reports[r].opted
  /\ reports' = [reports EXCEPT ![r].opted = FALSE]
  /\ UNCHANGED <<photos, files, status, told, req, crashes>>

-----------------------------------------------------------------------------
(* Photos *)

\* upload_report_photo: the report and the number of its photos are read before
\* the upload is.
Upload(w, r) ==
  /\ req[w].pc = "idle" /\ reports[r].present
  /\ Cardinality(PhotosOf(r)) < MaxPhotos
  /\ Goto(w, [Idle EXCEPT !.pc = "read", !.report = r, !.row = reports[r]])
  /\ UNCHANGED <<reports, photos, files, status, told, crashes>>

\* prepare: too large, or not a picture.
RefusePhoto(w) ==
  /\ req[w].pc = "read"
  /\ Goto(w, Idle)
  /\ UNCHANGED <<reports, photos, files, status, told, crashes>>

Stored_slip(id) == files

Stored(id) == files \cup { id }

\* save_photo first writes the bytes.  It runs on the event loop, one upload at
\* a time; requests of the thread pool go on.  Each photo has a name of its own.
Store(w) ==
  \E id \in PhotoIds \ files :
    /\ req[w].pc = "read"
    /\ \A v \in Workers : req[v].pc # "save"
    /\ \A earlier \in 1..id - 1 : earlier \in files
    /\ files' = Stored(id)
    /\ Goto(w, [req[w] EXCEPT !.pc = "save", !.id = id])
    /\ UNCHANGED <<reports, photos, status, told, crashes>>

Written_slip(row, loaded) == [loaded EXCEPT !.count = @ + 1]

\* The UPDATE names photo_count only, with one more than was loaded.
Written(row, loaded) == [row EXCEPT !.count = loaded.count + 1]

\* The photo takes over the case its report had when it was loaded.
SavePhoto(w) ==
  LET r == req[w] IN
  /\ r.pc = "save"
  /\ photos' = [photos EXCEPT ![r.id] =
       [ present |-> TRUE, report |-> r.report, linked |-> r.row.linked ]]
  /\ reports' = [reports EXCEPT ![r.report] = Written(@, r.row)]
  /\ Goto(w, Idle)
  /\ UNCHANGED <<files, status, told, crashes>>

-----------------------------------------------------------------------------
(* The case *)

\* create_case_from_cluster: the reports that stand, and their photos.  Its commit
\* writes their status, also where a rejection came in between.
Promote(w) ==
  LET standing == { r \in Reports : reports[r].present /\ ~ reports[r].rejected } IN
  /\ req[w].pc = "idle" /\ status = 0 /\ standing # {}
  /\ \A v \in Workers : req[v].pc # "promote"
  /\ Goto(w, [Idle EXCEPT !.pc = "promote", !.chosen = standing,
                          !.pictures = UNION { PhotosOf(r) : r \in standing }])
  /\ UNCHANGED <<reports, photos, files, status, told, crashes>>

CommitPromotion(w) ==
  /\ req[w].pc = "promote"
  /\ status' = 1
  /\ reports' = [r \in Reports |-> IF r \in req[w].chosen
                                   THEN [reports[r] EXCEPT !.linked = TRUE, !.rejected = FALSE]
                                   ELSE reports[r]]
  /\ photos' = [i \in PhotoIds |-> IF i \in req[w].pictures
                                  THEN [photos[i] EXCEPT !.linked = TRUE] ELSE photos[i]]
  /\ Goto(w, [Idle EXCEPT !.pc = "choose"])
  /\ UNCHANGED <<files, told, crashes>>

\* A request that moves the case on by one status.
Move(w) ==
  /\ req[w].pc = "idle" /\ status \in 1..MaxStatus - 1
  /\ Goto(w, [Idle EXCEPT !.pc = "move", !.seen = status])
  /\ UNCHANGED <<reports, photos, files, status, told, crashes>>

CommitMove(w) ==
  /\ req[w].pc = "move"
  /\ status' = req[w].seen + 1
  /\ Goto(w, [req[w] EXCEPT !.pc = "choose"])
  /\ UNCHANGED <<reports, photos, files, told, crashes>>

\* after_commit and notify_reporters: nothing if the row has the status it had
\* before, else to all who are subscribed now.
Subscribed(r) == reports[r].linked /\ reports[r].opted /\ ~ reports[r].rejected

Choose(w) ==
  /\ req[w].pc = "choose"
  /\ Goto(w, IF status = req[w].seen THEN Idle
             ELSE [Idle EXCEPT !.pc = "tell", !.seen = status,
                               !.chosen = { r \in Reports : Subscribed(r) }])
  /\ UNCHANGED <<reports, photos, files, status, told, crashes>>

\* Each address once, with the status that was read.
Tell(w) ==
  /\ req[w].pc = "tell"
  /\ told' = [a \in Addresses |-> IF \E r \in req[w].chosen : AddressOf[r] = a
                                  THEN told[a] \cup { req[w].seen } ELSE told[a]]
  /\ Goto(w, Idle)
  /\ UNCHANGED <<reports, photos, files, status, crashes>>

-----------------------------------------------------------------------------
(* The specification *)

\* The process dies, with all it was doing; nothing resumes it.
Crash ==
  /\ crashes < MaxCrashes
  /\ crashes' = crashes + 1
  /\ req' = [w \in Workers |-> Idle]
  /\ UNCHANGED <<reports, photos, files, status, told>>

Begin(w) ==
  \/ \E r \in Reports : Reject(w, r) \/ Unsubscribe(w, r) \/ Upload(w, r)
  \/ \E r \in Reports, opted \in BOOLEAN : Submit(w, r, opted)
  \/ Promote(w) \/ Move(w)

Proceed(w) ==
  \/ Join(w) \/ RefusePhoto(w) \/ Store(w) \/ SavePhoto(w)
  \/ CommitPromotion(w) \/ CommitMove(w) \/ Choose(w) \/ Tell(w)

Next == Crash \/ \E w \in Workers : Begin(w) \/ Proceed(w)

Spec == Init /\ [][Next]_vars

-----------------------------------------------------------------------------
(* What holds however many requests overlap *)

\* Every variable has its type (the columns of db/models.py).
TypeOK ==
  /\ reports \in [Reports -> Report]
  /\ photos \in [PhotoIds -> Photo]
  /\ files \subseteq PhotoIds
  /\ status \in 0..MaxStatus
  /\ told \in [Addresses -> SUBSET (0..MaxStatus)]
  /\ req \in [Workers -> Request]
  /\ crashes \in Nat

\* A listed photo can be served: its bytes were stored before its row was.
PhotosServable == \A i \in PhotoIds : photos[i].present => i \in files

\* photo_count never claims photos that are not there.
CountBacked == \A r \in Reports : reports[r].count <= Cardinality(PhotosOf(r))

\* Overlapping uploads pass the limit by no more than their number.
PhotosBounded ==
  \A r \in Reports : Cardinality(PhotosOf(r)) <= MaxPhotos + Cardinality(Workers) - 1

\* No photo is shown with a case that its report is not part of.
LinkBacked ==
  \A i \in PhotoIds : photos[i].present /\ photos[i].linked => reports[photos[i].report].linked

\* The photos stay in order however uploads, promotions and refusals overlap and
\* wherever the process dies.
PhotosSound == PhotosServable /\ CountBacked /\ PhotosBounded /\ LinkBacked

\* Who has unsubscribed a report is not subscribed again by a request that
\* loaded the report before: a photo, a promotion or a rejection.
OptOutStays ==
  [][\A r \in Reports :
       reports[r].present /\ ~ reports[r].opted => ~ reports'[r].opted]_reports

\* While no process dies, nobody is left with an old status: once every request
\* has ended, each subscriber has been told where the case is, also one whose
\* report joined while others moved the case on.  Where a report of the spot was
\* rejected this is not so (Join).
SubscribersTold ==
  crashes = 0 /\ ~ SomeRejected /\ (\A w \in Workers : req[w].pc = "idle") =>
    \A r \in Reports : Subscribed(r) => status \in told[AddressOf[r]]
=============================================================================
