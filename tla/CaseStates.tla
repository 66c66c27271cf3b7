----------------------------- MODULE CaseStates -----------------------------
(***************************************************************************)
(* The closed status enum of an incident case and the tables that go with  *)
(* it (app/domain/case_states.py).  No state: every other module reads     *)
(* these definitions.                                                      *)
(***************************************************************************)

CaseStatus ==
  { "pending_review", "reported_emic", "emic_processing", "community_open",
    "community_submitted", "closed", "dismissed" }

\* Slip: a case already reported can be handed back to the citizens.
Transitions_slip ==
  [ pending_review      |-> { "reported_emic", "community_open", "dismissed" },
    reported_emic       |-> { "emic_processing", "community_open", "closed" },
    emic_processing     |-> { "closed" },
    community_open      |-> { "community_submitted", "reported_emic", "closed",
                              "dismissed" },
    community_submitted |-> { "closed", "community_open", "reported_emic" },
    closed              |-> {},
    dismissed           |-> {} ]

\* The moves the console and the citizens may make.
Transitions ==
  [ pending_review      |-> { "reported_emic", "community_open", "dismissed" },
    reported_emic       |-> { "emic_processing", "closed" },
    emic_processing     |-> { "closed" },
    community_open      |-> { "community_submitted", "reported_emic", "closed",
                              "dismissed" },
    community_submitted |-> { "closed", "community_open", "reported_emic" },
    closed              |-> {},
    dismissed           |-> {} ]

\* Slip: only the final statuses are guarded.
CanTransition(frm, to) == to \in Transitions[frm]

EmicStatuses      == { "reported_emic", "emic_processing" }
CommunityStatuses == { "community_open", "community_submitted" }
FinalStatuses     == { "closed", "dismissed" }

NoTrack == "none"
Tracks  == { "emic", "community", NoTrack }

\* The track a status decides; NoTrack where it decides none.
TrackOf(s) ==
  IF s \in EmicStatuses THEN "emic"
  ELSE IF s \in CommunityStatuses THEN "community"
  ELSE NoTrack

\* The statuses on the progress bar of a case, as a set: the short bar of a
\* dismissed case, else the bar of its stored track, else of its status' track.
ProgressPath(status, stored) ==
  LET track == IF stored = NoTrack THEN TrackOf(status) ELSE stored
  IN  { "pending_review" } \cup
      CASE status = "dismissed" -> { "dismissed" }
        [] status # "dismissed" /\ track = "emic" -> EmicStatuses \cup { "closed" }
        [] status # "dismissed" /\ track = "community" ->
             CommunityStatuses \cup { "closed" }
        [] status # "dismissed" /\ track = NoTrack -> { "closed" }
=============================================================================
