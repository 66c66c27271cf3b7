---------------------------- MODULE CaseProtocol ----------------------------
(***************************************************************************)
(* What the status machine promises about one case, with no requests, rows *)
(* or transactions in sight: the case moves one declared transition at a   *)
(* time and its public history is exactly the chain of those moves.  The   *)
(* opening comment of app/domain/case_states.py, as a specification.       *)
(***************************************************************************)
EXTENDS CaseStates, Sequences

VARIABLES
  status,    \* where the case stands
  history    \* the moves made so far, each [from, to]

vars == <<status, history>>

Init ==
  /\ status = "pending_review"
  /\ history = << >>

Move(to) ==
  /\ CanTransition(status, to)
  /\ status' = to
  /\ history' = Append(history, [from |-> status, to |-> to])

Next == \E to \in CaseStatus : Move(to)

Spec == Init /\ [][Next]_vars
=============================================================================
