-------------------------- MODULE MCStaffAccounts --------------------------
(* StaffAccounts for TLC. *)
EXTENDS StaffAccounts
=============================================================================
