-------------------------- MODULE MCResidentService --------------------------
(* Small instances of ResidentService for TLC. *)
EXTENDS ResidentService

\* Every call site but the pass that follows a restart.
AfterStart == CallSites \ {"initial"}
=============================================================================
