---------------------------- MODULE MCEventLog -----------------------------
(***************************************************************************)
(* Small instances of the event log for TLC.                               *)
(***************************************************************************)
EXTENDS EventLog, TLC

IDSymmetry == Permutations(IDs)
=============================================================================
