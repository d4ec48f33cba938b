----------------------------- MODULE MCEventLog -----------------------------
(* The event log for TLC: writers, contents and stamps are only compared.   *)
EXTENDS EventLog, TLC

Symmetry == Permutations(Writers) \cup Permutations(Contents) \cup Permutations(Stamps)

=============================================================================
