---------------------------- MODULE MCDailyCycle ----------------------------
(***************************************************************************)
(* The daily cycle for TLC: caps and envelopes are scaled down so that one *)
(* stage may cross a cap and the second run may reach the week's cap.      *)
(***************************************************************************)
EXTENDS DailyCycle

=============================================================================
