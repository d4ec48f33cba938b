----------------------------- MODULE MCBreakers -----------------------------
(* The breakers for TLC, with the thresholds of docs/configuration.md.      *)
EXTENDS Breakers

=============================================================================
