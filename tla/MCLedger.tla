------------------------------ MODULE MCLedger ------------------------------
(***************************************************************************)
(* The ledger for TLC: two names, two orders, two sessions.                *)
(***************************************************************************)
EXTENDS Ledger

\* Trade ids and names are only compared.
Symmetry == Permutations(Refs) \cup Permutations(Tickers)

\* What the last two runs decide is never settled, so they are followed up to there; and
\* the last one only settles the second of two orders on a name, at an open of its own.
LastRunsSettle ==
    /\ runs >= MaxRuns - 1 => pc # "decide"
    /\ runs = MaxRuns \/ (runs = MaxRuns - 1 /\ pc = "idle") =>
           /\ Cardinality(Pending(log)) = 1
           /\ \E t \in Tickers : /\ Cardinality(Orders(log, t)) = 2
                                 /\ runs = MaxRuns => DOMAIN bars = {t}

=============================================================================
