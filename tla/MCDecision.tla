----------------------------- MODULE MCDecision -----------------------------
(***************************************************************************)
(* One candidate's decision for TLC: manifests with and without a family   *)
(* that can judge, books with room, with nearly none and with none.        *)
(***************************************************************************)
EXTENDS Decision

Roles == {"FUND-TECH", "TECH-01", "BULL-01", "BEAR-01", "MOD-01", "PM-01"}

MCRosters ==
    {[bull |-> 1, bear |-> 3, available |-> {1, 2, 3}, live |-> Roles],
     [bull |-> 2, bear |-> 1, available |-> {1, 2, 3}, live |-> Roles],
     [bull |-> 1, bear |-> 2, available |-> {1, 2}, live |-> Roles],
     [bull |-> 2, bear |-> 3, available |-> {2, 3, 4}, live |-> Roles],
     [bull |-> 2, bear |-> 2, available |-> {1, 2}, live |-> Roles],
     [bull |-> 1, bear |-> 3, available |-> {1, 2, 3}, live |-> Roles \ {"MOD-01"}],
     [bull |-> 2, bear |-> 1, available |-> {1, 2, 3}, live |-> Roles \ {"TECH-01"}]}

Empty ==
    [breaker |-> "normal", exitOnly |-> FALSE, adv |-> 20, price |-> 0, same |-> 0, sector |-> 0,
     gross |-> 0, net |-> 0, participation |-> 400 * Percent]

\* The empty book under every breaker; 0.45 % and 0.2 % left of the net band.
MCBooks ==
    {[Empty EXCEPT !.breaker = b] : b \in {"normal", "derisk", "halt"}}
    \cup {[Empty EXCEPT !.net = NetBand - room, !.gross = NetBand] : room \in {4500, 2000}}

=============================================================================
