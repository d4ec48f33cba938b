------------------------------ MODULE RiskGate ------------------------------
(***************************************************************************)
(* The code gate every proposal passes (evaluate of graphs/risk_gate.py)   *)
(* and the arithmetic that turns what it approves into whole shares        *)
(* (build_order of graphs/orders.py).  Pure functions of their arguments.  *)
(*                                                                         *)
(* Sizes and exposures are shares of the NAV in units of 0.0001 %, so that *)
(* every size the code can compute from tenths of conviction is a whole    *)
(* number of units; the ADV floor is in millions of dollars.               *)
(***************************************************************************)
EXTENDS Integers, FiniteSetsExt

Percent == 10000

MaxPosition    == 5 * Percent
MaxNewPosition == (5 * Percent) \div 2
MaxSector      == 20 * Percent
MaxGross       == 150 * Percent
NetBand        == 30 * Percent
MinAdv         == 20
MinPrice       == 5

BreakerStates == {"normal", "derisk", "halt", "cooldown"}

Reject == [approved |-> FALSE, clamped |-> FALSE, size |-> 0]

\* What each sizing rule leaves for an order in the direction dir.  c is what the
\* gate is told of the name and the book: what is held of the name and of its
\* sector, gross and net exposure, and 2 % of the ADV, all as shares of the NAV.
Allowances(dir, c) ==
    {MaxPosition - c.same,
     IF c.same = 0 THEN MaxNewPosition ELSE MaxPosition - c.same,
     MaxSector - c.sector,
     MaxGross - c.gross,
     IF dir = "long" THEN NetBand - c.net ELSE NetBand + c.net,
     c.participation}

Admissible(size, c) ==
    /\ c.breaker \in BreakerStates \ {"cooldown", "halt"}
    /\ size > 0
    /\ ~c.exitOnly
    /\ c.adv >= MinAdv
    /\ c.price >= MinPrice

\* Mutant: the band is taken to limit longs only.
EvaluateLongBand(dir, size, c) ==
    LET working == IF c.breaker = "derisk" THEN size \div 2 ELSE size
        rules == Allowances("long", IF dir = "long" THEN c ELSE [c EXCEPT !.net = 0])
        final == Max({0, Min(rules \cup {working})})
    IN  IF ~Admissible(size, c) \/ 10 * final < 8 * working THEN Reject
        ELSE [approved |-> TRUE, clamped |-> final < size, size |-> final]

\* An admissible proposal keeps its size, halved in derisk, if every rule allows
\* it, is cut to what the tightest rule allows if that is at least 80 % of it,
\* and is rejected otherwise.
Evaluate(dir, size, c) ==
    LET working == IF c.breaker = "derisk" THEN size \div 2 ELSE size
        final == Max({0, Min(Allowances(dir, c) \cup {working})})
    IN  IF ~Admissible(size, c) \/ 10 * final < 8 * working THEN Reject
        ELSE [approved |-> TRUE, clamped |-> final < size, size |-> final]

\* floor(NAV * size / price); below one share the order cannot be built.
Shares(size, nav, price) == (nav * size) \div (100 * Percent * price)

=============================================================================
