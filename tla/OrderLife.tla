------------------------------ MODULE OrderLife ------------------------------
(***************************************************************************)
(* What the ledger promises about a modeled order, without any of the      *)
(* machinery that keeps the promise: an order is placed under a trade id   *)
(* of its own, later filled at most once, and neither fact is ever taken   *)
(* back.  Ledger.tla is shown to implement this specification.             *)
(*                                                                         *)
(* A fill carries the position `at' it was recorded under, so two fills of *)
(* one order are two elements of `fills' even when they agree on the price.*)
(***************************************************************************)

VARIABLES
    placed,   \* the trade ids of the orders placed so far
    fills     \* records with fields at, ref and price, one for each fill

life == <<placed, fills>>

-----------------------------------------------------------------------------

Init ==
    /\ placed = {}
    /\ fills = {}

\* A new trade id enters the book.
Place ==
    /\ \E ref \in placed' : /\ ref \notin placed
                            /\ placed' = placed \cup {ref}
    /\ UNCHANGED fills

\* A placed order that has no fill receives one.
Fill ==
    /\ \E f \in fills' : /\ f \notin fills
                         /\ fills' = fills \cup {f}
                         /\ f.ref \in placed
                         /\ \A g \in fills : g.ref # f.ref
    /\ UNCHANGED placed

Next == Place \/ Fill

Spec == Init /\ [][Next]_life

=============================================================================
