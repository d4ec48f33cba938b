------------------------------- MODULE MCBook -------------------------------
(***************************************************************************)
(* The book for TLC: two names, and a fund near its limits.                *)
(***************************************************************************)
EXTENDS Book

\* Offered first, offered next, and reasons to be left out.
MCRows ==
    {[member |-> TRUE, indicators |-> 6, adv |-> 50],
     [member |-> TRUE, indicators |-> 6, adv |-> 20],
     [member |-> FALSE, indicators |-> 5, adv |-> 19]}

\* Long near the upper end of the band and the gross cap; the same fund after a
\* session in which the first name gains and the NAV falls; short near the lower end;
\* and the same fund when what it is short of has gained and taken it out of the band.
\* Half of the smaller size does not pay for one share of the first name, and the
\* second is at the floor of the price or below it.
MCMarkets ==
    {[close |-> <<4000, 5>>, worth |-> <<4000, 5>>, long |-> 884000, short |-> 596000],
     [close |-> <<4300, 5>>, worth |-> <<4500, 6>>, long |-> 890000, short |-> 601000],
     [close |-> <<4000, 4>>, worth |-> <<3900, 4>>, long |-> 3000, short |-> 297000],
     [close |-> <<4100, 5>>, worth |-> <<4000, 5>>, long |-> 3000, short |-> 304000]}

=============================================================================
