---------------------------- MODULE MCPITStore ----------------------------
\* Served from the start: a bar of name A, one of the live feed for B, a filing of
\* A, A's entry into the index, and its split, announced ahead.  To come: the vendor
\* revises the bar, the filing is restated, A's leaving of the index is announced.
EXTENDS PITStore

Raw(job, name, event, date, val) ==
    [job |-> job, name |-> name, event |-> event, date |-> date, val |-> val]

MCPast == {
    Raw("sep_daily_bars", "A", -1, -1, 1), Raw("iex_daily_bars", "B", -1, -1, 1),
    Raw("sf1_fundamentals", "A", -2, -1, 1), Raw("sp500_universe", "A", -1, -1, 1),
    Raw("corporate_actions", "A", 2, 2, 1)}

MCNews == {
    Raw("sep_daily_bars", "A", -1, -1, 2), Raw("sf1_fundamentals", "A", -2, 1, 2),
    Raw("sp500_universe", "A", 2, 2, 0)}

\* A recorded fixture never changes and no other step reads it: what follows it is
\* explored from the same state without it.
NotYetRecorded == fixture = NoFixture
=============================================================================
