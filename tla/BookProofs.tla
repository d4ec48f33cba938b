----------------------------- MODULE BookProofs -----------------------------
(***************************************************************************)
(* For every universe, every fund outside of it, every movement of the     *)
(* marks and any number of cycles: what the gate cannot see is bounded,    *)
(* and a name is entered once for each open its orders have missed.        *)
(*                                                                         *)
(* The gate bounds one order by the settled book.  That the sum of several *)
(* stays bounded rests on what settlement does not change: an order that   *)
(* is filled moves from the pending exposure to the settled one.  New      *)
(* marks come first and move both, by what the history counts; so any of   *)
(* the orders are worth no more than one size each and that.  And a name   *)
(* is entered again only if it is offered, which takes a book without it,  *)
(* and once in a cycle, which takes a list that names nobody twice.        *)
(***************************************************************************)
EXTENDS Book, SumTheorems

Directions == {"long", "short"}
Orders == [cycle : Nat, place : Nat, ticker : Tickers, dir : Directions, qty : Nat]

\* What orders are worth at given marks.
Value(m) == [o \in Orders |-> o.qty * m.worth[o.ticker]]

Typed ==
    /\ held \in [Tickers -> Int]
    /\ market \in Markets
    /\ pending \subseteq Orders /\ IsFiniteSet(pending)
    /\ queue \in Seq(Tickers)
    /\ cycles \in Nat /\ peak \in Nat /\ moved \in Nat
    /\ entries \in [Tickers -> Nat] /\ gaps \in [Tickers -> Nat]

\* The place of the next order is taken by none before it.
PlacesTaken ==
    \A o \in pending : o.cycle <= cycles /\ (o.cycle = cycles => o.place > Len(queue))

PeakCounts == Cardinality(pending) <= peak

\* Any of the orders are worth one size each at most, beside what marks have moved.
OrdersSized ==
    \A S \in SUBSET pending : SumOver(Value(market), S) <= MaxSize * Cardinality(S) + moved

OfferedOnce == \A i, j \in DOMAIN queue : queue[i] = queue[j] => i = j

\* A name that is offered is not held, and all of its orders have missed an open.
OfferedFresh ==
    \A i \in DOMAIN queue :
        held[queue[i]] = 0 /\ Cardinality(Waiting(queue[i])) <= gaps[queue[i]]

\* A name that is not held has not been entered since.
FlatIsFresh == \A t \in Tickers : held[t] = 0 => entries[t] = 0

IInv ==
    /\ Typed
    /\ PlacesTaken
    /\ PeakCounts
    /\ OrdersSized
    /\ OfferedOnce
    /\ OfferedFresh
    /\ FlatIsFresh
    /\ ExposureBounded
    /\ NameEnteredOnce

-----------------------------------------------------------------------------
(* Numbers.                                                                *)

\* The greatest size is a size.
LEMMA SizesBounded ==
    /\ MaxSize \in Nat
    /\ \A size \in Sizes : size \in Nat /\ size <= MaxSize
  <1>1. \A size \in Sizes : size \in Nat
    <2>1. \A size \in Sizes : size \in 1..MaxNewPosition
      BY BookAssumption
    <2>2. \A m : \A size \in 1..m : size \in Nat
      OBVIOUS
    <2> QED
      BY <2>1, <2>2
  <1>2. Sizes \subseteq Int /\ Sizes # {} /\ IsFiniteSet(Sizes)
    BY <1>1, BookAssumption
  <1>3. Max(Sizes) \in Sizes /\ \A x \in Sizes : x <= Max(Sizes)
    BY <1>2, MaxIsMax
  <1> QED
    BY <1>1, <1>3 DEF MaxSize

\* The size of a position without its sign.
LEMMA AbsType ==
    ASSUME NEW x \in Int
    PROVE  Abs(x) = (IF x >= 0 THEN x ELSE -x) /\ Abs(x) \in Nat
  <1>1. -x \in Int
    OBVIOUS
  <1>2. Max({x, -x}) = IF x >= -x THEN x ELSE -x
    BY <1>1, MaxOfTwo
  <1> QED
    BY <1>1, <1>2 DEF Abs

\* By how much limits may be passed when so many orders were pending at once.
Slack(n) == MaxSize * Max({0, n - 1})

\* The slack is a number that grows with the orders, and covers all but one.
LEMMA SlackGrows ==
    ASSUME NEW m \in Nat, NEW n \in Nat, m <= n
    PROVE  /\ Slack(m) \in Nat /\ Slack(n) \in Nat /\ Slack(m) <= Slack(n)
           /\ n >= 1 => MaxSize * (n - 1) = Slack(n)
  <1> DEFINE u == Max({0, m - 1})
             v == Max({0, n - 1})
  <1>1. m - 1 \in Int /\ n - 1 \in Int /\ 0 \in Int
    OBVIOUS
  <1>2. u = (IF 0 >= m - 1 THEN 0 ELSE m - 1) /\ v = (IF 0 >= n - 1 THEN 0 ELSE n - 1)
    BY <1>1, MaxOfTwo
  <1> HIDE DEF u, v
  <1>3. u \in Nat /\ v \in Nat /\ u <= v /\ (n >= 1 => v = n - 1)
    BY <1>2
  <1>4. MaxSize \in Nat
    BY SizesBounded
  <1>5. \A k, a, b \in Nat : a <= b => k * a \in Nat /\ k * b \in Nat /\ k * a <= k * b
    OBVIOUS
  <1>6. MaxSize * u \in Nat /\ MaxSize * v \in Nat /\ MaxSize * u <= MaxSize * v
    BY <1>3, <1>4, <1>5
  <1> QED
    BY <1>3, <1>6 DEF Slack, u, v

\* The shares a size pays for are worth no more than it.
LEMMA WholeShares ==
    ASSUME NEW s \in Nat, NEW w \in Nat \ {0}
    PROVE  /\ s \div w \in Nat /\ (s \div w) * w \in Nat /\ (s \div w) * w <= s
           /\ s = 0 => s \div w = 0
  OBVIOUS

\* By how much a new mark moves a position.
LEMMA MarkMoves ==
    ASSUME NEW h \in Int, NEW u \in Nat, NEW v \in Nat
    PROVE  LET d == Abs(h) * Abs(v - u)
           IN  /\ d \in Nat /\ h * u \in Int /\ h * v \in Int
               /\ h * v <= h * u + d
               /\ h * u <= h * v + d
               /\ Abs(h * v) <= Abs(h * u) + d
  <1> DEFINE a == Abs(h)
             e == Abs(v - u)
             x == h * u
             y == h * v
             d == a * e
  <1>1. /\ a = (IF h >= 0 THEN h ELSE -h) /\ a \in Nat
        /\ e = (IF v - u >= 0 THEN v - u ELSE -(v - u)) /\ e \in Nat
    <2>1. v - u \in Int
      OBVIOUS
    <2> QED
      BY <2>1, AbsType
  <1>2. x \in Int /\ y \in Int
    OBVIOUS
  <1>3. h * (v - u) = y - x /\ (-h) * (v - u) = x - y
        /\ h * (-(v - u)) = x - y /\ (-h) * (-(v - u)) = y - x
    OBVIOUS
  <1> HIDE DEF a, e
  <1>4. d \in Nat
    <2>1. \A i, j \in Nat : i * j \in Nat
      OBVIOUS
    <2> QED
      BY <1>1, <2>1
  <1>5. d = y - x \/ d = x - y
    BY <1>1, <1>3
  <1> HIDE DEF d, x, y
  <1>6. y - x <= d /\ x - y <= d
    BY <1>2, <1>4, <1>5
  <1>7. Abs(y) <= Abs(x) + d
    <2>1. /\ Abs(x) = (IF x >= 0 THEN x ELSE -x)
          /\ Abs(y) = (IF y >= 0 THEN y ELSE -y)
      BY <1>2, AbsType
    <2> QED
      BY <1>2, <1>4, <1>6, <2>1
  <1> QED
    BY <1>2, <1>4, <1>6, <1>7 DEF d, x, y, a, e

-----------------------------------------------------------------------------
(* Sums of orders, V being what each is worth.                             *)

Signed(V) == [o \in Orders |-> Sign(o.dir) * V[o]]
Side(V, dir) == [o \in Orders |-> IF o.dir = dir THEN V[o] ELSE 0]

Long(V, P)  == SumOver(Side(V, "long"), P)
Short(V, P) == SumOver(Side(V, "short"), P)

\* What the module totals is a sum.
LEMMA TotalIsSum == \A f : Total(f) = SumOver(f, DOMAIN f)
  BY DEF Total, SumOver

\* The worth of a set of orders is what is long in it and what is short.
LEMMA SidesOf ==
    ASSUME NEW V \in [Orders -> Nat], NEW S, S \subseteq Orders, IsFiniteSet(S)
    PROVE  /\ Long(V, S) \in Nat /\ Short(V, S) \in Nat
           /\ SumOver(V, S) = Long(V, S) + Short(V, S)
           /\ SumOver(Signed(V), S) = Long(V, S) - Short(V, S)
           /\ SumOver(V, {o \in S : o.dir = "long"}) = Long(V, S)
           /\ SumOver(V, {o \in S : o.dir = "short"}) = Short(V, S)
  <1> DEFINE long == Long(V, S)
             short == Short(V, S)
  <1>1. \A o \in S : /\ V[o] \in Nat /\ o.dir \in Directions
                     /\ Side(V, "long")[o] = IF o.dir = "long" THEN V[o] ELSE 0
                     /\ Side(V, "short")[o] = IF o.dir = "short" THEN V[o] ELSE 0
    BY DEF Orders, Side
  <1>2. \A o \in S : Signed(V)[o] = IF o.dir = "long" THEN V[o] ELSE -V[o]
    <2>1. \A o \in S : Signed(V)[o] = Sign(o.dir) * V[o]
      BY DEF Signed
    <2>2. \A o \in S : Sign(o.dir) = IF o.dir = "long" THEN 1 ELSE -1
      BY DEF Sign
    <2>3. \A n \in Nat : 1 * n = n /\ (-1) * n = -n
      OBVIOUS
    <2> QED
      BY <1>1, <2>1, <2>2, <2>3
  <1>3. long \in Nat /\ short \in Nat
    <2>1. \A o \in S : Side(V, "long")[o] \in Nat /\ Side(V, "short")[o] \in Nat
      BY <1>1
    <2> QED
      BY <2>1, SumNat DEF Long, Short
  <1>4. SumOver(V, S) = long + short
    <2>1. \A o \in S : /\ Side(V, "long")[o] \in Int /\ Side(V, "short")[o] \in Int
                       /\ V[o] = Side(V, "long")[o] + Side(V, "short")[o]
      BY <1>1 DEF Directions
    <2> QED
      BY <2>1, SumPlus DEF Long, Short
  <1>5. SumOver(Signed(V), S) = long - short
    <2>1. \A o \in S : /\ Signed(V)[o] \in Int /\ Side(V, "short")[o] \in Int
                       /\ Side(V, "long")[o] = Signed(V)[o] + Side(V, "short")[o]
      BY <1>1, <1>2 DEF Directions
    <2>2. long = SumOver(Signed(V), S) + short /\ SumOver(Signed(V), S) \in Int
      BY <2>1, SumPlus, SumInt DEF Long, Short
    <2> HIDE DEF long, short
    <2> QED
      BY <1>3, <2>2
  <1>6. ASSUME NEW dir \in Directions
        PROVE  SumOver(V, {o \in S : o.dir = dir}) = SumOver(Side(V, dir), S)
    <2> DEFINE T == {o \in S : o.dir = dir}
    <2>1. /\ T \subseteq S
          /\ \A o \in T : V[o] \in Int /\ Side(V, dir)[o] = V[o]
          /\ \A o \in S \ T : Side(V, dir)[o] = 0
      <3>1. \A o \in S : Side(V, dir)[o] = IF o.dir = dir THEN V[o] ELSE 0
        BY DEF Side
      <3> QED
        BY <1>1, <3>1
    <2> HIDE DEF T
    <2>2. SumOver(Side(V, dir), S) = SumOver(V, T)
      BY <2>1, SumWhere
    <2> QED
      BY <2>2 DEF T
  <1> QED
    BY <1>3, <1>4, <1>5, <1>6 DEF Directions, Long, Short

-----------------------------------------------------------------------------
(* The screen.                                                             *)

\* The order in which names are offered gives each its own place, and leaves none
\* of the places empty: who is before b is before all that b is before.
LEMMA PlacesFilled ==
    ASSUME NEW found \in [Tickers -> Rows], NEW E, E \subseteq Tickers
    PROVE  /\ Cardinality(E) \in Nat
           /\ \A t \in E : Place(found, E, t) \in 1..Cardinality(E)
           /\ \A n \in 1..Cardinality(E) : \E t \in E : Place(found, E, t) = n
  <1> DEFINE N == Cardinality(E)
             Better(t) == {u \in E : Before(found, u, t)}
             rank == [t \in E |-> Place(found, E, t)]
  <1>1. IsFiniteSet(E) /\ N \in Nat /\ \A t \in E : t \in Nat /\ found[t].adv \in Nat
    <2>1. IsFiniteSet(E)
      BY BookAssumption, FS_Subset
    <2>2. \A t \in E : found[t] \in Rows /\ t \in Nat
      BY BookAssumption
    <2> QED
      BY <2>1, <2>2, FS_CardinalityType, BookAssumption
  <1>2. \A t \in E : ~Before(found, t, t)
    BY <1>1 DEF Before
  <1>3. \A a, b \in E : a # b => Before(found, a, b) \/ Before(found, b, a)
    BY <1>1 DEF Before
  <1>4. \A a, b, c \in E : Before(found, a, b) /\ Before(found, b, c) => Before(found, a, c)
    BY <1>1 DEF Before
  <1>5. \A t : Better(t) \subseteq E /\ IsFiniteSet(Better(t)) /\ Cardinality(Better(t)) \in Nat
    <2>1. \A t : Better(t) \subseteq E
      OBVIOUS
    <2> HIDE DEF Better
    <2> QED
      BY <1>1, <2>1, FS_Subset, FS_CardinalityType
  <1>6. ASSUME NEW t \in E
        PROVE  rank[t] \in 1..N /\ rank[t] = 1 + Cardinality(Better(t))
    <2>1. rank[t] = 1 + Cardinality(Better(t))
      BY DEF Place
    <2>2. t \notin Better(t)
      BY <1>2
    <2>3. Cardinality(Better(t)) <= N /\ (N = Cardinality(Better(t)) => E = Better(t))
      <3> HIDE DEF Better
      <3> QED
        BY <1>1, <1>5, FS_Subset
    <2> HIDE DEF Better, N, rank
    <2>4. Cardinality(Better(t)) # N
      BY <2>2, <2>3
    <2> QED
      BY <1>1, <1>5, <2>1, <2>3, <2>4
  <1>7. ASSUME NEW a \in E, NEW b \in E, Before(found, a, b)
        PROVE  rank[a] # rank[b]
    <2>1. Better(a) \in SUBSET Better(b) /\ a \in Better(b) /\ a \notin Better(a)
      BY <1>2, <1>4, <1>7
    <2>2. Cardinality(Better(b)) = Cardinality(Better(a)) => Better(b) = Better(a)
      <3> HIDE DEF Better
      <3> QED
        BY <1>5, <2>1, FS_Subset
    <2>3. rank[a] = 1 + Cardinality(Better(a)) /\ rank[b] = 1 + Cardinality(Better(b))
      BY <1>6
    <2> HIDE DEF Better, rank
    <2> QED
      BY <1>5, <2>1, <2>2, <2>3
  <1>8. \A a, b \in E : rank[a] = rank[b] => a = b
    BY <1>3, <1>7
  <1>9. rank \in Injection(E, 1..N)
    <2>1. rank \in [E -> 1..N]
      <3>1. rank = [t \in E |-> rank[t]]
        OBVIOUS
      <3> HIDE DEF rank, N
      <3> QED
        BY <1>6, <3>1
    <2> HIDE DEF rank, N
    <2> QED
      BY <1>8, <2>1 DEF Injection, IsInjective
  <1>10. IsFiniteSet(1..N) /\ Cardinality(1..N) = N
    <2> HIDE DEF N
    <2> QED
      BY <1>1, FS_Interval
  <1>11. rank \in Surjection(E, 1..N)
    <2>1. Cardinality(E) = Cardinality(1..N) <=> rank \in Surjection(E, 1..N)
      <3> HIDE DEF rank, N
      <3> QED
        BY <1>9, <1>10, FS_Injection
    <2> QED
      BY <1>10, <2>1
  <1>12. \A n \in 1..N : \E t \in E : rank[t] = n
    <2> HIDE DEF rank, N
    <2> QED
      BY <1>11 DEF Surjection
  <1> QED
    BY <1>1, <1>6, <1>12

\* What is offered: names nobody holds, none of them twice.
LEMMA OffersFresh ==
    ASSUME NEW close, NEW found \in [Tickers -> Rows], NEW holding
    PROVE  LET offers == Candidates(close, found, holding)
           IN  /\ offers \in Seq(Tickers)
               /\ \A i \in DOMAIN offers : offers[i] \notin holding
               /\ \A i, j \in DOMAIN offers : offers[i] = offers[j] => i = j
  <1> DEFINE E == {t \in Tickers \ holding : Eligible(found[t], close[t])}
             N == Cardinality(E)
             k == Min({TopN, N})
             At(n) == CHOOSE t \in E : Place(found, E, t) = n
             offers == Candidates(close, found, holding)
  <1>1. E \subseteq Tickers /\ \A t \in E : t \notin holding
    OBVIOUS
  <1>2. offers = [n \in 1..k |-> At(n)]
    BY DEF Candidates
  <1> HIDE DEF E, offers
  <1>3. N \in Nat /\ \A n \in 1..N : \E t \in E : Place(found, E, t) = n
    BY <1>1, PlacesFilled
  <1>4. k \in Nat /\ k <= N
    <2>1. k = IF TopN <= N THEN TopN ELSE N
      <3>1. TopN \in Int /\ N \in Int
        BY <1>3, BookAssumption
      <3> HIDE DEF N
      <3> QED
        BY <3>1, MaxOfTwo
    <2> HIDE DEF k, N
    <2> QED
      BY <1>3, <2>1, BookAssumption
  <1> HIDE DEF k, N
  <1>5. \A n \in 1..k : At(n) \in E /\ Place(found, E, At(n)) = n
    <2>1. \A n \in 1..k : n \in 1..N
      BY <1>3, <1>4
    <2> QED
      BY <1>3, <2>1
  <1> HIDE DEF At
  <1>6. DOMAIN offers = 1..k /\ \A n \in 1..k : offers[n] = At(n)
    BY <1>2
  <1>7. offers \in Seq(Tickers)
    BY <1>1, <1>2, <1>4, <1>5
  <1>8. \A i \in DOMAIN offers : offers[i] \notin holding
    BY <1>1, <1>5, <1>6
  <1>9. \A i, j \in DOMAIN offers : offers[i] = offers[j] => i = j
    BY <1>5, <1>6
  <1> QED
    BY <1>7, <1>8, <1>9 DEF offers

-----------------------------------------------------------------------------
(* The exposure, x being that of each position.                            *)

Exposed(m, h) == [t \in Tickers |-> h[t] * m.worth[t]]
Magnitude(x)  == [t \in Tickers |-> Abs(x[t])]

NetOf(m, x)   == m.long - m.short + SumOver(x, Tickers)
GrossOf(m, x) == m.long + m.short + SumOver(Magnitude(x), Tickers)

\* ExposureBounded of these values, with k the slack.
Bounded(m, x, V, P, k) ==
    /\ NetOf(m, x) + Long(V, P) <= NetBand + k
    /\ NetOf(m, x) - Short(V, P) >= -(NetBand + k)
    /\ GrossOf(m, x) + Long(V, P) + Short(V, P) <= MaxGross + k

\* What a market makes of shares is numbers.
LEMMA MarketTypes ==
    ASSUME NEW m \in Markets
    PROVE  /\ m.long \in Nat /\ m.short \in Nat
           /\ \A t \in Tickers : m.worth[t] \in Nat \ {0} /\ m.worth[t] \in Nat
           /\ Value(m) \in [Orders -> Nat]
           /\ \A h \in [Tickers -> Int] : Exposed(m, h) \in [Tickers -> Int]
  <1>1. /\ m.long \in Nat /\ m.short \in Nat
        /\ \A t \in Tickers : m.worth[t] \in Nat \ {0} /\ m.worth[t] \in Nat
    BY BookAssumption
  <1>2. \A i, j \in Nat : i * j \in Nat
    OBVIOUS
  <1>3. \A i \in Int, j \in Nat : i * j \in Int
    OBVIOUS
  <1>4. Value(m) \in [Orders -> Nat]
    <2>1. \A o \in Orders : o.qty \in Nat /\ m.worth[o.ticker] \in Nat
      BY <1>1 DEF Orders
    <2>2. \A o \in Orders : o.qty * m.worth[o.ticker] \in Nat
      BY <1>2, <2>1
    <2> QED
      BY <2>2 DEF Value
  <1>5. ASSUME NEW h \in [Tickers -> Int]
        PROVE  Exposed(m, h) \in [Tickers -> Int]
    <2>1. \A t \in Tickers : h[t] * m.worth[t] \in Int
      BY <1>1, <1>3
    <2> QED
      BY <2>1 DEF Exposed
  <1> QED
    BY <1>1, <1>4, <1>5

\* The exposure of a fund and of its orders is numbers.
LEMMA ExposureTypes ==
    ASSUME NEW m \in Markets, NEW x \in [Tickers -> Int], NEW V \in [Orders -> Nat],
           NEW P, P \subseteq Orders, IsFiniteSet(P)
    PROVE  /\ m.long \in Nat /\ m.short \in Nat
           /\ SumOver(x, Tickers) \in Int /\ SumOver(Magnitude(x), Tickers) \in Nat
           /\ NetOf(m, x) \in Int /\ GrossOf(m, x) \in Nat
           /\ Long(V, P) \in Nat /\ Short(V, P) \in Nat
           /\ NetBand \in Nat /\ MaxGross \in Nat
  <1>1. m.long \in Nat /\ m.short \in Nat
    BY MarketTypes
  <1>2. SumOver(x, Tickers) \in Int
    BY BookAssumption, SumInt
  <1>3. SumOver(Magnitude(x), Tickers) \in Nat
    <2>1. \A t \in Tickers : Magnitude(x)[t] \in Nat
      BY AbsType DEF Magnitude
    <2> QED
      BY <2>1, BookAssumption, SumNat
  <1>4. Long(V, P) \in Nat /\ Short(V, P) \in Nat
    BY SidesOf
  <1>5. NetBand \in Nat /\ MaxGross \in Nat
    BY DEF NetBand, MaxGross, Percent
  <1> QED
    BY <1>1, <1>2, <1>3, <1>4, <1>5 DEF NetOf, GrossOf

\* What the module totals, of the book and of the orders.
LEMMA TotalsOf ==
    ASSUME NEW m \in Markets, NEW h \in [Tickers -> Int],
           NEW P, P \subseteq Orders, IsFiniteSet(P)
    PROVE  /\ Total([t \in Tickers |-> h[t] * m.worth[t]]) = SumOver(Exposed(m, h), Tickers)
           /\ Total([t \in Tickers |-> Abs(h[t] * m.worth[t])])
                  = SumOver(Magnitude(Exposed(m, h)), Tickers)
           /\ Total([o \in {p \in P : p.dir = "long"} |-> o.qty * m.worth[o.ticker]])
                  = Long(Value(m), P)
           /\ Total([o \in {p \in P : p.dir = "short"} |-> o.qty * m.worth[o.ticker]])
                  = Short(Value(m), P)
  <1>1. /\ DOMAIN Exposed(m, h) = Tickers /\ DOMAIN Magnitude(Exposed(m, h)) = Tickers
        /\ Magnitude(Exposed(m, h)) = [t \in Tickers |-> Abs(h[t] * m.worth[t])]
    BY DEF Magnitude, Exposed
  <1>2. ASSUME NEW dir \in Directions
        PROVE  Total([o \in {p \in P : p.dir = dir} |-> o.qty * m.worth[o.ticker]])
                   = SumOver(Value(m), {p \in P : p.dir = dir})
    <2> DEFINE T == {p \in P : p.dir = dir}
               f == [o \in T |-> o.qty * m.worth[o.ticker]]
    <2>1. T \subseteq P
      OBVIOUS
    <2>2. \A o \in T : f[o] = Value(m)[o]
      BY DEF Value
    <2>3. DOMAIN f = T
      OBVIOUS
    <2> HIDE DEF T, f
    <2>4. IsFiniteSet(T)
      BY <2>1, FS_Subset
    <2>5. Total(f) = SumOver(f, T)
      BY <2>3, TotalIsSum
    <2>6. SumOver(f, T) = SumOver(Value(m), T)
      BY <2>2, <2>4, SumSame
    <2> QED
      BY <2>5, <2>6 DEF T, f
  <1>3. /\ SumOver(Value(m), {p \in P : p.dir = "long"}) = Long(Value(m), P)
        /\ SumOver(Value(m), {p \in P : p.dir = "short"}) = Short(Value(m), P)
    BY MarketTypes, SidesOf
  <1> QED
    BY <1>1, <1>2, <1>3, TotalIsSum DEF Exposed, Directions

\* Settlement keeps the bound: what leaves the orders enters the book.
LEMMA FillsKeepBound ==
    ASSUME NEW m \in Markets, NEW x \in [Tickers -> Int], NEW y \in [Tickers -> Int],
           NEW V \in [Orders -> Nat],
           NEW P, P \subseteq Orders, IsFiniteSet(P), NEW F, F \subseteq P, NEW k \in Nat,
           \A t \in Tickers : y[t] = x[t] + SumOver(Signed(V), {o \in F : o.ticker = t}),
           Bounded(m, x, V, P, k)
    PROVE  Bounded(m, y, V, P \ F, k)
  <1> DEFINE R == P \ F
             At(t) == {o \in F : o.ticker = t}
             part == [t \in Tickers |-> At(t)]
             net == [t \in Tickers |-> SumOver(Signed(V), At(t))]
             all == [t \in Tickers |-> SumOver(V, At(t))]
             name == [o \in F |-> o.ticker]
  <1>1. /\ R \subseteq Orders /\ F \subseteq Orders /\ IsFiniteSet(R) /\ IsFiniteSet(F)
        /\ R \cup F = P /\ R \cap F = {}
    BY FS_Subset
  <1>2. IsFiniteSet(Tickers)
    BY BookAssumption
  <1>3. \A t : At(t) \subseteq Orders /\ IsFiniteSet(At(t))
    <2>1. \A t : At(t) \subseteq F
      OBVIOUS
    <2> HIDE DEF At
    <2> QED
      BY <1>1, <2>1, FS_Subset
  <1>4. \A o \in F : name[o] \in Tickers
    BY <1>1 DEF Orders
  <1>5. \A t \in Tickers :
            /\ \A o : o \in part[t] <=> o \in F /\ name[o] = t
            /\ net[t] = SumOver(Signed(V), part[t])
            /\ all[t] = SumOver(V, part[t])
    OBVIOUS
  <1>6. \A o \in Orders : Signed(V)[o] \in Int /\ V[o] \in Int
    <2>1. \A o \in Orders : V[o] \in Nat /\ Sign(o.dir) \in {1, -1}
      BY DEF Sign
    <2>2. \A i \in {1, -1}, n \in Nat : i * n \in Int
      OBVIOUS
    <2>3. \A o \in Orders : Signed(V)[o] = Sign(o.dir) * V[o]
      BY DEF Signed
    <2>4. \A o \in Orders : V[o] \in Int
      BY <2>1
    <2>5. \A o \in Orders : Signed(V)[o] \in Int
      BY <2>1, <2>2, <2>3
    <2> QED
      BY <2>4, <2>5
  <1>7. SumOver(Signed(V), F) = SumOver(net, Tickers) /\ SumOver(V, F) = SumOver(all, Tickers)
    <2>1. \A o \in F : Signed(V)[o] \in Int /\ V[o] \in Int
      BY <1>1, <1>6
    <2> HIDE DEF net, all, name, part, At
    <2>2. ASSUME NEW f, \A o \in F : f[o] \in Int,
                 NEW g, \A t \in Tickers : g[t] = SumOver(f, part[t])
          PROVE  SumOver(f, F) = SumOver(g, Tickers)
      BY <1>1, <1>2, <1>4, <1>5, <2>2, SumParts
    <2>3. SumOver(Signed(V), F) = SumOver(net, Tickers)
      BY <1>5, <2>1, <2>2
    <2>4. SumOver(V, F) = SumOver(all, Tickers)
      BY <1>5, <2>1, <2>2
    <2> QED
      BY <2>3, <2>4
  <1>8. \A t \in Tickers :
            /\ net[t] \in Int /\ all[t] \in Nat
            /\ net[t] <= all[t] /\ -net[t] <= all[t]
            /\ y[t] = x[t] + net[t]
    <2> TAKE t \in Tickers
    <2>1. /\ Long(V, At(t)) \in Nat /\ Short(V, At(t)) \in Nat
          /\ SumOver(V, At(t)) = Long(V, At(t)) + Short(V, At(t))
          /\ SumOver(Signed(V), At(t)) = Long(V, At(t)) - Short(V, At(t))
      <3> HIDE DEF At
      <3> QED
        BY <1>3, SidesOf
    <2>2. net[t] = SumOver(Signed(V), At(t)) /\ all[t] = SumOver(V, At(t))
      OBVIOUS
    <2>3. y[t] = x[t] + net[t]
      OBVIOUS
    <2> HIDE DEF At, net, all
    <2> QED
      BY <2>1, <2>2, <2>3
  <1> HIDE DEF net, all, name, part, At, R
  <1>9. SumOver(y, Tickers) = SumOver(x, Tickers) + SumOver(Signed(V), F)
    <2>1. SumOver(y, Tickers) = SumOver(x, Tickers) + SumOver(net, Tickers)
      BY <1>2, <1>8, SumPlus
    <2> QED
      BY <1>7, <2>1
  <1>10. SumOver(Magnitude(y), Tickers) <= SumOver(Magnitude(x), Tickers) + SumOver(V, F)
    <2>1. \A t \in Tickers : /\ Magnitude(x)[t] \in Int /\ Magnitude(y)[t] \in Int /\ all[t] \in Int
                             /\ Magnitude(y)[t] <= Magnitude(x)[t] + all[t]
      <3> TAKE t \in Tickers
      <3>1. /\ x[t] \in Int /\ y[t] \in Int /\ net[t] \in Int /\ all[t] \in Nat
            /\ net[t] <= all[t] /\ -net[t] <= all[t] /\ y[t] = x[t] + net[t]
        BY <1>8
      <3>2. /\ Abs(x[t]) = (IF x[t] >= 0 THEN x[t] ELSE -x[t])
            /\ Abs(y[t]) = (IF y[t] >= 0 THEN y[t] ELSE -y[t])
        BY <3>1, AbsType
      <3>3. Magnitude(x)[t] = Abs(x[t]) /\ Magnitude(y)[t] = Abs(y[t])
        BY DEF Magnitude
      <3> QED
        BY <3>1, <3>2, <3>3
    <2> QED
      BY <1>2, <1>7, <2>1, SumWithin
  <1>11. /\ SumOver(V, F) = Long(V, F) + Short(V, F)
         /\ SumOver(Signed(V), F) = Long(V, F) - Short(V, F)
         /\ Long(V, P) = Long(V, R) + Long(V, F) /\ Short(V, P) = Short(V, R) + Short(V, F)
    <2>1. \A o \in R \cup F : Side(V, "long")[o] \in Int /\ Side(V, "short")[o] \in Int
      BY <1>1 DEF Side
    <2>2. /\ SumOver(Side(V, "long"), R \cup F) = Long(V, R) + Long(V, F)
          /\ SumOver(Side(V, "short"), R \cup F) = Short(V, R) + Short(V, F)
      BY <1>1, <2>1, SumSplit DEF Long, Short
    <2>3. /\ SumOver(V, F) = Long(V, F) + Short(V, F)
          /\ SumOver(Signed(V), F) = Long(V, F) - Short(V, F)
      BY <1>1, SidesOf
    <2> QED
      BY <1>1, <2>2, <2>3 DEF Long, Short
  <1>12. /\ m.long \in Nat /\ m.short \in Nat
         /\ SumOver(x, Tickers) \in Int /\ SumOver(y, Tickers) \in Int
         /\ SumOver(Magnitude(x), Tickers) \in Nat /\ SumOver(Magnitude(y), Tickers) \in Nat
         /\ Long(V, F) \in Nat /\ Short(V, F) \in Nat
         /\ Long(V, R) \in Nat /\ Short(V, R) \in Nat
         /\ NetBand \in Nat /\ MaxGross \in Nat
    BY <1>1, ExposureTypes
  <1>13. /\ NetOf(m, y) + Long(V, R) = NetOf(m, x) + Long(V, P) - Short(V, F)
         /\ NetOf(m, y) - Short(V, R) = NetOf(m, x) - Short(V, P) + Long(V, F)
         /\ GrossOf(m, y) + Long(V, R) + Short(V, R) <= GrossOf(m, x) + Long(V, P) + Short(V, P)
    BY <1>9, <1>10, <1>11, <1>12 DEF NetOf, GrossOf
  <1>14. NetOf(m, y) \in Int /\ NetOf(m, x) \in Int /\ GrossOf(m, y) \in Int /\ GrossOf(m, x) \in Int
    BY <1>12 DEF NetOf, GrossOf
  <1> QED
    BY <1>11, <1>12, <1>13, <1>14 DEF Bounded, R

\* By how much the marks n move what is held and ordered at the marks m.
Step(m, n) == [t \in Tickers |-> Abs(n.worth[t] - m.worth[t])]
HeldMoves(m, n, h) == [t \in Tickers |-> Abs(h[t]) * Step(m, n)[t]]
OrderMoves(m, n) == [o \in Orders |-> o.qty * Step(m, n)[o.ticker]]
MoveOf(m, n, h, P) ==
    SumOver(HeldMoves(m, n, h), Tickers) + SumOver(OrderMoves(m, n), P)
    + Abs(n.long - m.long) + Abs(n.short - m.short)

\* An order's worth moves by what is counted of it, which is not negative.
LEMMA OrderMovesBy ==
    ASSUME NEW m \in Markets, NEW n \in Markets
    PROVE  /\ OrderMoves(m, n) \in [Orders -> Nat]
           /\ \A o \in Orders : Value(n)[o] <= Value(m)[o] + OrderMoves(m, n)[o]
  <1>1. ASSUME NEW o \in Orders
        PROVE  /\ OrderMoves(m, n)[o] \in Nat
               /\ Value(n)[o] <= Value(m)[o] + OrderMoves(m, n)[o]
    <2> DEFINE q == o.qty
               u == m.worth[o.ticker]
               v == n.worth[o.ticker]
    <2>1. q \in Nat /\ q \in Int /\ u \in Nat /\ v \in Nat /\ o.ticker \in Tickers
      BY MarketTypes DEF Orders
    <2>2. /\ Value(m)[o] = q * u /\ Value(n)[o] = q * v
          /\ OrderMoves(m, n)[o] = q * Abs(v - u)
      BY <2>1 DEF Value, OrderMoves, Step
    <2> HIDE DEF q, u, v
    <2>3. Abs(q) = q
      BY <2>1, AbsType
    <2>4. Abs(q) * Abs(v - u) \in Nat /\ q * v <= q * u + Abs(q) * Abs(v - u)
      BY <2>1, MarkMoves
    <2> QED
      BY <2>2, <2>3, <2>4
  <1>2. OrderMoves(m, n) = [o \in Orders |-> OrderMoves(m, n)[o]]
    BY DEF OrderMoves
  <1> QED
    BY <1>1, <1>2

\* New marks keep the bound, as much later as they move.
LEMMA MarksKeepBound ==
    ASSUME NEW m \in Markets, NEW n \in Markets, NEW h \in [Tickers -> Int],
           NEW P, P \subseteq Orders, IsFiniteSet(P), NEW k \in Nat,
           Bounded(m, Exposed(m, h), Value(m), P, k)
    PROVE  /\ MoveOf(m, n, h, P) \in Nat
           /\ SumOver(OrderMoves(m, n), P) \in Nat
           /\ SumOver(OrderMoves(m, n), P) <= MoveOf(m, n, h, P)
           /\ Bounded(n, Exposed(n, h), Value(n), P, k + MoveOf(m, n, h, P))
  <1> DEFINE x == Exposed(m, h)
             y == Exposed(n, h)
             V == Value(m)
             W == Value(n)
             D == HeldMoves(m, n, h)
             T == OrderMoves(m, n)
             owned == SumOver(D, Tickers)
             ordered == SumOver(T, P)
             long == Abs(n.long - m.long)
             short == Abs(n.short - m.short)
  <1>1. /\ x \in [Tickers -> Int] /\ y \in [Tickers -> Int]
        /\ V \in [Orders -> Nat] /\ W \in [Orders -> Nat] /\ T \in [Orders -> Nat]
        /\ \A o \in Orders : W[o] <= V[o] + T[o]
    BY MarketTypes, OrderMovesBy
  <1>2. \A t \in Tickers : /\ D[t] \in Nat /\ x[t] \in Int /\ y[t] \in Int
                           /\ y[t] <= x[t] + D[t] /\ x[t] <= y[t] + D[t]
                           /\ Magnitude(y)[t] <= Magnitude(x)[t] + D[t]
                           /\ Magnitude(x)[t] \in Int /\ Magnitude(y)[t] \in Int
    <2> TAKE t \in Tickers
    <2> DEFINE a == h[t]
               u == m.worth[t]
               v == n.worth[t]
    <2>1. a \in Int /\ u \in Nat /\ v \in Nat
      BY MarketTypes
    <2>2. /\ x[t] = a * u /\ y[t] = a * v /\ D[t] = Abs(a) * Abs(v - u)
          /\ Magnitude(x)[t] = Abs(a * u) /\ Magnitude(y)[t] = Abs(a * v)
      BY DEF Exposed, HeldMoves, Step, Magnitude
    <2> HIDE DEF a, u, v, x, y, D
    <2>3. /\ Abs(a) * Abs(v - u) \in Nat /\ a * u \in Int /\ a * v \in Int
          /\ a * v <= a * u + Abs(a) * Abs(v - u)
          /\ a * u <= a * v + Abs(a) * Abs(v - u)
          /\ Abs(a * v) <= Abs(a * u) + Abs(a) * Abs(v - u)
      BY <2>1, MarkMoves
    <2>4. Abs(a * u) \in Int /\ Abs(a * v) \in Int
      BY <2>3, AbsType
    <2> QED
      BY <2>2, <2>3, <2>4
  <1> HIDE DEF x, y, V, W, D, T
  <1>3. /\ SumOver(y, Tickers) <= SumOver(x, Tickers) + owned
        /\ SumOver(x, Tickers) <= SumOver(y, Tickers) + owned
        /\ SumOver(Magnitude(y), Tickers) <= SumOver(Magnitude(x), Tickers) + owned
        /\ owned \in Nat
    <2>1. \A t \in Tickers : D[t] \in Int
      BY <1>2
    <2> QED
      BY <1>2, <2>1, BookAssumption, SumWithin, SumNat
  <1>4. ASSUME NEW dir \in Directions
        PROVE  SumOver(Side(W, dir), P) <= SumOver(Side(V, dir), P) + SumOver(Side(T, dir), P)
    <2>1. \A o \in P :
              /\ Side(V, dir)[o] \in Int /\ Side(W, dir)[o] \in Int /\ Side(T, dir)[o] \in Int
              /\ Side(W, dir)[o] <= Side(V, dir)[o] + Side(T, dir)[o]
      <3> TAKE o \in P
      <3>1. /\ V[o] \in Nat /\ W[o] \in Nat /\ T[o] \in Nat /\ W[o] <= V[o] + T[o]
        BY <1>1
      <3>2. /\ Side(V, dir)[o] = IF o.dir = dir THEN V[o] ELSE 0
            /\ Side(W, dir)[o] = IF o.dir = dir THEN W[o] ELSE 0
            /\ Side(T, dir)[o] = IF o.dir = dir THEN T[o] ELSE 0
        BY DEF Side
      <3> QED
        BY <3>1, <3>2
    <2> QED
      BY <2>1, SumWithin
  <1>5. /\ Long(W, P) <= Long(V, P) + Long(T, P) /\ Short(W, P) <= Short(V, P) + Short(T, P)
    BY <1>4 DEF Long, Short, Directions
  <1>6. /\ Long(T, P) \in Nat /\ Short(T, P) \in Nat /\ ordered = Long(T, P) + Short(T, P)
    BY <1>1, SidesOf
  <1>7. /\ m.long \in Nat /\ m.short \in Nat /\ n.long \in Nat /\ n.short \in Nat
        /\ SumOver(x, Tickers) \in Int /\ SumOver(y, Tickers) \in Int
        /\ SumOver(Magnitude(x), Tickers) \in Nat /\ SumOver(Magnitude(y), Tickers) \in Nat
        /\ Long(V, P) \in Nat /\ Short(V, P) \in Nat /\ Long(W, P) \in Nat /\ Short(W, P) \in Nat
        /\ NetBand \in Nat /\ MaxGross \in Nat
    BY <1>1, ExposureTypes
  <1>8. /\ long \in Nat /\ short \in Nat
        /\ n.long - m.long <= long /\ m.long - n.long <= long
        /\ n.short - m.short <= short /\ m.short - n.short <= short
    <2>1. n.long - m.long \in Int /\ n.short - m.short \in Int
      BY <1>7
    <2>2. /\ long = (IF n.long - m.long >= 0 THEN n.long - m.long ELSE -(n.long - m.long))
          /\ short = (IF n.short - m.short >= 0 THEN n.short - m.short ELSE -(n.short - m.short))
          /\ long \in Nat /\ short \in Nat
      BY <2>1, AbsType
    <2> HIDE DEF long, short
    <2> QED
      BY <1>7, <2>2
  <1>9. MoveOf(m, n, h, P) = owned + ordered + long + short
    BY DEF MoveOf, D, T
  <1>10. /\ NetOf(m, x) + Long(V, P) <= NetBand + k
         /\ NetOf(m, x) - Short(V, P) >= -(NetBand + k)
         /\ GrossOf(m, x) + Long(V, P) + Short(V, P) <= MaxGross + k
    BY DEF Bounded, x, V
  <1> HIDE DEF owned, ordered, long, short
  <1>11. /\ MoveOf(m, n, h, P) \in Nat /\ ordered \in Nat /\ ordered <= MoveOf(m, n, h, P)
    BY <1>3, <1>6, <1>8, <1>9
  <1>12. NetOf(n, y) + Long(W, P) <= NetBand + (k + MoveOf(m, n, h, P))
    BY <1>3, <1>5, <1>6, <1>7, <1>8, <1>9, <1>10, <1>11 DEF NetOf
  <1>13. NetOf(n, y) - Short(W, P) >= -(NetBand + (k + MoveOf(m, n, h, P)))
    BY <1>3, <1>5, <1>6, <1>7, <1>8, <1>9, <1>10, <1>11 DEF NetOf
  <1>14. GrossOf(n, y) + Long(W, P) + Short(W, P) <= MaxGross + (k + MoveOf(m, n, h, P))
    BY <1>3, <1>5, <1>6, <1>7, <1>8, <1>9, <1>10, <1>11 DEF GrossOf
  <1> QED
    BY <1>11, <1>12, <1>13, <1>14 DEF Bounded, y, W, T, ordered

\* What the gate approves is at most the proposal and leaves, if it is anything,
\* the exposure it was told of within the limits.
LEMMA GateBounds ==
    ASSUME NEW dir \in Directions, NEW size \in Sizes,
           NEW c, c.same \in Int, c.sector \in Int, c.gross \in Int, c.net \in Int,
           c.participation \in Int,
           Evaluate(dir, size, c).approved
    PROVE  LET s == Evaluate(dir, size, c).size
           IN  /\ s \in Nat /\ s <= MaxSize
               /\ \/ s = 0
                  \/ /\ s <= MaxGross - c.gross
                     /\ dir = "long" => s <= NetBand - c.net
                     /\ dir = "short" => s <= NetBand + c.net
  <1> DEFINE working == IF c.breaker = "derisk" THEN size \div 2 ELSE size
             S == Allowances(dir, c) \cup {working}
             final == Max({0, Min(S)})
  <1>1. Evaluate(dir, size, c) =
            IF ~Admissible(size, c) \/ 10 * final < 8 * working THEN Reject
            ELSE [approved |-> TRUE, clamped |-> final < size, size |-> final]
    BY DEF Evaluate
  <1>2. working \in Nat /\ working <= MaxSize
    <2>1. size \in Nat /\ size <= MaxSize /\ MaxSize \in Nat
      BY SizesBounded
    <2>2. size \div 2 \in Nat /\ size \div 2 <= size
      BY <2>1
    <2> QED
      BY <2>1, <2>2
  <1> HIDE DEF working
  <1> DEFINE net == IF dir = "long" THEN NetBand - c.net ELSE NetBand + c.net
  <1>3. /\ MaxPosition \in Int /\ MaxNewPosition \in Int /\ MaxSector \in Int
        /\ MaxGross \in Int /\ NetBand \in Int
    BY DEF MaxPosition, MaxNewPosition, MaxSector, MaxGross, NetBand, Percent
  <1>4. PICK a \in Int :
            Allowances(dir, c) = {MaxPosition - c.same, a, MaxSector - c.sector,
                                  MaxGross - c.gross, net, c.participation}
    <2>1. (IF c.same = 0 THEN MaxNewPosition ELSE MaxPosition - c.same) \in Int
      BY <1>3
    <2> QED
      BY <2>1 DEF Allowances
  <1>5. net \in Int
    BY <1>3
  <1> HIDE DEF net
  <1>6. S \subseteq Int /\ IsFiniteSet(S) /\ S # {}
    <2>1. Allowances(dir, c) \subseteq Int
      BY <1>3, <1>4, <1>5
    <2>2. IsFiniteSet(Allowances(dir, c))
      <3>1. IsFiniteSet({MaxPosition - c.same} \cup {a} \cup {MaxSector - c.sector}
                        \cup {MaxGross - c.gross} \cup {net} \cup {c.participation})
        BY FS_Singleton, FS_Union
      <3>2. Allowances(dir, c) =
                {MaxPosition - c.same} \cup {a} \cup {MaxSector - c.sector}
                \cup {MaxGross - c.gross} \cup {net} \cup {c.participation}
        BY <1>4
      <3> QED
        BY <3>1, <3>2
    <2> QED
      BY <1>2, <2>1, <2>2, FS_AddElement
  <1>7. /\ Min(S) \in Int /\ Min(S) <= working
        /\ Min(S) <= MaxGross - c.gross /\ Min(S) <= net
    <2>1. working \in S /\ MaxGross - c.gross \in S /\ net \in S
      BY <1>4
    <2> HIDE DEF S
    <2> QED
      BY <1>6, <2>1, MinIsMin
  <1>8. final \in Nat /\ final <= working /\ (final = 0 \/ final = Min(S))
    <2> HIDE DEF S
    <2>1. final = IF 0 >= Min(S) THEN 0 ELSE Min(S)
      BY <1>7, MaxOfTwo
    <2> HIDE DEF final
    <2> QED
      BY <1>2, <1>7, <2>1
  <1> HIDE DEF final, S
  <1>9. Evaluate(dir, size, c).size = final
    BY <1>1 DEF Reject
  <1>10. final <= MaxSize
    BY <1>2, <1>8, SizesBounded
  <1> QED
    BY <1>7, <1>8, <1>9, <1>10 DEF net

\* An order within the gate's limits keeps the bound if the slack covers all the
\* other orders, none of which the gate has seen.
LEMMA OrderKeepsBound ==
    ASSUME NEW m \in Markets, NEW x \in [Tickers -> Int], NEW V \in [Orders -> Nat],
           NEW P, P \subseteq Orders, IsFiniteSet(P),
           NEW k \in Nat, NEW l \in Nat, k <= l, SumOver(V, P) <= l,
           NEW o \in Orders, o \notin P,
           V[o] <= MaxGross - GrossOf(m, x),
           o.dir = "long" => V[o] <= NetBand - NetOf(m, x),
           o.dir = "short" => V[o] <= NetBand + NetOf(m, x),
           Bounded(m, x, V, P, k)
    PROVE  Bounded(m, x, V, P \cup {o}, l)
  <1> DEFINE Q == P \cup {o}
             s == V[o]
             net == NetOf(m, x)
             gross == GrossOf(m, x)
  <1>1. /\ s \in Nat /\ o.dir \in Directions
        /\ Side(V, "long")[o] = (IF o.dir = "long" THEN s ELSE 0)
        /\ Side(V, "short")[o] = (IF o.dir = "short" THEN s ELSE 0)
    BY DEF Orders, Side
  <1>2. /\ Long(V, Q) = (IF o.dir = "long" THEN s ELSE 0) + Long(V, P)
        /\ Short(V, Q) = (IF o.dir = "short" THEN s ELSE 0) + Short(V, P)
    <2>1. \A z \in P \cup {o} : Side(V, "long")[z] \in Int /\ Side(V, "short")[z] \in Int
      BY DEF Side
    <2> QED
      BY <1>1, <2>1, SumInsert DEF Long, Short
  <1>3. /\ net \in Int /\ gross \in Nat
        /\ Long(V, P) \in Nat /\ Short(V, P) \in Nat /\ NetBand \in Nat /\ MaxGross \in Nat
    BY ExposureTypes
  <1>4. Long(V, P) + Short(V, P) <= l
    BY SidesOf
  <1>5. /\ net + Long(V, P) <= NetBand + k
        /\ net - Short(V, P) >= -(NetBand + k)
        /\ gross + Long(V, P) + Short(V, P) <= MaxGross + k
    BY DEF Bounded
  <1>6. /\ s <= MaxGross - gross
        /\ o.dir = "long" => s <= NetBand - net
        /\ o.dir = "short" => s <= NetBand + net
    OBVIOUS
  <1> HIDE DEF s, net, gross, Q
  <1>7. /\ net + Long(V, Q) <= NetBand + l
        /\ net - Short(V, Q) >= -(NetBand + l)
        /\ gross + Long(V, Q) + Short(V, Q) <= MaxGross + l
    <2>1. CASE o.dir = "long"
      <3>1. Long(V, Q) = s + Long(V, P) /\ Short(V, Q) = Short(V, P)
        BY <1>2, <1>3, <2>1
      <3> QED
        BY <1>1, <1>3, <1>4, <1>5, <1>6, <2>1, <3>1
    <2>2. CASE o.dir = "short"
      <3>1. Long(V, Q) = Long(V, P) /\ Short(V, Q) = s + Short(V, P)
        BY <1>2, <1>3, <2>2
      <3> QED
        BY <1>1, <1>3, <1>4, <1>5, <1>6, <2>2, <3>1
    <2> QED
      BY <1>1, <2>1, <2>2 DEF Directions
  <1> QED
    BY <1>7 DEF Bounded, Q, net, gross

-----------------------------------------------------------------------------
(* The steps.                                                              *)

\* By how much the bound may be passed.
Allowed(p, v) == Slack(p) + v

\* Bounded is what the invariant says.
LEMMA BoundedIs ==
    ASSUME NEW m \in Markets, NEW h \in [Tickers -> Int],
           NEW P, P \subseteq Orders, IsFiniteSet(P), NEW k
    PROVE  LET net == m.long - m.short + Total([t \in Tickers |-> h[t] * m.worth[t]])
               gross == m.long + m.short + Total([t \in Tickers |-> Abs(h[t] * m.worth[t])])
               long == Total([o \in {p \in P : p.dir = "long"} |-> o.qty * m.worth[o.ticker]])
               short == Total([o \in {p \in P : p.dir = "short"} |-> o.qty * m.worth[o.ticker]])
           IN  Bounded(m, Exposed(m, h), Value(m), P, k) <=>
                   /\ net + long <= NetBand + k
                   /\ net - short >= -(NetBand + k)
                   /\ gross + long + short <= MaxGross + k
  BY TotalsOf DEF Bounded, NetOf, GrossOf

\* The exposure of a state, and of the next one.
LEMMA ExposureIs ==
    /\ Typed => (ExposureBounded <=>
                 Bounded(market, Exposed(market, held), Value(market), pending,
                         Allowed(peak, moved)))
    /\ Typed' => (ExposureBounded' <=>
                  Bounded(market', Exposed(market', held'), Value(market'), pending',
                          Allowed(peak', moved')))
  <1>1. ASSUME Typed
        PROVE  ExposureBounded <=>
               Bounded(market, Exposed(market, held), Value(market), pending,
                       Allowed(peak, moved))
    <2>1. /\ market \in Markets /\ held \in [Tickers -> Int]
          /\ pending \subseteq Orders /\ IsFiniteSet(pending)
      BY <1>1 DEF Typed
    <2> QED
      BY <2>1, BoundedIs DEF ExposureBounded, Net, Gross, Ordered, Exposure, Allowed, Slack
  <1>2. ASSUME Typed'
        PROVE  ExposureBounded' <=>
               Bounded(market', Exposed(market', held'), Value(market'), pending',
                       Allowed(peak', moved'))
    <2>1. /\ market' \in Markets /\ held' \in [Tickers -> Int]
          /\ pending' \subseteq Orders /\ IsFiniteSet(pending')
      BY <1>2 DEF Typed
    <2> QED
      BY <2>1, BoundedIs DEF ExposureBounded, Net, Gross, Ordered, Exposure, Allowed, Slack
  <1> QED
    BY <1>1, <1>2

\* The orders in one name, and their shares.
Of(P, t) == {o \in P : o.ticker = t}
Shared == [o \in Orders |-> o.qty]

\* What waits in one name, and what filling it would move.
LEMMA WaitingOf ==
    ASSUME Typed, NEW t \in Tickers
    PROVE  /\ Waiting(t) \subseteq Orders /\ IsFiniteSet(Waiting(t))
           /\ Cardinality(Waiting(t)) \in Nat
           /\ Filled(t) = SumOver(Signed(Shared), Waiting(t)) /\ Filled(t) \in Int
  <1> DEFINE W == Waiting(t)
             f == [o \in W |-> Sign(o.dir) * o.qty]
  <1>1. W \subseteq Orders /\ IsFiniteSet(W)
    <2>1. W \subseteq pending
      BY DEF Waiting
    <2> HIDE DEF W
    <2> QED
      BY <2>1, FS_Subset DEF Typed
  <1> HIDE DEF W
  <1>2. Filled(t) = SumOver(f, W)
    BY TotalIsSum DEF Filled, W
  <1>3. \A o \in W : f[o] = Signed(Shared)[o]
    BY <1>1 DEF Signed, Shared
  <1> HIDE DEF f
  <1>4. SumOver(f, W) = SumOver(Signed(Shared), W)
    BY <1>1, <1>3, SumSame
  <1>5. Shared \in [Orders -> Nat]
    BY DEF Shared, Orders
  <1>6. SumOver(Signed(Shared), W) \in Int
    <2>1. /\ Long(Shared, W) \in Nat /\ Short(Shared, W) \in Nat
          /\ SumOver(Signed(Shared), W) = Long(Shared, W) - Short(Shared, W)
      BY <1>1, <1>5, SidesOf
    <2> QED
      BY <2>1
  <1> QED
    BY <1>1, <1>2, <1>4, <1>6, FS_CardinalityType DEF W

\* Orders of one name are worth what their shares are.
LEMMA OneName ==
    ASSUME NEW m \in Markets, NEW t \in Tickers,
           NEW S, S \subseteq Orders, IsFiniteSet(S), \A o \in S : o.ticker = t
    PROVE  SumOver(Signed(Value(m)), S) = m.worth[t] * SumOver(Signed(Shared), S)
  <1> DEFINE w == m.worth[t]
  <1>1. w \in Int
    BY MarketTypes
  <1>2. \A o \in S : o.qty \in Nat /\ Sign(o.dir) \in {1, -1}
    BY DEF Orders, Sign
  <1>3. \A o \in S : /\ Signed(Shared)[o] = Sign(o.dir) * o.qty
                     /\ Signed(Value(m))[o] = Sign(o.dir) * (o.qty * w)
    BY DEF Signed, Shared, Value
  <1> HIDE DEF w
  <1>4. \A i, q \in Int : i * q \in Int /\ i * (q * w) = w * (i * q)
    BY <1>1
  <1>5. \A o \in S : o.qty \in Int /\ Sign(o.dir) \in Int
    BY <1>2
  <1>6. \A o \in S : /\ Signed(Shared)[o] \in Int
                     /\ Signed(Value(m))[o] = w * Signed(Shared)[o]
    <2> TAKE o \in S
    <2> DEFINE i == Sign(o.dir)
               q == o.qty
    <2>1. i \in Int /\ q \in Int
      BY <1>5
    <2>2. Signed(Shared)[o] = i * q /\ Signed(Value(m))[o] = i * (q * w)
      BY <1>3
    <2> HIDE DEF i, q
    <2>3. i * q \in Int /\ i * (q * w) = w * (i * q)
      BY <1>4, <2>1
    <2> QED
      BY <2>2, <2>3
  <1> DEFINE f == Signed(Shared)
             g == Signed(Value(m))
  <1> HIDE DEF f, g
  <1>7. SumOver(g, S) = w * SumOver(f, S)
    BY <1>1, <1>6, SumScale DEF f, g
  <1> QED
    BY <1>7 DEF f, g, w

\* What the history counts is what marks move.
LEMMA MoveIs ==
    ASSUME Typed, NEW m \in Markets
    PROVE  Move(m) = MoveOf(market, m, held, pending)
  <1> DEFINE f == [t \in Tickers |-> Abs(held[t]) * Step(market, m)[t]]
             g == [o \in pending |-> o.qty * Step(market, m)[o.ticker]]
  <1>1. Move(m) = Total(f) + Total(g) + Abs(m.long - market.long) + Abs(m.short - market.short)
    BY DEF Move, Step
  <1>2. Total(f) = SumOver(HeldMoves(market, m, held), Tickers)
    BY TotalIsSum DEF HeldMoves
  <1>3. \A o \in pending : g[o] = OrderMoves(market, m)[o]
    BY DEF Typed, OrderMoves
  <1>4. DOMAIN g = pending /\ IsFiniteSet(pending)
    BY DEF Typed
  <1> HIDE DEF f, g
  <1>5. Total(g) = SumOver(g, pending)
    BY <1>4, TotalIsSum
  <1>6. SumOver(g, pending) = SumOver(OrderMoves(market, m), pending)
    BY <1>3, <1>4, SumSame
  <1> QED
    BY <1>1, <1>2, <1>5, <1>6 DEF MoveOf

\* A fund without orders is within its bound.
LEMMA InitIInv == Init => IInv
  <1> SUFFICES ASSUME Init
               PROVE  IInv
    OBVIOUS
  <1>1. Typed
    BY FS_EmptySet DEF Init, Typed
  <1>2. PlacesTaken /\ OfferedOnce /\ OfferedFresh /\ FlatIsFresh
    BY DEF Init, PlacesTaken, OfferedOnce, OfferedFresh, FlatIsFresh
  <1>3. PeakCounts
    BY FS_EmptySet DEF Init, PeakCounts
  <1>4. OrdersSized
    <2>1. MaxSize \in Nat /\ MaxSize * 0 = 0
      BY SizesBounded
    <2>2. SumOver(Value(market), {}) = 0 /\ Cardinality({}) = 0
      BY SumEmpty, FS_EmptySet
    <2>3. \A S \in SUBSET pending : S = {}
      BY DEF Init
    <2>4. moved = 0
      BY DEF Init
    <2> SUFFICES ASSUME NEW S \in SUBSET pending
                 PROVE  SumOver(Value(market), S) <= MaxSize * Cardinality(S) + moved
      BY DEF OrdersSized
    <2> QED
      BY <2>1, <2>2, <2>3, <2>4
  <1>5. \A t \in Tickers : held[t] = 0 /\ entries[t] = 0 /\ gaps[t] = 0 /\ Waiting(t) = {}
    BY DEF Init, Waiting
  <1>6. NameEnteredOnce
    BY <1>5, FS_EmptySet DEF NameEnteredOnce
  <1>7. ExposureBounded
    <2> DEFINE x == Exposed(market, held)
               V == Value(market)
    <2>1. market \in Markets /\ held \in [Tickers -> Int]
      BY <1>1 DEF Typed
    <2>2. \A t \in Tickers : x[t] = 0 /\ Magnitude(x)[t] = 0
      <3>1. \A w \in Nat : 0 * w = 0
        OBVIOUS
      <3>2. Abs(0) = 0
        BY AbsType
      <3>3. \A t \in Tickers : market.worth[t] \in Nat
        BY <2>1, MarketTypes
      <3>4. \A t \in Tickers : x[t] = 0
        BY <1>5, <3>1, <3>3 DEF Exposed
      <3> HIDE DEF x
      <3> QED
        BY <3>2, <3>4 DEF Magnitude
    <2>3. SumOver(x, Tickers) = 0 /\ SumOver(Magnitude(x), Tickers) = 0
      <3> HIDE DEF x
      <3> QED
        BY <2>2, BookAssumption, SumZero
    <2>4. Long(V, {}) = 0 /\ Short(V, {}) = 0
      BY SumEmpty DEF Long, Short
    <2>5. Allowed(peak, moved) \in Nat
      <3>1. peak \in Nat /\ moved \in Nat
        BY DEF Init
      <3>2. Slack(peak) \in Nat
        BY <3>1, SlackGrows
      <3> QED
        BY <3>1, <3>2 DEF Allowed
    <2>6. /\ market.long \in Nat /\ market.short \in Nat
          /\ market.long + market.short <= MaxGross
          /\ market.long - market.short \in -NetBand..NetBand
          /\ NetBand \in Nat /\ MaxGross \in Nat
      <3>1. market.long \in Nat /\ market.short \in Nat
        BY <2>1, MarketTypes
      <3>2. NetBand \in Nat /\ MaxGross \in Nat
        BY DEF NetBand, MaxGross, Percent
      <3>3. WithinLimits(market)
        BY DEF Init
      <3> QED
        BY <3>1, <3>2, <3>3 DEF WithinLimits
    <2> HIDE DEF x, V
    <2>7. Bounded(market, x, V, {}, Allowed(peak, moved))
      BY <2>3, <2>4, <2>5, <2>6 DEF Bounded, NetOf, GrossOf
    <2>8. pending = {}
      BY DEF Init
    <2> QED
      BY <1>1, <2>7, <2>8, ExposureIs DEF x, V
  <1> QED
    BY <1>1, <1>2, <1>3, <1>4, <1>6, <1>7 DEF IInv

\* A cycle begins: marks move what there is, then orders that have an open are filled,
\* and others offered again only if nothing came of them.
LEMMA BeginCycleKeeps ==
    ASSUME IInv, NEW bars \in [Tickers -> {"full", "no_open", "none"}], NEW m \in Markets,
           NEW found \in [Tickers -> Rows], BeginCycle(bars, m, found)
    PROVE  IInv'
  <1> DEFINE F == {o \in pending : bars[o.ticker] = "full"}
             holding == {t \in Tickers : held'[t] # 0}
  <1> USE DEF IInv
  <1>1. /\ pending' = pending \ F /\ F \subseteq pending
        /\ IsFiniteSet(pending') /\ Cardinality(pending') <= Cardinality(pending)
    <2>1. pending' = pending \ F /\ F \subseteq pending
      BY DEF BeginCycle
    <2> HIDE DEF F
    <2> QED
      BY <2>1, FS_Subset DEF Typed
  <1>2. held' \in [Tickers -> Int]
    <2>1. \A t \in Tickers : held[t] \in Int /\ Filled(t) \in Int
      BY WaitingOf DEF Typed
    <2> QED
      BY <2>1 DEF BeginCycle
  <1>3. ASSUME NEW t \in Tickers
        PROVE  /\ gaps[t] \in Nat /\ entries[t] \in Nat
               /\ gaps'[t] = IF bars[t] # "full" /\ Waiting(t) # {} THEN gaps[t] + 1 ELSE gaps[t]
               /\ entries'[t] = IF bars[t] # "full" THEN entries[t]
                                ELSE IF held'[t] = 0 THEN 0
                                ELSE entries[t] + Cardinality(Waiting(t))
    BY DEF BeginCycle, Typed
  <1>4. gaps' \in [Tickers -> Nat] /\ entries' \in [Tickers -> Nat]
    <2>1. gaps' \in [Tickers -> Nat]
      BY DEF BeginCycle, Typed
    <2>2. \A t \in Tickers : entries'[t] \in Nat
      BY <1>3, WaitingOf
    <2>3. entries' = [t \in Tickers |-> entries'[t]]
      BY DEF BeginCycle
    <2> QED
      BY <2>1, <2>2, <2>3
  <1>5. queue' = Candidates(m.close, found, holding)
    BY DEF BeginCycle
  <1>6. /\ queue' \in Seq(Tickers)
        /\ \A i \in DOMAIN queue' : queue'[i] \notin holding
        /\ \A i, j \in DOMAIN queue' : queue'[i] = queue'[j] => i = j
    <2> HIDE DEF holding
    <2> QED
      BY <1>5, OffersFresh
  <1> DEFINE k == Allowed(peak, moved)
             by == MoveOf(market, m, held, pending)
             V == Value(m)
  <1>7. /\ market \in Markets /\ held \in [Tickers -> Int]
        /\ peak \in Nat /\ moved \in Nat
        /\ pending \subseteq Orders /\ IsFiniteSet(pending)
    BY DEF Typed
  <1>8. k \in Nat /\ Slack(peak) \in Nat /\ k = Slack(peak) + moved
    <2>1. Slack(peak) \in Nat
      BY <1>7, SlackGrows
    <2> QED
      BY <1>7, <2>1 DEF Allowed
  <1>9. /\ by \in Nat
        /\ SumOver(OrderMoves(market, m), pending) \in Nat
        /\ SumOver(OrderMoves(market, m), pending) <= by
        /\ Bounded(m, Exposed(m, held), V, pending, k + by)
    <2>1. Bounded(market, Exposed(market, held), Value(market), pending, k)
      BY ExposureIs
    <2> HIDE DEF k
    <2> QED
      BY <1>7, <1>8, <2>1, MarksKeepBound
  <1>10. moved' = moved + by /\ market' = m /\ peak' = peak
    <2>1. Move(m) = by
      BY MoveIs
    <2> QED
      BY <2>1 DEF BeginCycle
  <1> HIDE DEF by
  <1>11. Typed'
    BY <1>1, <1>2, <1>4, <1>6, <1>7, <1>9, <1>10 DEF Typed, BeginCycle
  <1>12. PlacesTaken'
    <2>1. \A o \in pending : o.cycle \in Nat /\ o.cycle <= cycles
      BY DEF PlacesTaken, Typed, Orders
    <2>2. cycles \in Nat /\ cycles' = cycles + 1
      BY DEF BeginCycle, Typed
    <2>3. \A o \in pending' : o.cycle <= cycles' /\ o.cycle # cycles'
      BY <1>1, <2>1, <2>2
    <2> QED
      BY <2>3 DEF PlacesTaken
  <1>13. PeakCounts'
    <2>1. peak' = peak /\ Cardinality(pending) <= peak
      BY DEF BeginCycle, PeakCounts
    <2>2. Cardinality(pending) \in Nat /\ Cardinality(pending') \in Nat /\ peak \in Nat
      BY <1>1, FS_CardinalityType DEF Typed
    <2> QED
      BY <1>1, <2>1, <2>2 DEF PeakCounts
  <1>14. OrdersSized'
    <2> SUFFICES ASSUME NEW S \in SUBSET pending'
                 PROVE  SumOver(V, S) <= MaxSize * Cardinality(S) + moved'
      BY <1>10 DEF OrdersSized
    <2> DEFINE U == Value(market)
               T == OrderMoves(market, m)
    <2>1. S \subseteq pending /\ S \subseteq Orders /\ IsFiniteSet(S)
      BY <1>1, <1>7, FS_Subset
    <2>2. /\ U \in [Orders -> Nat] /\ V \in [Orders -> Nat] /\ T \in [Orders -> Nat]
          /\ \A o \in Orders : V[o] <= U[o] + T[o]
      BY <1>7, MarketTypes, OrderMovesBy
    <2>3. SumOver(U, S) <= MaxSize * Cardinality(S) + moved
      BY <2>1 DEF OrdersSized
    <2> HIDE DEF U, V, T
    <2>4. SumOver(V, S) <= SumOver(U, S) + SumOver(T, S)
      <3>1. \A o \in S : U[o] \in Int /\ V[o] \in Int /\ T[o] \in Int /\ V[o] <= U[o] + T[o]
        BY <2>1, <2>2
      <3> QED
        BY <2>1, <3>1, SumWithin
    <2>5. SumOver(T, S) <= SumOver(T, pending)
      <3>1. \A o \in pending : T[o] \in Nat
        BY <1>7, <2>2
      <3> QED
        BY <1>7, <2>1, <3>1, SumPart
    <2>6. /\ SumOver(U, S) \in Nat /\ SumOver(V, S) \in Nat
          /\ SumOver(T, S) \in Nat /\ SumOver(T, pending) \in Nat
      <3>1. \A o \in S : U[o] \in Nat /\ V[o] \in Nat /\ T[o] \in Nat
        BY <2>1, <2>2
      <3> QED
        BY <1>9, <2>1, <3>1, SumNat DEF T
    <2>7. SumOver(T, pending) <= by
      BY <1>9 DEF T
    <2>8. MaxSize * Cardinality(S) \in Nat
      <3>1. \A i, j \in Nat : i * j \in Nat
        OBVIOUS
      <3> QED
        BY <2>1, <3>1, SizesBounded, FS_CardinalityType
    <2> QED
      BY <1>7, <1>9, <1>10, <2>3, <2>4, <2>5, <2>6, <2>7, <2>8
  <1>15. OfferedOnce'
    BY <1>6 DEF OfferedOnce
  <1>16. ASSUME NEW t \in Tickers
         PROVE  /\ bars[t] = "full" => /\ held'[t] = held[t] + Filled(t)
                                       /\ Of(pending', t) = {} /\ Of(F, t) = Waiting(t)
                /\ bars[t] # "full" => /\ held'[t] = held[t]
                                       /\ Of(pending', t) = Waiting(t) /\ Of(F, t) = {}
    BY DEF BeginCycle, Waiting, Of
  <1>17. FlatIsFresh'
    <2> SUFFICES ASSUME NEW t \in Tickers, held'[t] = 0
                 PROVE  entries'[t] = 0
      BY DEF FlatIsFresh
    <2> QED
      BY <1>3, <1>16 DEF FlatIsFresh
  <1>18. NameEnteredOnce'
    <2> SUFFICES ASSUME NEW t \in Tickers
                 PROVE  entries'[t] + Cardinality(Of(pending', t)) <= 1 + gaps'[t]
      BY DEF NameEnteredOnce, Waiting, Of
    <2>1. /\ Cardinality(Waiting(t)) \in Nat /\ gaps[t] \in Nat /\ entries[t] \in Nat
          /\ entries[t] + Cardinality(Waiting(t)) <= 1 + gaps[t]
      BY <1>3, WaitingOf DEF NameEnteredOnce
    <2>2. CASE bars[t] = "full"
      <3>1. Of(pending', t) = {} /\ Cardinality({}) = 0
        BY <1>16, <2>2, FS_EmptySet
      <3>2. gaps'[t] = gaps[t] /\ entries'[t] \in {0, entries[t] + Cardinality(Waiting(t))}
        BY <1>3, <2>2
      <3> QED
        BY <2>1, <3>1, <3>2
    <2>3. CASE bars[t] # "full"
      <3>1. Of(pending', t) = Waiting(t)
        BY <1>16, <2>3
      <3>2. gaps'[t] \in {gaps[t], gaps[t] + 1} /\ entries'[t] = entries[t]
        BY <1>3, <2>3
      <3> QED
        BY <2>1, <3>1, <3>2
    <2> QED
      BY <2>2, <2>3
  <1>19. OfferedFresh'
    <2> SUFFICES ASSUME NEW i \in DOMAIN queue'
                 PROVE  /\ held'[queue'[i]] = 0
                        /\ Cardinality(Of(pending', queue'[i])) <= gaps'[queue'[i]]
      BY DEF OfferedFresh, Waiting, Of
    <2> DEFINE t == queue'[i]
    <2>1. t \in Tickers /\ held'[t] = 0
      BY <1>6
    <2> HIDE DEF t
    <2>2. gaps[t] \in Nat /\ gaps'[t] \in Nat
      BY <1>3, <1>4, <2>1
    <2>3. CASE Of(pending', t) = {}
      BY <2>1, <2>2, <2>3, FS_EmptySet DEF t
    <2>4. CASE Of(pending', t) # {}
      <3>1. bars[t] # "full" /\ held[t] = 0 /\ Of(pending', t) = Waiting(t)
        BY <1>16, <2>1, <2>4
      <3>2. gaps'[t] = gaps[t] + 1
        BY <1>3, <2>1, <2>4, <3>1
      <3>3. entries[t] = 0 /\ entries[t] + Cardinality(Waiting(t)) <= 1 + gaps[t]
        BY <2>1, <3>1 DEF NameEnteredOnce, FlatIsFresh
      <3>4. Cardinality(Waiting(t)) \in Nat
        BY <2>1, WaitingOf
      <3> QED
        BY <2>1, <2>2, <3>1, <3>2, <3>3, <3>4 DEF t
    <2> QED
      BY <2>3, <2>4
  <1>20. ExposureBounded'
    <2> DEFINE x == Exposed(m, held)
               y == Exposed(m, held')
    <2>1. \A t \in Tickers : y[t] = x[t] + SumOver(Signed(V), Of(F, t))
      <3> TAKE t \in Tickers
      <3> DEFINE w == m.worth[t]
      <3>1. x[t] = held[t] * w /\ y[t] = held'[t] * w
        BY DEF Exposed
      <3>2. held[t] \in Int /\ Filled(t) \in Int /\ w \in Int
        BY <1>7, WaitingOf, MarketTypes
      <3> HIDE DEF w, x, y
      <3>3. CASE bars[t] = "full"
        <4>1. held'[t] = held[t] + Filled(t) /\ Of(F, t) = Waiting(t)
          BY <1>16, <3>3
        <4>2. SumOver(Signed(V), Waiting(t)) = w * Filled(t)
          <5>1. \A o \in Waiting(t) : o.ticker = t
            BY DEF Waiting
          <5> QED
            BY <5>1, WaitingOf, OneName DEF w
        <4>3. \A a, b \in Int : (a + b) * w = a * w + w * b
          BY <3>2
        <4> HIDE DEF F
        <4> QED
          BY <3>1, <3>2, <4>1, <4>2, <4>3
      <3>4. CASE bars[t] # "full"
        <4>1. SumOver(Signed(V), Of(F, t)) = 0 /\ held'[t] = held[t]
          BY <1>16, <3>4, SumEmpty
        <4>2. held[t] * w \in Int
          BY <3>2
        <4> QED
          BY <3>1, <4>1, <4>2
      <3> QED
        BY <3>3, <3>4
    <2>2. /\ x \in [Tickers -> Int] /\ y \in [Tickers -> Int] /\ V \in [Orders -> Nat]
      BY <1>2, <1>7, MarketTypes
    <2>3. k + by \in Nat
      BY <1>8, <1>9
    <2> HIDE DEF F, IInv, k, V
    <2>4. Bounded(m, x, V, pending, k + by)
      BY <1>9
    <2> HIDE DEF x, y
    <2>5. Bounded(m, y, V, pending \ F, k + by)
      BY <1>1, <1>7, <2>1, <2>2, <2>3, <2>4, FillsKeepBound DEF Of
    <2>6. Allowed(peak', moved') = k + by
      BY <1>7, <1>8, <1>9, <1>10 DEF Allowed
    <2> QED
      BY <1>1, <1>10, <1>11, <2>5, <2>6, ExposureIs DEF y, V
  <1> QED
    BY <1>11, <1>12, <1>13, <1>14, <1>15, <1>17, <1>18, <1>19, <1>20

\* What is left of the candidates when the first is decided.
LEMMA RestOf ==
    ASSUME Typed, queue # <<>>
    PROVE  /\ Head(queue) \in Tickers /\ Head(queue) = queue[1] /\ 1 \in DOMAIN queue
           /\ Tail(queue) \in Seq(Tickers)
           /\ Len(queue) \in Nat /\ Len(Tail(queue)) \in Nat /\ Len(Tail(queue)) = Len(queue) - 1
           /\ \A i \in DOMAIN Tail(queue) :
                  i + 1 \in DOMAIN queue /\ i + 1 # 1 /\ Tail(queue)[i] = queue[i + 1]
  <1>1. queue \in Seq(Tickers)
    BY DEF Typed
  <1> QED
    BY <1>1

\* A candidate that is entered: its order was not there, its name held nothing, and
\* the other candidates' orders are what they were.
LEMMA EnterKeeps ==
    ASSUME IInv, NEW dir \in Directions, NEW size \in Sizes, Enter(dir, size)
    PROVE  IInv'
  <1> DEFINE name == Head(queue)
             c == Context(name)
             s == Evaluate(dir, size, c).size
             w == market.worth[name]
             q == s \div w
             o == [cycle |-> cycles, place |-> Len(queue), ticker |-> name, dir |-> dir, qty |-> q]
             x == Exposed(market, held)
             V == Value(market)
  <1> USE DEF IInv
  <1>1. /\ Evaluate(dir, size, c).approved /\ q >= 1 /\ queue # <<>>
        /\ pending' = pending \cup {o} /\ queue' = Tail(queue)
        /\ peak' = Max({peak, Cardinality(pending')})
        /\ held' = held /\ market' = market /\ cycles' = cycles
        /\ entries' = entries /\ gaps' = gaps /\ moved' = moved
    BY DEF Enter
  <1>2. /\ held \in [Tickers -> Int] /\ market \in Markets
        /\ cycles \in Nat /\ peak \in Nat /\ moved \in Nat
        /\ entries \in [Tickers -> Nat] /\ gaps \in [Tickers -> Nat]
        /\ pending \subseteq Orders /\ IsFiniteSet(pending)
    BY DEF Typed
  <1>3. /\ name \in Tickers /\ name = queue[1] /\ 1 \in DOMAIN queue
        /\ Tail(queue) \in Seq(Tickers)
        /\ Len(queue) \in Nat /\ Len(Tail(queue)) \in Nat /\ Len(Tail(queue)) = Len(queue) - 1
        /\ \A i \in DOMAIN Tail(queue) :
               i + 1 \in DOMAIN queue /\ i + 1 # 1 /\ Tail(queue)[i] = queue[i + 1]
    BY <1>1, RestOf
  <1>4. x \in [Tickers -> Int] /\ V \in [Orders -> Nat] /\ w \in Nat \ {0}
    BY <1>2, <1>3, MarketTypes
  <1>5. /\ c.same \in Int /\ c.sector \in Int /\ c.participation \in Int
        /\ c.gross = GrossOf(market, x) /\ c.net = NetOf(market, x)
        /\ c.gross \in Int /\ c.net \in Int
    <2>1. c.same = Abs(x[name]) /\ c.sector = 0 /\ c.participation = 40 * Percent
          /\ c.gross = Gross /\ c.net = Net
      BY <1>3 DEF Context, Exposure, Exposed
    <2>2. Gross = GrossOf(market, x) /\ Net = NetOf(market, x)
      BY <1>2, TotalsOf DEF Gross, Net, GrossOf, NetOf, Exposure
    <2>3. GrossOf(market, x) \in Nat /\ NetOf(market, x) \in Int
      BY <1>2, <1>4, ExposureTypes
    <2>4. Abs(x[name]) \in Nat
      BY <1>3, <1>4, AbsType
    <2> HIDE DEF c, x
    <2> QED
      BY <2>1, <2>2, <2>3, <2>4 DEF Percent
  <1> HIDE DEF c, name, x, V
  <1>6. /\ s \in Nat /\ s <= MaxSize
        /\ \/ s = 0
           \/ /\ s <= MaxGross - c.gross
              /\ dir = "long" => s <= NetBand - c.net
              /\ dir = "short" => s <= NetBand + c.net
    BY <1>1, <1>5, GateBounds
  <1> HIDE DEF s, w
  <1>7. q \in Nat /\ q * w \in Nat /\ q * w <= s /\ s # 0
    <2>1. /\ q \in Nat /\ q * w \in Nat /\ q * w <= s /\ (s = 0 => q = 0)
      BY <1>4, <1>6, WholeShares
    <2> HIDE DEF q
    <2> QED
      BY <1>1, <2>1
  <1> HIDE DEF q
  <1>8. /\ o \in Orders /\ o.ticker = name /\ o.qty = q /\ o.dir = dir
        /\ o.cycle = cycles /\ o.place = Len(queue)
    BY <1>2, <1>3, <1>7 DEF Orders
  <1>9. o \notin pending
    BY <1>3, <1>8 DEF PlacesTaken
  <1> HIDE DEF o
  <1>10. /\ V[o] = q * w /\ V[o] \in Nat /\ V[o] <= MaxSize
         /\ V[o] <= MaxGross - GrossOf(market, x)
         /\ dir = "long" => V[o] <= NetBand - NetOf(market, x)
         /\ dir = "short" => V[o] <= NetBand + NetOf(market, x)
    <2>1. V[o] = q * w
      BY <1>8 DEF V, Value, w
    <2>2. MaxSize \in Nat /\ NetBand \in Nat /\ MaxGross \in Nat
      BY SizesBounded DEF NetBand, MaxGross, Percent
    <2> QED
      BY <1>5, <1>6, <1>7, <2>1, <2>2
  <1>11. /\ IsFiniteSet(pending') /\ pending' \subseteq Orders
         /\ Cardinality(pending) \in Nat /\ Cardinality(pending') = Cardinality(pending) + 1
    BY <1>1, <1>2, <1>8, <1>9, FS_AddElement, FS_CardinalityType
  <1>12. /\ peak' \in Nat /\ peak <= peak' /\ Cardinality(pending') <= peak'
    <2>1. peak \in Int /\ Cardinality(pending') \in Int
      BY <1>2, <1>11
    <2>2. peak' = IF peak >= Cardinality(pending') THEN peak ELSE Cardinality(pending')
      BY <1>1, <2>1, MaxOfTwo
    <2> QED
      BY <1>2, <1>11, <2>2
  <1>13. Typed'
    BY <1>1, <1>2, <1>3, <1>11, <1>12 DEF Typed
  <1>14. PlacesTaken'
    <2>1. \A z \in pending : /\ z.cycle <= cycles /\ z.place \in Nat
                             /\ z.cycle = cycles => z.place > Len(queue)
      BY <1>2 DEF PlacesTaken, Orders
    <2>2. ASSUME NEW z \in pending'
          PROVE  z.cycle <= cycles' /\ (z.cycle = cycles' => z.place > Len(queue'))
      <3>1. CASE z \in pending
        BY <1>1, <1>3, <2>1, <3>1
      <3>2. CASE z = o
        BY <1>1, <1>2, <1>3, <1>8, <3>2
      <3> QED
        BY <1>1, <2>2, <3>1, <3>2
    <2> QED
      BY <2>2 DEF PlacesTaken
  <1>15. PeakCounts'
    BY <1>12 DEF PeakCounts
  <1>16. OrdersSized'
    <2> SUFFICES ASSUME NEW S \in SUBSET (pending \cup {o})
                 PROVE  SumOver(V, S) <= MaxSize * Cardinality(S) + moved
      BY <1>1 DEF OrdersSized, V
    <2>1. \A Z \in SUBSET pending : SumOver(V, Z) <= MaxSize * Cardinality(Z) + moved
      BY DEF OrdersSized, V
    <2>2. CASE o \notin S
      <3>1. S \in SUBSET pending
        BY <2>2
      <3> QED
        BY <2>1, <3>1
    <2>3. CASE o \in S
      <3> DEFINE R == S \ {o}
      <3>1. R \in SUBSET pending /\ R \subseteq Orders /\ IsFiniteSet(R) /\ IsFiniteSet(S)
        <4>1. R \subseteq pending
          OBVIOUS
        <4>2. S \subseteq pending' /\ IsFiniteSet(pending')
          BY <1>1, <1>11
        <4> HIDE DEF R
        <4> QED
          BY <1>2, <4>1, <4>2, FS_Subset
      <3>2. SumOver(V, S) = V[o] + SumOver(V, R)
        <4>1. \A z \in S : V[z] \in Int
          BY <1>4, <1>8, <1>2
        <4> QED
          BY <2>3, <3>1, <4>1, SumRemove
      <3>3. /\ Cardinality(R) = Cardinality(S) - 1
            /\ Cardinality(S) \in Nat /\ Cardinality(R) \in Nat
        BY <2>3, <3>1, FS_RemoveElement, FS_CardinalityType
      <3>4. SumOver(V, R) <= MaxSize * Cardinality(R) + moved
        BY <2>1, <3>1
      <3>5. SumOver(V, R) \in Nat
        <4>1. \A z \in R : V[z] \in Nat
          BY <1>4, <3>1
        <4> HIDE DEF R
        <4> QED
          BY <3>1, <4>1, SumNat
      <3> HIDE DEF R
      <3>6. /\ MaxSize \in Nat /\ MaxSize * Cardinality(R) \in Nat
            /\ MaxSize * Cardinality(S) = MaxSize * Cardinality(R) + MaxSize
        <4>1. \A i, j \in Nat : i * j \in Nat /\ i * (j + 1) = i * j + i
          OBVIOUS
        <4>2. Cardinality(S) = Cardinality(R) + 1
          BY <3>3
        <4> QED
          BY <3>3, <4>1, <4>2, SizesBounded
      <3> QED
        BY <1>2, <1>10, <3>2, <3>4, <3>5, <3>6
    <2> QED
      BY <2>2, <2>3
  <1>17. \A i, j \in DOMAIN queue : queue[i] = queue[j] => i = j
    BY DEF OfferedOnce
  <1>18. OfferedOnce'
    <2> SUFFICES ASSUME NEW i \in DOMAIN Tail(queue), NEW j \in DOMAIN Tail(queue),
                        Tail(queue)[i] = Tail(queue)[j]
                 PROVE  i = j
      BY <1>1 DEF OfferedOnce
    <2>1. i \in Nat /\ j \in Nat
      BY <1>3
    <2>2. i + 1 = j + 1
      BY <1>3, <1>17
    <2> QED
      BY <2>1, <2>2
  <1>19. \A t \in Tickers : Of(pending', t) = IF t = name THEN Waiting(t) \cup {o} ELSE Waiting(t)
    BY <1>1, <1>8 DEF Of, Waiting
  <1>20. OfferedFresh'
    <2> SUFFICES ASSUME NEW i \in DOMAIN Tail(queue)
                 PROVE  /\ held[Tail(queue)[i]] = 0
                        /\ Cardinality(Of(pending', Tail(queue)[i])) <= gaps[Tail(queue)[i]]
      BY <1>1 DEF OfferedFresh, Waiting, Of
    <2> DEFINE t == Tail(queue)[i]
    <2>1. t = queue[i + 1] /\ i + 1 \in DOMAIN queue /\ t # name /\ t \in Tickers
      <3>1. t = queue[i + 1] /\ i + 1 \in DOMAIN queue /\ i + 1 # 1
        BY <1>3
      <3>2. t # name
        BY <1>3, <1>17, <3>1
      <3>3. t \in Tickers
        BY <1>3
      <3> QED
        BY <3>1, <3>2, <3>3
    <2> HIDE DEF t
    <2>2. held[t] = 0 /\ Cardinality(Waiting(t)) <= gaps[t]
      BY <2>1 DEF OfferedFresh
    <2>3. Of(pending', t) = Waiting(t)
      BY <1>19, <2>1
    <2> QED
      BY <2>2, <2>3 DEF t
  <1>21. FlatIsFresh'
    BY <1>1 DEF FlatIsFresh
  <1>22. NameEnteredOnce'
    <2> SUFFICES ASSUME NEW t \in Tickers
                 PROVE  entries[t] + Cardinality(Of(pending', t)) <= 1 + gaps[t]
      BY <1>1 DEF NameEnteredOnce, Waiting, Of
    <2>1. CASE t # name
      <3>1. Of(pending', t) = Waiting(t)
        BY <1>19, <2>1
      <3> QED
        BY <3>1 DEF NameEnteredOnce
    <2>2. CASE t = name
      <3>1. held[t] = 0 /\ entries[t] = 0 /\ Cardinality(Waiting(t)) <= gaps[t]
        BY <1>3, <2>2 DEF OfferedFresh, FlatIsFresh
      <3>2. IsFiniteSet(Waiting(t)) /\ Cardinality(Waiting(t)) \in Nat /\ o \notin Waiting(t)
        BY <1>9, WaitingOf DEF Waiting
      <3>3. Cardinality(Waiting(t) \cup {o}) = Cardinality(Waiting(t)) + 1
        BY <3>2, FS_AddElement
      <3>4. Of(pending', t) = Waiting(t) \cup {o}
        BY <1>19, <2>2
      <3> QED
        BY <1>2, <3>1, <3>2, <3>3, <3>4
    <2> QED
      BY <2>1, <2>2
  <1>23. ExposureBounded'
    <2> DEFINE k == Allowed(peak, moved)
               l == Allowed(peak', moved)
    <2>1. Bounded(market, x, V, pending, k)
      BY ExposureIs DEF x, V
    <2>2. k \in Nat /\ l \in Nat /\ k <= l /\ Slack(peak') \in Nat /\ l = Slack(peak') + moved
      <3>1. Slack(peak) \in Nat /\ Slack(peak') \in Nat /\ Slack(peak) <= Slack(peak')
        BY <1>2, <1>12, SlackGrows
      <3> QED
        BY <1>2, <3>1 DEF Allowed
    <2>3. SumOver(V, pending) <= l
      <3> DEFINE n == Cardinality(pending')
      <3>1. SumOver(V, pending) <= MaxSize * Cardinality(pending) + moved
        BY DEF OrdersSized, V
      <3>2. n \in Nat /\ n >= 1 /\ n - 1 = Cardinality(pending) /\ n <= peak'
        BY <1>11, <1>12
      <3> HIDE DEF n, IInv
      <3>3. MaxSize * (n - 1) = Slack(n) /\ Slack(n) \in Nat /\ Slack(n) <= Slack(peak')
        BY <1>12, <3>2, SlackGrows
      <3>4. SumOver(V, pending) \in Nat
        <4>1. \A z \in pending : V[z] \in Nat
          BY <1>2, <1>4
        <4> QED
          BY <1>2, <4>1, SumNat
      <3>5. SumOver(V, pending) <= Slack(n) + moved
        BY <3>1, <3>2, <3>3
      <3> QED
        BY <1>2, <2>2, <3>3, <3>4, <3>5
    <2> HIDE DEF IInv, k, l
    <2>4. Bounded(market, x, V, pending \cup {o}, l)
      BY <1>2, <1>4, <1>8, <1>9, <1>10, <2>1, <2>2, <2>3, OrderKeepsBound
    <2> QED
      BY <1>1, <1>13, <2>4, ExposureIs DEF x, V, l
  <1> QED
    BY <1>13, <1>14, <1>15, <1>16, <1>18, <1>20, <1>21, <1>22, <1>23

\* A step that only shortens the list of candidates, or none.
LEMMA ShorterKeeps ==
    ASSUME IInv,
           UNCHANGED <<held, market, pending, cycles, entries, gaps, peak, moved>>,
           \/ queue' = queue
           \/ queue' = <<>>
           \/ queue # <<>> /\ queue' = Tail(queue)
    PROVE  IInv'
  <1> USE DEF IInv
  <1>1. /\ queue' \in Seq(Tickers) /\ Len(queue') \in Nat /\ Len(queue') <= Len(queue)
        /\ Len(queue) \in Nat
    <2>1. queue \in Seq(Tickers)
      BY DEF Typed
    <2>2. CASE queue # <<>> /\ queue' = Tail(queue)
      BY <2>1, <2>2
    <2>3. CASE queue' = queue
      BY <2>1, <2>3
    <2>4. CASE queue' = <<>>
      <3>1. Len(queue) \in Nat
        BY <2>1
      <3>2. <<>> \in Seq(Tickers) /\ Len(<<>>) = 0
        OBVIOUS
      <3> QED
        BY <2>4, <3>1, <3>2
    <2> QED
      BY <2>2, <2>3, <2>4
  <1>2. \E d \in {0, 1} : \A i \in DOMAIN queue' : i + d \in DOMAIN queue /\ queue'[i] = queue[i + d]
    <2>1. CASE queue' = queue
      BY <2>1 DEF Typed
    <2>2. CASE queue' = <<>>
      BY <2>2
    <2>3. CASE queue # <<>> /\ queue' = Tail(queue)
      BY <2>3, RestOf
    <2> QED
      BY <2>1, <2>2, <2>3
  <1>3. PICK d \in {0, 1} : \A i \in DOMAIN queue' : i + d \in DOMAIN queue /\ queue'[i] = queue[i + d]
    BY <1>2
  <1>4. \A i \in DOMAIN queue' : i \in Nat
    BY <1>1
  <1>5. Typed'
    BY <1>1 DEF Typed
  <1>6. PlacesTaken'
    <2>1. \A o \in pending : o.place \in Nat
      BY DEF Typed, Orders
    <2> QED
      BY <1>1, <2>1 DEF PlacesTaken
  <1>7. PeakCounts'
    BY DEF PeakCounts
  <1>8. OfferedOnce'
    <2> SUFFICES ASSUME NEW i \in DOMAIN queue', NEW j \in DOMAIN queue', queue'[i] = queue'[j]
                 PROVE  i = j
      BY DEF OfferedOnce
    <2>1. i + d = j + d
      BY <1>3 DEF OfferedOnce
    <2> QED
      BY <1>4, <2>1
  <1>9. OfferedFresh'
    BY <1>3 DEF OfferedFresh, Waiting
  <1>10. ExposureBounded'
    BY <1>5, ExposureIs
  <1>11. NameEnteredOnce' /\ FlatIsFresh' /\ OrdersSized'
    BY DEF NameEnteredOnce, Waiting, FlatIsFresh, OrdersSized
  <1> QED
    BY <1>5, <1>6, <1>7, <1>8, <1>9, <1>10, <1>11

\* Every step keeps the invariant.
LEMMA StepIInv == IInv /\ [Next]_vars => IInv'
  <1> SUFFICES ASSUME IInv, [Next]_vars
               PROVE  IInv'
    OBVIOUS
  <1>1. ASSUME NEW bars \in [Tickers -> {"full", "no_open", "none"}],
               NEW m \in Markets, NEW found \in [Tickers -> Rows], BeginCycle(bars, m, found)
        PROVE  IInv'
    BY <1>1, BeginCycleKeeps
  <1>2. ASSUME NEW dir \in {"long", "short"}, NEW size \in Sizes, Enter(dir, size)
        PROVE  IInv'
    BY <1>2, EnterKeeps DEF Directions
  <1>3. CASE Pass
    BY <1>3, ShorterKeeps DEF Pass
  <1>4. CASE Abandon
    BY <1>4, ShorterKeeps DEF Abandon
  <1>5. CASE UNCHANGED vars
    BY <1>5, ShorterKeeps DEF vars
  <1> QED
    BY <1>1, <1>2, <1>3, <1>4, <1>5 DEF Next

-----------------------------------------------------------------------------

\* What holds in every state.
THEOREM BookInvariant == Spec => []IInv
  <1>1. Init => IInv
    BY InitIInv
  <1>2. IInv /\ [Next]_vars => IInv'
    BY StepIInv
  <1> QED
    BY <1>1, <1>2, PTL DEF Spec

\* Were every order on one side filled, net and gross exposure would pass the gate's
\* limits by at most the largest size for each order but one that was ever pending,
\* and by what new marks have moved what was held and ordered.
THEOREM ExposureIsBounded == Spec => []ExposureBounded
  <1>1. IInv => ExposureBounded
    BY DEF IInv
  <1> QED
    BY <1>1, BookInvariant, PTL

\* Between two times at which a name is not held one of its orders is filled or
\* waits at most, and one more for each session in which one found no open.
THEOREM EnteredOnce == Spec => []NameEnteredOnce
  <1>1. IInv => NameEnteredOnce
    BY DEF IInv
  <1> QED
    BY <1>1, BookInvariant, PTL

=============================================================================
