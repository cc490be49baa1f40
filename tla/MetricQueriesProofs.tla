------------------------- MODULE MetricQueriesProofs -------------------------
(***************************************************************************)
(* The pages of a reader miss nothing, for every request, any number of    *)
(* readers and any page size.                                              *)
(***************************************************************************)
EXTENDS MetricQueries, FiniteSetTheorems, WellFoundedInduction, TLAPS

-----------------------------------------------------------------------------
(* Facts about the statements. *)

\* A set of times is finite and has at most MaxTime elements.
LEMMA FiniteTimes ==
  ASSUME NEW S \in SUBSET Times
  PROVE  IsFiniteSet(S) /\ Cardinality(S) \in Nat /\ Cardinality(S) <= MaxTime
<1>1. IsFiniteSet(Times) /\ Cardinality(Times) = MaxTime
  BY QueryAssumption, FS_Interval DEF Times
<1> QED
  BY <1>1, FS_Subset, FS_CardinalityType

\* A set of naturals that is not empty has a least element ...
LEMMA Least ==
  ASSUME NEW S \in SUBSET Nat, S # {}
  PROVE  \E x \in S : \A y \in S : x <= y
<1>1. PICK x \in S : \A y \in S : <<y, x>> \notin OpToRel(<, Nat)
  BY WFMin, NatLessThanWellFounded
<1>2. ASSUME NEW y \in S PROVE x <= y
  <2>1. <<y, x>> \in Nat \X Nat /\ <<y, x>>[1] = y /\ <<y, x>>[2] = x
    OBVIOUS
  <2>2. y < x => <<y, x>> \in OpToRel(<, Nat)
    BY <2>1, Zenon DEF OpToRel
  <2>3. ~(y < x)
    BY <1>1, <2>2, Zenon
  <2>4. x \in Nat /\ y \in Nat
    OBVIOUS
  <2> HIDE <1>1
  <2> QED
    BY <2>3, <2>4
<1> QED
  BY <1>2

\* ... and a set of times has a first one in either order: some row of a page
\* is the next to be sent.
LEMMA FirstExists ==
  ASSUME NEW S \in SUBSET Times, S # {}, NEW asc \in BOOLEAN
  PROVE  \E x \in S : IsFirst(x, S, asc)
<1>1. CASE asc
  <2>1. S \in SUBSET Nat
    BY DEF Times
  <2> QED
    BY <1>1, <2>1, Least DEF IsFirst
<1>2. CASE ~asc
  <2> DEFINE T == {MaxTime - x : x \in S}
  <2>1. T \in SUBSET Nat /\ T # {}
    <3>1. ASSUME NEW x \in S PROVE MaxTime - x \in Nat
      BY QueryAssumption DEF Times
    <3> QED
      BY <3>1
  <2>2. PICK t \in T : \A u \in T : t <= u
    BY <2>1, Least
  <2>3. PICK x \in S : t = MaxTime - x
    OBVIOUS
  <2>4. ASSUME NEW y \in S PROVE y <= x
    <3>1. t <= MaxTime - y
      BY <2>2
    <3> QED
      BY <3>1, <2>3, QueryAssumption DEF Times
  <2> QED
    BY <1>2, <2>4 DEF IsFirst
<1> QED
  BY <1>1, <1>2

\* The rows before a row, and their number.
LEMMA BeforeFacts ==
  ASSUME TypeOK, NEW x, NEW from, NEW to, NEW asc
  PROVE  /\ Before(x, from, to, asc) \in SUBSET Times
         /\ IsFiniteSet(Before(x, from, to, asc))
         /\ Position(x, from, to, asc) \in Nat
<1>1. Before(x, from, to, asc) \in SUBSET Times
  BY DEF TypeOK, Before, Matching
<1> QED
  BY <1>1, FiniteTimes DEF Position

\* If a row is at place o or behind it, some row is at place o: a page whose
\* offset the table reaches is not empty.
LEMMA PlaceTaken ==
  ASSUME TypeOK, NEW from \in Int, NEW to \in Int, NEW asc \in BOOLEAN, NEW o \in Nat,
         NEW x \in Matching(from, to), Position(x, from, to, asc) >= o
  PROVE  \E y \in Matching(from, to) : Position(y, from, to, asc) = o
<1> DEFINE P(y) == Position(y, from, to, asc)
           B(y) == Before(y, from, to, asc)
           S == {y \in Matching(from, to) : P(y) >= o}
<1>1. \A y : P(y) \in Nat /\ IsFiniteSet(B(y)) /\ B(y) \in SUBSET Times /\ P(y) = Cardinality(B(y))
  BY BeforeFacts DEF Position
<1>2. Matching(from, to) \in SUBSET Times
  BY DEF TypeOK, Matching
<1>3. PICK y \in S : IsFirst(y, S, asc)
  <2>1. S \in SUBSET Times /\ S # {}
    BY <1>2
  <2> QED
    BY <2>1, FirstExists
<1>4. ASSUME NEW z \in B(y) PROVE P(z) < o
  <2>1. z \in Matching(from, to) /\ z \notin S
    BY <1>2, <1>3 DEF Before, IsFirst, Times
  <2> QED
    BY <2>1, <1>1
<1>5. CASE B(y) = {}
  BY <1>1, <1>3, <1>5, FS_EmptySet
<1>6. CASE B(y) # {}
  <2>1. PICK z \in B(y) : IsFirst(z, B(y), ~asc)
    BY <1>1, <1>6, FirstExists
  <2>2. B(z) = B(y) \ {z}
    <3>1. B(y) \in SUBSET Times /\ B(z) \in SUBSET Times /\ y \in Times /\ z \in Times
      BY <1>1, <1>2, <1>3
    <3>2. ASSUME NEW w \in B(z) PROVE w \in B(y) /\ w # z
      BY <3>1, <3>2 DEF Before, Times
    <3>3. ASSUME NEW w \in B(y), w # z PROVE w \in B(z)
      BY <3>1, <3>3, <2>1 DEF Before, IsFirst, Times
    <3> QED
      BY <3>2, <3>3
  <2>3. P(z) = P(y) - 1
    BY <1>1, <2>1, <2>2, FS_RemoveElement
  <2>4. P(y) = o
    BY <1>1, <1>3, <1>4, <2>1, <2>3
  <2> QED
    BY <2>4, <1>3
<1> QED
  BY <1>5, <1>6

\* The number of rows in the range exceeds the place of each of them.
LEMMA PlaceBelowTotal ==
  ASSUME TypeOK, NEW from \in Int, NEW to \in Int, NEW asc \in BOOLEAN,
         NEW x \in Matching(from, to)
  PROVE  /\ Cardinality(Matching(from, to)) \in Nat
         /\ Cardinality(Matching(from, to)) <= MaxTime
         /\ Position(x, from, to, asc) < Cardinality(Matching(from, to))
<1> DEFINE M == Matching(from, to)
           B == Before(x, from, to, asc)
<1>1. M \in SUBSET Times
  BY DEF TypeOK, Matching
<1>2. IsFiniteSet(M) /\ Cardinality(M) \in Nat /\ Cardinality(M) <= MaxTime
  BY <1>1, FiniteTimes
<1>3. x \in Int /\ x \notin B /\ B \in SUBSET M
  BY <1>1 DEF Before, Times
<1>4. B \in SUBSET (M \ {x})
  BY <1>3
<1>5. IsFiniteSet(M \ {x}) /\ Cardinality(M \ {x}) = Cardinality(M) - 1
  BY <1>2, FS_RemoveElement
<1>6. Cardinality(B) <= Cardinality(M) - 1
  BY <1>4, <1>5, FS_Subset
<1>7. Cardinality(B) \in Nat
  BY BeforeFacts DEF Position
<1> QED
  BY <1>2, <1>6, <1>7 DEF Position

-----------------------------------------------------------------------------
(* The types. *)

\* What a request is made of.
LEMMA RequestFacts ==
  ASSUME NEW q \in Requests
  PROVE  /\ q.ok \in BOOLEAN /\ q.start \in Nat /\ q.end \in Nat /\ q.offset \in Int
         /\ q.asc \in BOOLEAN /\ PageSize(q) \in Int
BY QueryAssumption DEF Request, PageSize

LEMMA InitType == Init => TypeOK
BY QueryAssumption DEF Init, TypeOK, Times

\* Ask keeps the types.
LEMMA AskType ==
  ASSUME TypeOK, NEW r \in Reader, NEW q \in Requests, NEW o \in Int, Ask(r, q, o),
         got' \in [Reader -> SUBSET Times], base' \in [Reader -> SUBSET Times]
  PROVE  TypeOK'
<1>1. StartTime(q, now) \in Int /\ EndTime(q, now) \in Int
  BY RequestFacts, QueryAssumption DEF TypeOK, StartTime, EndTime, Times
<1>2. req' \in [Reader -> Requests] /\ off' \in [Reader -> Int]
  BY DEF Ask, TypeOK
<1>3. lo' \in [Reader -> Int] /\ hi' \in [Reader -> Int]
  BY <1>1 DEF Ask, TypeOK
<1>4. pc' \in [Reader -> {"idle", "points", "count", "send", "page", "refused", "failed"}]
  BY DEF Ask, TypeOK
<1>5. page' \in [Reader -> SUBSET Times] /\ more' \in [Reader -> BOOLEAN]
  BY DEF Ask, TypeOK
<1>6. ASSUME NEW s \in Reader, NEW x \in page'[s] PROVE lo'[s] <= x /\ x <= hi'[s]
  BY <1>6 DEF Ask, TypeOK
<1> QED
  BY <1>2, <1>3, <1>4, <1>5, <1>6 DEF Ask, TypeOK

\* The steps of a query keep the types.
LEMMA StepType ==
  ASSUME TypeOK, NEW r \in Reader, QueryStep(r)
  PROVE  TypeOK'
<1> USE DEF TypeOK
<1>1. CASE ReadPoints(r)
  <2> DEFINE P == Select(lo[r], hi[r], off[r], PageSize(req[r]), req[r].asc)
  <2>1. P \in SUBSET Times /\ \A x \in P : lo[r] <= x /\ x <= hi[r]
    BY DEF Select, Matching
  <2>2. page' = [page EXCEPT ![r] = P]
    BY <1>1 DEF ReadPoints
  <2> HIDE DEF P
  <2>3. page' \in [Reader -> SUBSET Times]
    BY <2>1, <2>2
  <2>4. pc' \in [Reader -> {"idle", "points", "count", "send", "page", "refused", "failed"}]
    BY <1>1 DEF ReadPoints
  <2>5. \A s \in Reader : \A x \in page'[s] : lo[s] <= x /\ x <= hi[s]
    BY <2>1, <2>2
  <2> QED
    BY <1>1, <2>3, <2>4, <2>5 DEF ReadPoints
<1>2. CASE CountPoints(r)
  <2>1. Cardinality(Matching(lo[r], hi[r])) \in Nat
    BY FiniteTimes DEF Matching
  <2>2. total' \in [Reader -> Nat]
    BY <1>2, <2>1 DEF CountPoints
  <2>3. pc' \in [Reader -> {"idle", "points", "count", "send", "page", "refused", "failed"}]
    BY <1>2 DEF CountPoints
  <2> QED
    BY <1>2, <2>2, <2>3 DEF CountPoints
<1>3. CASE Send(r)
  <2>1. PICK x \in page[r] : /\ page' = [page EXCEPT ![r] = @ \ {x}]
                             /\ got' = [got EXCEPT ![r] = @ \cup {x}]
    BY <1>3 DEF Send
  <2>2. page' \in [Reader -> SUBSET Times] /\ got' \in [Reader -> SUBSET Times]
    BY <2>1
  <2>3. more' \in [Reader -> BOOLEAN]
    BY <1>3 DEF Send, HasMore
  <2>4. \A s \in Reader : \A y \in page'[s] : lo[s] <= y /\ y <= hi[s]
    BY <2>1
  <2> QED
    BY <1>3, <2>2, <2>3, <2>4 DEF Send
<1>4. CASE EndOfPage(r) \/ QueryFails(r)
  <2>1. pc' \in [Reader -> {"idle", "points", "count", "send", "page", "refused", "failed"}]
    BY <1>4 DEF EndOfPage, QueryFails
  <2> QED
    BY <1>4, <2>1 DEF EndOfPage, QueryFails
<1> QED
  BY <1>1, <1>2, <1>3, <1>4 DEF QueryStep

\* Every step keeps the types.
LEMMA NextType ==
  ASSUME TypeOK, [Next]_vars
  PROVE  TypeOK'
<1>1. CASE UNCHANGED vars
  BY <1>1 DEF TypeOK, vars, query
<1>2. ASSUME NEW r \in Reader, QueryStep(r) PROVE TypeOK'
  BY <1>2, StepType
<1>3. ASSUME NEW r \in Reader, NextPage(r) \/ Retry(r) PROVE TypeOK'
  <2>1. req[r] \in Requests /\ off[r] \in Int
    BY DEF TypeOK
  <2>2. off[r] + PageSize(req[r]) \in Int
    BY <2>1, RequestFacts
  <2>3. got' \in [Reader -> SUBSET Times] /\ base' \in [Reader -> SUBSET Times]
    BY <1>3 DEF NextPage, Retry, TypeOK
  <2> QED
    BY <1>3, <2>1, <2>2, <2>3, AskType DEF NextPage, Retry
<1>4. ASSUME NEW r \in Reader, NEW q \in Requests, FirstPage(r, q) PROVE TypeOK'
  <2> DEFINE b == {x \in Matching(StartTime(q, now), EndTime(q, now)) :
                     Position(x, StartTime(q, now), EndTime(q, now), q.asc) >= q.offset}
  <2>1. b \in SUBSET Times
    BY DEF TypeOK, Matching
  <2>2. base' = [base EXCEPT ![r] = b] /\ got' = [got EXCEPT ![r] = {}]
    BY <1>4 DEF FirstPage
  <2> HIDE DEF b
  <2>3. got' \in [Reader -> SUBSET Times] /\ base' \in [Reader -> SUBSET Times]
    BY <2>1, <2>2 DEF TypeOK
  <2>4. Ask(r, q, q.offset) /\ q.offset \in Int
    BY <1>4, RequestFacts DEF FirstPage
  <2> QED
    BY <2>3, <2>4, AskType
<1>5. ASSUME NEW r \in Reader, NEW q \in Requests, GetMetricStats(r, q) \/ GetAggregations(r, q)
      PROVE  TypeOK'
  <2>1. stats' \in [Reader -> {"none", "invalid", "error", "stats"}]
    <3>1. PICK a \in {"invalid", "error", "stats"} : stats' = [stats EXCEPT ![r] = a]
      BY <1>5 DEF GetMetricStats, StatsAnswers, GetAggregations, Aggregate
    <3> QED
      BY <3>1 DEF TypeOK
  <2> QED
    BY <1>5, <2>1 DEF GetMetricStats, GetAggregations, TypeOK, query
<1>6. ASSUME NEW x \in Times, Store(x) PROVE TypeOK'
  BY <1>6 DEF Store, TypeOK, query
<1>7. ASSUME NEW x \in Times, DropChunks(x) PROVE TypeOK'
  <2>1. base' \in [Reader -> SUBSET Times]
    BY <1>7 DEF DropChunks, TypeOK
  <2> QED
    BY <1>7, <2>1 DEF DropChunks, TypeOK
<1>8. CASE Tick
  <2>1. now' \in Times
    BY <1>8, QueryAssumption DEF Tick, TypeOK, Times
  <2> QED
    BY <1>8, <2>1 DEF Tick, TypeOK, query
<1> QED
  BY <1>1, <1>2, <1>3, <1>4, <1>5, <1>6, <1>7, <1>8 DEF Next

-----------------------------------------------------------------------------
(* The walk of a reader. *)

Ahead(x, s) == Before(x, lo[s], hi[s], req[s].asc)

\* What no step takes from before a row, leaves it at its place or further back.
LEMMA PlaceGrows ==
  ASSUME TypeOK, TypeOK', NEW s \in Reader, NEW x, Ahead(x, s) \subseteq Ahead(x, s)'
  PROVE  Place(x, s) \in Nat /\ Place(x, s)' \in Nat /\ Place(x, s) <= Place(x, s)'
<1>1. Ahead(x, s) \in SUBSET Times /\ Ahead(x, s)' \in SUBSET Times
  BY DEF TypeOK, Ahead, Before, Matching
<1>2. Place(x, s) = Cardinality(Ahead(x, s)) /\ Place(x, s)' = Cardinality(Ahead(x, s)')
  BY DEF Place, Position, Ahead
<1>3. IsFiniteSet(Ahead(x, s)') /\ Cardinality(Ahead(x, s)) \in Nat /\ Cardinality(Ahead(x, s)') \in Nat
  BY <1>1, FiniteTimes
<1>4. Cardinality(Ahead(x, s)) <= Cardinality(Ahead(x, s)')
  BY <1>3, FS_Subset
<1> QED
  BY <1>2, <1>3, <1>4

\* A reader none of whose variables change keeps what it knows.
LEMMA Unmoved ==
  ASSUME NEW s \in Reader, QueryKnows(s), WalkKnows(s), UNCHANGED <<now, rows>>,
         pc'[s] = pc[s], req'[s] = req[s], off'[s] = off[s], lo'[s] = lo[s],
         hi'[s] = hi[s], page'[s] = page[s], total'[s] = total[s], more'[s] = more[s],
         got'[s] = got[s], base'[s] = base[s]
  PROVE  QueryKnows(s)' /\ WalkKnows(s)'
<1>1. QueryKnows(s)'
  BY DEF QueryKnows, RangeKnows
<1>2. Steady(s)' = Steady(s) /\ Owed(s)' = Owed(s)
  BY DEF Steady, Owed
<1>3. \A x : Place(x, s)' = Place(x, s)
  BY DEF Place, Position, Before, Matching
<1>4. \A x : BehindPage(x, s)' = BehindPage(x, s)
  BY <1>3 DEF BehindPage
<1> QED
  BY <1>1, <1>2, <1>3, <1>4 DEF WalkKnows

\* A query that stands still keeps its walk as long as the rows it is owed move
\* back only.
LEMMA WalkStays ==
  ASSUME TypeOK, TypeOK', NEW s \in Reader, WalkKnows(s),
         UNCHANGED <<pc, req, off, page, total, more>>,
         Steady(s)' => /\ Steady(s)
                       /\ Owed(s)' \subseteq Owed(s)
                       /\ \A x \in Owed(s)' : Ahead(x, s) \subseteq Ahead(x, s)'
  PROVE  WalkKnows(s)'
<1> SUFFICES ASSUME Steady(s)', NEW x \in Owed(s)'
             PROVE  /\ Place(x, s)' >= off'[s]
                    /\ pc'[s] \in {"count", "send", "page"} /\ x \notin page'[s]
                         => BehindPage(x, s)'
  BY DEF WalkKnows
<1>1. x \in Owed(s) /\ Ahead(x, s) \subseteq Ahead(x, s)'
  OBVIOUS
<1>2. Place(x, s) \in Nat /\ Place(x, s)' \in Nat /\ Place(x, s) <= Place(x, s)'
  BY <1>1, PlaceGrows
<1>3. /\ Place(x, s) >= off[s]
      /\ pc[s] \in {"count", "send", "page"} /\ x \notin page[s] => BehindPage(x, s)
  BY <1>1 DEF WalkKnows
<1>4. off[s] \in Int /\ PageSize(req[s]) \in Int
  BY RequestFacts DEF TypeOK
<1>5. BehindPage(x, s) => BehindPage(x, s)'
  BY <1>2, <1>4 DEF BehindPage
<1> QED
  BY <1>2, <1>3, <1>4, <1>5

\* What the table does.
LEMMA TableSafe ==
  ASSUME Safe, TypeOK', (\E x \in Times : Store(x) \/ DropChunks(x)) \/ Tick
  PROVE  Safe'
<1> SUFFICES ASSUME NEW s \in Reader PROVE QueryKnows(s)' /\ WalkKnows(s)'
  BY DEF Safe
<1>1. TypeOK /\ QueryKnows(s) /\ WalkKnows(s)
  BY DEF Safe
<1>2. now \in Int /\ lo[s] \in Int /\ hi[s] \in Int /\ Keep \in Int /\ req[s] \in Requests
  BY <1>1, QueryAssumption DEF TypeOK, Times
<1>3. ASSUME NEW x \in Times, Store(x) PROVE QueryKnows(s)' /\ WalkKnows(s)'
  <2>1. QueryKnows(s)'
    BY <1>1, <1>3 DEF Store, query, QueryKnows, RangeKnows
  <2>2. UNCHANGED <<now, pc, req, off, lo, hi, page, total, more, got, base>> /\ rows \subseteq rows'
    BY <1>3 DEF Store, query
  <2>3. Steady(s)' = Steady(s) /\ Owed(s)' = Owed(s)
    BY <2>2 DEF Steady, Owed
  <2>4. \A y : Ahead(y, s) \subseteq Ahead(y, s)'
    BY <2>2 DEF Ahead, Before, Matching
  <2> QED
    BY <1>1, <2>1, <2>2, <2>3, <2>4, WalkStays
<1>4. ASSUME NEW t \in Times, DropChunks(t) PROVE QueryKnows(s)' /\ WalkKnows(s)'
  <2>1. /\ UNCHANGED <<now, pc, req, off, lo, hi, page, total, more, got>>
        /\ rows' = {x \in rows : x >= t}
        /\ base'[s] = {x \in base[s] : x >= t}
        /\ t <= now - Keep
    BY <1>4 DEF DropChunks
  <2>2. QueryKnows(s)'
    BY <1>1, <2>1 DEF QueryKnows, RangeKnows
  <2>3. Steady(s)' = Steady(s) /\ Owed(s)' \subseteq Owed(s)
    BY <2>1 DEF Steady, Owed
  <2>4. ASSUME Steady(s), NEW x \in Owed(s)', NEW y \in Ahead(x, s) PROVE y \in Ahead(x, s)'
    <3>1. x \in Times /\ x >= t /\ y \in rows /\ y \in Times
      BY <1>1, <2>1, <2>4 DEF Owed, Ahead, Before, Matching, TypeOK
    <3>2. y >= t
      <4>1. CASE req[s].asc
        BY <1>2, <2>1, <2>4, <3>1, <4>1 DEF Steady, Ahead, Before, Matching, Times
      <4>2. CASE ~req[s].asc
        BY <2>4, <3>1, <4>2 DEF Ahead, Before, Times
      <4> QED
        BY <4>1, <4>2
    <3> QED
      BY <2>1, <2>4, <3>1, <3>2 DEF Ahead, Before, Matching
  <2> QED
    BY <1>1, <2>1, <2>2, <2>3, <2>4, WalkStays
<1>5. CASE Tick
  <2>1. UNCHANGED <<rows, pc, req, off, lo, hi, page, total, more, got, base>> /\ now' = now + 1
    BY <1>5 DEF Tick, query
  <2>2. QueryKnows(s)'
    BY <1>1, <1>2, <2>1 DEF QueryKnows, RangeKnows
  <2>3. (Steady(s)' => Steady(s)) /\ Owed(s)' = Owed(s)
    BY <1>2, <2>1 DEF Steady, Owed
  <2>4. \A y : Ahead(y, s)' = Ahead(y, s)
    BY <2>1 DEF Ahead, Before, Matching
  <2> QED
    BY <1>1, <2>1, <2>2, <2>3, <2>4, WalkStays
<1> QED
  BY <1>3, <1>4, <1>5

\* What Ask leaves behind.
LEMMA AskFacts ==
  ASSUME TypeOK, NEW r \in Reader, NEW q \in Requests, NEW o \in Int, Ask(r, q, o)
  PROVE  /\ req'[r] = q /\ off'[r] = o /\ page'[r] = {} /\ UNCHANGED <<now, rows>>
         /\ lo'[r] = StartTime(q, now) /\ hi'[r] = EndTime(q, now)
         /\ pc'[r] \in {"refused", "failed", "points"}
         /\ pc'[r] = "points" => ValidRequest(q) /\ o >= 0
         /\ RangeKnows(r)'
         /\ \A s \in Reader \ {r} :
              /\ pc'[s] = pc[s] /\ req'[s] = req[s] /\ off'[s] = off[s] /\ lo'[s] = lo[s]
              /\ hi'[s] = hi[s] /\ page'[s] = page[s] /\ total'[s] = total[s]
              /\ more'[s] = more[s]
<1>1. /\ req'[r] = q /\ off'[r] = o /\ page'[r] = {} /\ UNCHANGED <<now, rows, total>>
      /\ lo'[r] = StartTime(q, now) /\ hi'[r] = EndTime(q, now)
  BY DEF Ask, TypeOK
<1>2. pc'[r] = IF ~ValidRequest(q) THEN "refused"
               ELSE IF ValidFilter(StartTime(q, now), EndTime(q, now), o) THEN "points"
               ELSE "failed"
  BY DEF Ask, TypeOK
<1>3. RangeKnows(r)'
  BY <1>1, RequestFacts DEF RangeKnows, StartTime, EndTime, TypeOK, Times
<1>4. ASSUME NEW s \in Reader \ {r}
      PROVE  /\ pc'[s] = pc[s] /\ req'[s] = req[s] /\ off'[s] = off[s] /\ lo'[s] = lo[s]
             /\ hi'[s] = hi[s] /\ page'[s] = page[s] /\ total'[s] = total[s]
             /\ more'[s] = more[s]
  BY DEF Ask, TypeOK
<1> QED
  BY <1>1, <1>2, <1>3, <1>4 DEF ValidFilter

\* The reader begins.
LEMMA FirstPageSafe ==
  ASSUME Safe, TypeOK', NEW r \in Reader, NEW q \in Requests, FirstPage(r, q)
  PROVE  Safe'
<1> DEFINE b == {x \in Matching(StartTime(q, now), EndTime(q, now)) :
                   Position(x, StartTime(q, now), EndTime(q, now), q.asc) >= q.offset}
<1>1. TypeOK /\ q.offset \in Int /\ Ask(r, q, q.offset)
  BY RequestFacts DEF Safe, FirstPage
<1>2. /\ base'[r] = b
      /\ \A s \in Reader \ {r} : base'[s] = base[s] /\ got'[s] = got[s]
  BY <1>1 DEF FirstPage, TypeOK
<1>3. /\ req'[r] = q /\ off'[r] = q.offset /\ page'[r] = {} /\ UNCHANGED <<now, rows>>
      /\ lo'[r] = StartTime(q, now) /\ hi'[r] = EndTime(q, now)
      /\ pc'[r] \in {"refused", "failed", "points"}
      /\ pc'[r] = "points" => ValidRequest(q) /\ q.offset >= 0
      /\ RangeKnows(r)'
  BY <1>1, AskFacts
<1>4. QueryKnows(r)'
  BY <1>2, <1>3 DEF QueryKnows, Matching
<1>5. WalkKnows(r)'
  <2>1. ASSUME NEW x \in Owed(r)' PROVE Place(x, r)' >= off'[r]
    <3>1. x \in b
      BY <1>2 DEF Owed
    <3>2. Place(x, r)' = Position(x, StartTime(q, now), EndTime(q, now), q.asc)
      BY <1>3 DEF Place, Position, Before, Matching
    <3> QED
      BY <1>3, <3>1, <3>2
  <2> QED
    BY <1>3, <2>1 DEF WalkKnows
<1>6. ASSUME NEW s \in Reader \ {r} PROVE QueryKnows(s)' /\ WalkKnows(s)'
  <2>1. /\ pc'[s] = pc[s] /\ req'[s] = req[s] /\ off'[s] = off[s] /\ lo'[s] = lo[s]
        /\ hi'[s] = hi[s] /\ page'[s] = page[s] /\ total'[s] = total[s]
        /\ more'[s] = more[s]
    BY <1>1, AskFacts
  <2> QED
    BY <1>2, <1>3, <2>1, Unmoved DEF Safe
<1> QED
  BY <1>4, <1>5, <1>6 DEF Safe

\* The reader goes on, or tries again: its range may have moved on, but never
\* over a row that comes before one it is owed.
LEMMA OnwardSafe ==
  ASSUME Safe, TypeOK', NEW r \in Reader, NextPage(r) \/ Retry(r)
  PROVE  Safe'
<1>1. /\ TypeOK /\ QueryKnows(r) /\ WalkKnows(r) /\ req[r] \in Requests /\ off[r] \in Int
      /\ PageSize(req[r]) \in Int
  BY RequestFacts DEF Safe, TypeOK
<1>2. PICK p \in Int :
        /\ Ask(r, req[r], p)
        /\ p = off[r] \/ (p = off[r] + PageSize(req[r]) /\ pc[r] = "page")
  BY <1>1 DEF NextPage, Retry
<1>3. /\ req'[r] = req[r] /\ off'[r] = p /\ page'[r] = {} /\ UNCHANGED <<now, rows>>
      /\ lo'[r] = StartTime(req[r], now) /\ hi'[r] = EndTime(req[r], now)
      /\ pc'[r] \in {"refused", "failed", "points"}
      /\ pc'[r] = "points" => ValidRequest(req[r]) /\ p >= 0
      /\ RangeKnows(r)'
  BY <1>1, <1>2, AskFacts
<1>4. UNCHANGED <<got, base>> /\ RangeKnows(r) /\ pc[r] \in {"page", "failed"}
  BY <1>1 DEF NextPage, Retry, QueryKnows
<1>5. /\ now \in Int /\ lo[r] \in Int /\ hi[r] \in Int /\ Day \in Nat /\ Keep \in Nat
      /\ req[r].start \in Nat /\ req[r].end \in Nat /\ req[r].asc \in BOOLEAN
  BY <1>1, RequestFacts, QueryAssumption DEF TypeOK, Times
<1>6. /\ hi[r] <= hi'[r] /\ lo[r] <= lo'[r]
      /\ req[r].start # 0 \/ req[r].end # 0 => lo'[r] = lo[r]
  BY <1>3, <1>4, <1>5 DEF RangeKnows, StartTime, EndTime
<1>7. QueryKnows(r)'
  <2>1. base'[r] \subseteq {x \in rows' : x <= hi'[r]}
    <3>1. ASSUME NEW x \in base[r] PROVE x \in rows /\ x <= hi[r] /\ x \in Int
      BY <1>1, <3>1 DEF QueryKnows, TypeOK, Times
    <3> QED
      BY <1>3, <1>4, <1>5, <1>6, <3>1 DEF TypeOK
  <2> QED
    BY <1>3, <2>1 DEF QueryKnows
<1>8. WalkKnows(r)'
  <2> SUFFICES ASSUME Steady(r)', NEW x \in Owed(r)' PROVE Place(x, r)' >= off'[r]
    BY <1>3 DEF WalkKnows
  <2>1. Steady(r)
    BY <1>3, <1>5, <1>6 DEF Steady
  <2>2. x \in base[r] /\ x \in Times /\ lo'[r] <= x /\ x <= hi[r] /\ x \notin got[r]
    BY <1>1, <1>4 DEF Owed, QueryKnows, TypeOK
  <2>3. x \in Owed(r)
    BY <1>5, <1>6, <2>2 DEF Owed, Times, TypeOK
  <2>4. Place(x, r) >= p
    <3>1. Place(x, r) >= off[r]
      BY <1>1, <2>1, <2>3 DEF WalkKnows
    <3>2. pc[r] = "page" => Place(x, r) >= off[r] + PageSize(req[r])
      BY <1>1, <2>1, <2>3 DEF WalkKnows, BehindPage, QueryKnows
    <3> QED
      BY <1>2, <3>1, <3>2
  <2>5. Ahead(x, r) \subseteq Ahead(x, r)'
    <3>1. lo'[r] \in Int /\ hi'[r] \in Int
      BY DEF TypeOK
    <3>2. ASSUME NEW y \in Ahead(x, r) PROVE y \in Ahead(x, r)'
      <4>1. y \in rows /\ y \in Times /\ lo[r] <= y /\ y <= hi[r]
        BY <1>1, <3>2 DEF Ahead, Before, Matching, TypeOK
      <4>2. CASE req[r].asc
        <5>1. lo'[r] = lo[r] /\ y < x
          BY <1>3, <1>6, <2>1, <3>2, <4>2 DEF Steady, Ahead, Before
        <5> QED
          BY <1>3, <1>5, <1>6, <2>2, <3>1, <4>1, <4>2, <5>1 DEF Ahead, Before, Matching, Times
      <4>3. CASE ~req[r].asc
        <5>1. x < y
          BY <3>2, <4>3 DEF Ahead, Before
        <5> QED
          BY <1>3, <1>5, <1>6, <2>2, <3>1, <4>1, <4>3, <5>1 DEF Ahead, Before, Matching, Times
      <4> QED
        BY <4>2, <4>3
    <3> QED
      BY <3>2
  <2>6. Place(x, r) \in Nat /\ Place(x, r)' \in Nat /\ Place(x, r) <= Place(x, r)'
    BY <1>1, <2>5, PlaceGrows
  <2> QED
    BY <1>3, <2>4, <2>6
<1>9. ASSUME NEW s \in Reader \ {r} PROVE QueryKnows(s)' /\ WalkKnows(s)'
  <2>1. /\ pc'[s] = pc[s] /\ req'[s] = req[s] /\ off'[s] = off[s] /\ lo'[s] = lo[s]
        /\ hi'[s] = hi[s] /\ page'[s] = page[s] /\ total'[s] = total[s]
        /\ more'[s] = more[s]
    BY <1>1, <1>2, AskFacts
  <2> QED
    BY <1>3, <1>4, <2>1, Unmoved DEF Safe
<1> QED
  BY <1>7, <1>8, <1>9 DEF Safe

\* The page is read: it is not empty as long as something is owed.
LEMMA ReadSafe ==
  ASSUME TypeOK, NEW r \in Reader, QueryKnows(r), WalkKnows(r), ReadPoints(r)
  PROVE  QueryKnows(r)' /\ WalkKnows(r)'
<1> DEFINE n == PageSize(req[r])
           P == Select(lo[r], hi[r], off[r], n, req[r].asc)
<1>1. /\ page'[r] = P /\ pc[r] = "points" /\ pc'[r] = "count"
      /\ UNCHANGED <<now, rows, req, off, lo, hi, got, base>>
  BY DEF ReadPoints, TypeOK
<1>2. QueryKnows(r)'
  BY <1>1 DEF QueryKnows, RangeKnows
<1>3. /\ off[r] \in Nat /\ n \in 1..MaxLimit /\ MaxLimit \in Nat
      /\ lo[r] \in Int /\ hi[r] \in Int /\ req[r].asc \in BOOLEAN
  BY <1>1, RequestFacts, QueryAssumption DEF QueryKnows, ValidRequest, TypeOK
<1>4. Steady(r)' = Steady(r) /\ Owed(r)' = Owed(r)
  BY <1>1 DEF Steady, Owed
<1>5. \A x : Place(x, r)' = Place(x, r)
  BY <1>1 DEF Place, Position, Before, Matching
<1>6. ASSUME Steady(r), NEW x \in Owed(r)
      PROVE  /\ Place(x, r) >= off[r]
             /\ x \notin P => Place(x, r) >= off[r] + n /\ P # {}
  <2>1. Place(x, r) >= off[r]
    BY <1>6 DEF WalkKnows
  <2>2. x \in Matching(lo[r], hi[r])
    BY <1>6 DEF Owed, QueryKnows, Matching
  <2>3. Place(x, r) \in Nat
    BY BeforeFacts DEF Place
  <2>4. x \notin P => Place(x, r) >= off[r] + n
    BY <1>3, <2>1, <2>2, <2>3 DEF Place, Select
  <2>5. PICK y \in Matching(lo[r], hi[r]) : Position(y, lo[r], hi[r], req[r].asc) = off[r]
    BY <1>3, <2>1, <2>2, PlaceTaken DEF Place
  <2>6. y \in P
    BY <1>3, <2>5 DEF Select
  <2> QED
    BY <2>1, <2>4, <2>6
<1>7. WalkKnows(r)'
  <2> SUFFICES ASSUME Steady(r)', NEW x \in Owed(r)'
               PROVE  Place(x, r)' >= off'[r] /\ (x \notin page'[r] => BehindPage(x, r)')
    BY DEF WalkKnows
  <2>1. /\ Place(x, r)' >= off'[r]
        /\ x \notin page'[r] => Place(x, r)' >= off'[r] + PageSize(req'[r]) /\ page'[r] # {}
    BY <1>1, <1>4, <1>5, <1>6
  <2> QED
    BY <1>1, <2>1 DEF BehindPage
<1> QED
  BY <1>2, <1>7

\* The rows are counted after the page was read, so a row behind the page counts.
LEMMA CountSafe ==
  ASSUME TypeOK, NEW r \in Reader, QueryKnows(r), WalkKnows(r), CountPoints(r)
  PROVE  QueryKnows(r)' /\ WalkKnows(r)'
<1> DEFINE n == PageSize(req[r])
           c == Cardinality(Matching(lo[r], hi[r]))
<1>1. /\ total'[r] = c /\ pc[r] = "count" /\ pc'[r] = "send"
      /\ UNCHANGED <<now, rows, req, off, lo, hi, page, more, got, base>>
  BY DEF CountPoints, TypeOK
<1>2. QueryKnows(r)'
  BY <1>1 DEF QueryKnows, RangeKnows
<1>3. /\ off[r] \in Nat /\ n \in 1..MaxLimit /\ MaxLimit \in Nat /\ IntMax \in Nat
      /\ MaxTime \in Nat /\ MaxTime + MaxLimit <= IntMax
      /\ lo[r] \in Int /\ hi[r] \in Int /\ req[r].asc \in BOOLEAN
  BY <1>1, RequestFacts, QueryAssumption DEF QueryKnows, ValidRequest, TypeOK
<1>4. Steady(r)' = Steady(r) /\ Owed(r)' = Owed(r)
  BY <1>1 DEF Steady, Owed
<1>5. \A x : Place(x, r)' = Place(x, r)
  BY <1>1 DEF Place, Position, Before, Matching
<1>6. ASSUME Steady(r), NEW x \in Owed(r), x \notin page[r]
      PROVE  Place(x, r) >= off[r] + n /\ page[r] # {} /\ HasMore(off[r], n, c)
  <2>1. Place(x, r) >= off[r] + n /\ page[r] # {}
    BY <1>1, <1>6 DEF WalkKnows, BehindPage
  <2>2. x \in Matching(lo[r], hi[r])
    BY <1>6 DEF Owed, QueryKnows, Matching
  <2>3. c \in Nat /\ c <= MaxTime /\ Place(x, r) < c
    BY <1>3, <2>2, PlaceBelowTotal DEF Place
  <2>4. Place(x, r) \in Nat
    BY BeforeFacts DEF Place
  <2>5. off[r] + n \in Nat /\ off[r] + n < c /\ off[r] + n <= IntMax /\ c <= IntMax
    BY <1>3, <2>1, <2>3, <2>4
  <2>6. Int32(off[r] + n) = off[r] + n /\ Int32(c) = c
    BY <1>3, <2>3, <2>5 DEF Int32
  <2> QED
    BY <2>1, <2>5, <2>6 DEF HasMore
<1>7. WalkKnows(r)'
  <2> SUFFICES ASSUME Steady(r)', NEW x \in Owed(r)'
               PROVE  Place(x, r)' >= off'[r] /\ (x \notin page'[r] => BehindPage(x, r)')
    BY DEF WalkKnows
  <2>1. Place(x, r)' >= off'[r]
    BY <1>1, <1>4, <1>5 DEF WalkKnows
  <2>2. x \notin page'[r] => /\ Place(x, r)' >= off'[r] + PageSize(req'[r]) /\ page'[r] # {}
                             /\ HasMore(off'[r], PageSize(req'[r]), total'[r])
    BY <1>1, <1>4, <1>5, <1>6
  <2> QED
    BY <1>1, <2>1, <2>2 DEF BehindPage, HasMore, Int32
<1> QED
  BY <1>2, <1>7

\* Every message of the stream repeats has_more.
LEMMA SendSafe ==
  ASSUME TypeOK, NEW r \in Reader, QueryKnows(r), WalkKnows(r), Send(r)
  PROVE  QueryKnows(r)' /\ WalkKnows(r)'
<1> DEFINE h == HasMore(off[r], PageSize(req[r]), total[r])
<1>1. PICK z \in page[r] : page'[r] = page[r] \ {z} /\ got'[r] = got[r] \cup {z}
  BY DEF Send, TypeOK
<1>2. /\ pc[r] = "send" /\ more'[r] = h
      /\ UNCHANGED <<now, rows, pc, req, off, lo, hi, total, base>>
  BY DEF Send, TypeOK
<1>3. QueryKnows(r)'
  BY <1>2 DEF QueryKnows, RangeKnows
<1>4. Steady(r)' = Steady(r) /\ Owed(r)' \subseteq Owed(r) \ {z}
  BY <1>1, <1>2 DEF Steady, Owed
<1>5. \A x : Place(x, r)' = Place(x, r)
  BY <1>2 DEF Place, Position, Before, Matching
<1>6. HasMore(off[r], PageSize(req[r]), total[r])' = h
  BY <1>2 DEF HasMore, Int32
<1> HIDE DEF h
<1>7. WalkKnows(r)'
  <2> SUFFICES ASSUME Steady(r)', NEW x \in Owed(r)'
               PROVE  Place(x, r)' >= off'[r] /\ (x \notin page'[r] => BehindPage(x, r)')
    BY DEF WalkKnows
  <2>1. Place(x, r)' >= off'[r]
    BY <1>2, <1>4, <1>5 DEF WalkKnows
  <2>2. ASSUME x \notin page'[r] PROVE Place(x, r) >= off[r] + PageSize(req[r]) /\ h
    BY <1>1, <1>2, <1>4, <2>2 DEF WalkKnows, BehindPage, h
  <2> QED
    BY <1>2, <1>5, <1>6, <2>1, <2>2 DEF BehindPage
<1> QED
  BY <1>3, <1>7

\* The stream ends, with its last point or with an error.
LEMMA EndSafe ==
  ASSUME TypeOK, NEW r \in Reader, QueryKnows(r), WalkKnows(r), EndOfPage(r) \/ QueryFails(r)
  PROVE  QueryKnows(r)' /\ WalkKnows(r)'
<1>1. UNCHANGED <<now, rows, req, off, lo, hi, page, total, more, got, base>>
  BY DEF EndOfPage, QueryFails
<1>2. \/ pc[r] = "send" /\ pc'[r] = "page" /\ page[r] = {}
      \/ pc[r] \in {"points", "count", "send"} /\ pc'[r] = "failed"
  BY DEF EndOfPage, QueryFails, TypeOK
<1>3. QueryKnows(r)'
  BY <1>1, <1>2 DEF QueryKnows, RangeKnows
<1>4. Steady(r)' = Steady(r) /\ Owed(r)' = Owed(r)
  BY <1>1 DEF Steady, Owed
<1>5. \A x : Place(x, r)' = Place(x, r)
  BY <1>1 DEF Place, Position, Before, Matching
<1>6. WalkKnows(r)'
  <2> SUFFICES ASSUME Steady(r)', NEW x \in Owed(r)'
               PROVE  /\ Place(x, r)' >= off'[r]
                      /\ pc'[r] = "page" /\ x \notin page'[r] => BehindPage(x, r)'
    BY <1>2 DEF WalkKnows
  <2>1. Place(x, r)' >= off'[r]
    BY <1>1, <1>4, <1>5 DEF WalkKnows
  <2>2. pc'[r] = "page" /\ x \notin page'[r] => BehindPage(x, r)'
    BY <1>1, <1>2, <1>4, <1>5 DEF WalkKnows, BehindPage
  <2> QED
    BY <2>1, <2>2
<1> QED
  BY <1>3, <1>6

\* A step of one reader's query leaves the others alone.
LEMMA StepSafe ==
  ASSUME Safe, TypeOK', NEW r \in Reader, QueryStep(r)
  PROVE  Safe'
<1>1. TypeOK /\ QueryKnows(r) /\ WalkKnows(r)
  BY DEF Safe
<1>2. QueryKnows(r)' /\ WalkKnows(r)'
  BY <1>1, ReadSafe, CountSafe, SendSafe, EndSafe DEF QueryStep
<1>3. ASSUME NEW s \in Reader \ {r} PROVE QueryKnows(s)' /\ WalkKnows(s)'
  <2>1. /\ pc'[s] = pc[s] /\ req'[s] = req[s] /\ off'[s] = off[s] /\ lo'[s] = lo[s]
        /\ hi'[s] = hi[s] /\ page'[s] = page[s] /\ total'[s] = total[s]
        /\ more'[s] = more[s] /\ got'[s] = got[s] /\ base'[s] = base[s]
        /\ UNCHANGED <<now, rows>>
    BY <1>1 DEF QueryStep, ReadPoints, CountPoints, Send, EndOfPage, QueryFails, TypeOK
  <2> QED
    BY <2>1, Unmoved DEF Safe
<1> QED
  BY <1>2, <1>3 DEF Safe

-----------------------------------------------------------------------------
\* Safe is an invariant of the read side.
THEOREM SafeInvariant == Spec => []Safe
<1>1. Init => Safe
  <2> SUFFICES ASSUME Init, NEW r \in Reader PROVE QueryKnows(r) /\ WalkKnows(r)
    BY InitType DEF Safe
  <2>1. pc[r] = "idle" /\ base[r] = {}
    BY DEF Init
  <2> QED
    BY <2>1 DEF QueryKnows, WalkKnows, Owed
<1>2. ASSUME Safe, [Next]_vars PROVE Safe'
  <2>1. TypeOK'
    BY <1>2, NextType DEF Safe
  <2>2. CASE UNCHANGED vars
    BY <1>2, <2>1, <2>2, Unmoved DEF Safe, vars, query
  <2>3. ASSUME NEW r \in Reader, QueryStep(r) \/ NextPage(r) \/ Retry(r) PROVE Safe'
    BY <1>2, <2>1, <2>3, StepSafe, OnwardSafe
  <2>4. ASSUME NEW r \in Reader, NEW q \in Requests, FirstPage(r, q) PROVE Safe'
    BY <1>2, <2>1, <2>4, FirstPageSafe
  <2>5. ASSUME NEW r \in Reader, NEW q \in Requests, GetMetricStats(r, q) \/ GetAggregations(r, q)
        PROVE  Safe'
    <3>1. UNCHANGED <<now, rows, pc, req, off, lo, hi, page, total, more, got, base>>
      BY <2>5 DEF GetMetricStats, GetAggregations, query
    <3> QED
      BY <1>2, <2>1, <3>1, Unmoved DEF Safe
  <2>6. CASE (\E x \in Times : Store(x) \/ DropChunks(x)) \/ Tick
    BY <1>2, <2>1, <2>6, TableSafe
  <2> QED
    BY <1>2, <2>2, <2>3, <2>4, <2>5, <2>6 DEF Next
<1> QED
  BY <1>1, <1>2, PTL DEF Spec

\* The variables keep their types, and a page lies in the range of its query.
THEOREM TypeCorrect == Spec => []TypeOK
<1>1. Safe => TypeOK
  BY DEF Safe
<1> QED
  BY <1>1, SafeInvariant, PTL

\* A reader that follows has_more to its end has missed nothing.
THEOREM Paging == Spec => []PagesMissNothing
<1>1. Safe => PagesMissNothing
  BY DEF Safe, PagesMissNothing, WalkKnows, QueryKnows, BehindPage
<1> QED
  BY <1>1, SafeInvariant, PTL

=============================================================================
