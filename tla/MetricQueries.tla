---------------------------- MODULE MetricQueries ----------------------------
(***************************************************************************)
(* The read side of the telemetry service: QueryMetrics, which streams one *)
(* page of the points of a device's metric and says whether there are more *)
(* of them, GetMetricStats and GetAggregations, while points are stored    *)
(* and old ones dropped.  A reader follows has_more from page to page, and *)
(* asks for a page again when it failed.                                   *)
(*                                                                         *)
(* Every query names one device and one metric, so the table is that of    *)
(* one series.  Its primary key leaves one row for a time: a row is its    *)
(* time.  Time 0 stands for a timestamp that is not given.                 *)
(***************************************************************************)
EXTENDS Integers, FiniteSets

CONSTANTS
  Reader,       \* clients of the service, each with one query at a time
  Requests,     \* what they may ask
  DefaultLimit, \* the page size of a request that names none
  MaxLimit,     \* maxQueryLimit
  Day,          \* the range of a request that gives no start
  Keep,         \* the retention period
  IntMax,       \* the largest int32
  MaxTime       \* bound on the clock

Times == 1..MaxTime

\* ok: device and metric are named.
Request == [ok : BOOLEAN, start : Nat, end : Nat, limit : Int, offset : Int, asc : BOOLEAN]

ASSUME QueryAssumption ==
  /\ Requests \subseteq Request
  /\ DefaultLimit \in Nat \ {0} /\ MaxLimit \in Nat /\ DefaultLimit <= MaxLimit
  /\ Day \in Nat /\ Keep \in Nat /\ MaxTime \in Nat \ {0}
  /\ IntMax \in Nat /\ MaxTime + MaxLimit <= IntMax

VARIABLES
  now,   \* time.Now
  rows,  \* the metrics table
  pc,    \* where the query of a reader is
  req,   \* its request
  off,   \* the offset of the page
  lo,    \* the range, with its defaults ...
  hi,    \* ... in place
  page,  \* the rows that QueryMetrics read and that are still to be sent
  total, \* what QueryMetricsCount read
  more,  \* has_more of the last message of the stream, FALSE without one
  got,   \* history: what the reader received since its first page ...
  base,  \* ... and what it was to receive: the rows since then that were not dropped
  stats  \* the answer of GetMetricStats or GetAggregations

query == <<pc, req, off, lo, hi, page, total, more, got, base>>
vars == <<now, rows, query, stats>>

-----------------------------------------------------------------------------
(* The requests. *)

PageSize(q) == IF q.limit = 0 THEN DefaultLimit ELSE q.limit

\* validateQueryRequest.
ValidRequest(q) ==
  /\ q.ok
  /\ ~(q.start # 0 /\ q.end # 0 /\ q.end < q.start)
  /\ PageSize(q) \in 1..MaxLimit

\* The defaults of the range: up to now, and from a day before its end.
EndTime(q, t) == IF q.end # 0 THEN q.end ELSE t

StartTime(q, t) == IF q.start # 0 THEN q.start ELSE EndTime(q, t) - Day

\* validateQueryFilter.
ValidFilter(from, to, o) == from <= to /\ o >= 0

\* A conversion to int32.
Int32(n) ==
  IF n \in -(IntMax + 1)..IntMax
    THEN n ELSE ((n + IntMax + 1) % (2 * (IntMax + 1))) - (IntMax + 1)

-----------------------------------------------------------------------------
(* The statements. *)

\* Mutant: the end of the range is left out.
MatchingOpen(from, to) == {x \in rows : from <= x}

Matching(from, to) == {x \in rows : from <= x /\ x <= to}

\* The rows that ORDER BY puts before x.
Before(x, from, to, asc) ==
  {y \in Matching(from, to) : IF asc THEN y < x ELSE x < y}

Position(x, from, to, asc) == Cardinality(Before(x, from, to, asc))

\* ORDER BY time LIMIT n OFFSET o.
Select(from, to, o, n, asc) ==
  {x \in Matching(from, to) : Position(x, from, to, asc) \in o..(o + n - 1)}

\* Mutant: the page after the next one is looked at.
HasMoreLess(o, n, count) == Int32(o + n + 1) < Int32(count)

HasMore(o, n, count) == Int32(o + n) < Int32(count)

\* The row that is sent next.
IsFirst(x, S, asc) == \A y \in S : IF asc THEN x <= y ELSE y <= x

-----------------------------------------------------------------------------
Init ==
  /\ now = 1
  /\ rows = {}
  /\ pc = [r \in Reader |-> "idle"]
  /\ req \in [Reader -> Requests]
  /\ off = [r \in Reader |-> 0]
  /\ lo = [r \in Reader |-> 0] /\ hi = [r \in Reader |-> 0]
  /\ page = [r \in Reader |-> {}]
  /\ total = [r \in Reader |-> 0]
  /\ more = [r \in Reader |-> FALSE]
  /\ got = [r \in Reader |-> {}] /\ base = [r \in Reader |-> {}]
  /\ stats = [r \in Reader |-> "none"]

\* QueryMetrics up to its first statement.
Ask(r, q, o) ==
  /\ req' = [req EXCEPT ![r] = q]
  /\ off' = [off EXCEPT ![r] = o]
  /\ lo' = [lo EXCEPT ![r] = StartTime(q, now)]
  /\ hi' = [hi EXCEPT ![r] = EndTime(q, now)]
  /\ pc' = [pc EXCEPT ![r] =
       IF ~ValidRequest(q) THEN "refused"
       ELSE IF ValidFilter(StartTime(q, now), EndTime(q, now), o) THEN "points"
       ELSE "failed"]
  /\ page' = [page EXCEPT ![r] = {}]
  /\ more' = [more EXCEPT ![r] = FALSE]
  /\ UNCHANGED <<now, rows, total, stats>>

AtRest(r) == pc[r] \in {"idle", "page", "refused", "failed"}

\* The reader begins, at any offset, ...
FirstPage(r, q) ==
  /\ AtRest(r)
  /\ Ask(r, q, q.offset)
  /\ got' = [got EXCEPT ![r] = {}]
  /\ base' = [base EXCEPT ![r] =
       {x \in Matching(StartTime(q, now), EndTime(q, now)) :
          Position(x, StartTime(q, now), EndTime(q, now), q.asc) >= q.offset}]

\* ... goes on to the next page, or asks for a page again.
NextPage(r) ==
  /\ pc[r] = "page" /\ more[r]
  /\ Ask(r, req[r], off[r] + PageSize(req[r]))
  /\ UNCHANGED <<got, base>>

Retry(r) ==
  /\ pc[r] = "failed"
  /\ Ask(r, req[r], off[r])
  /\ UNCHANGED <<got, base>>

ReadPoints(r) ==
  /\ pc[r] = "points"
  /\ page' = [page EXCEPT ![r] =
       Select(lo[r], hi[r], off[r], PageSize(req[r]), req[r].asc)]
  /\ pc' = [pc EXCEPT ![r] = "count"]
  /\ UNCHANGED <<now, rows, req, off, lo, hi, total, more, got, base, stats>>

CountPoints(r) ==
  /\ pc[r] = "count"
  /\ total' = [total EXCEPT ![r] = Cardinality(Matching(lo[r], hi[r]))]
  /\ pc' = [pc EXCEPT ![r] = "send"]
  /\ UNCHANGED <<now, rows, req, off, lo, hi, page, more, got, base, stats>>

\* One message for each point.
Send(r) ==
  /\ pc[r] = "send"
  /\ \E x \in page[r] :
       /\ IsFirst(x, page[r], req[r].asc)
       /\ page' = [page EXCEPT ![r] = @ \ {x}]
       /\ got' = [got EXCEPT ![r] = @ \cup {x}]
  /\ more' = [more EXCEPT ![r] = HasMore(off[r], PageSize(req[r]), total[r])]
  /\ UNCHANGED <<now, rows, pc, req, off, lo, hi, total, base, stats>>

EndOfPage(r) ==
  /\ pc[r] = "send" /\ page[r] = {}
  /\ pc' = [pc EXCEPT ![r] = "page"]
  /\ UNCHANGED <<now, rows, req, off, lo, hi, page, total, more, got, base, stats>>

\* A statement or a Send fails.
QueryFails(r) ==
  /\ pc[r] \in {"points", "count"} \/ (pc[r] = "send" /\ page[r] # {})
  /\ pc' = [pc EXCEPT ![r] = "failed"]
  /\ UNCHANGED <<now, rows, req, off, lo, hi, page, total, more, got, base, stats>>

-----------------------------------------------------------------------------
(* The other two queries: one statement each. *)

\* validateStatsRequest.
ValidStats(q) == q.ok

\* The range excludes its end, a time that is not given is 1970, and a range
\* without a row is an error.
StatsAnswers(q) ==
  {"error"} \cup {"stats" : x \in {y \in rows : q.start <= y /\ y < q.end}}

GetMetricStats(r, q) ==
  /\ AtRest(r)
  /\ \E a \in IF ValidStats(q) THEN StatsAnswers(q) ELSE {"invalid"} :
       stats' = [stats EXCEPT ![r] = a]
  /\ UNCHANGED <<now, rows, query>>

\* validateAggregationRequest; ok: the window is given as well.
ValidAggregation(q) == q.ok /\ ~(q.start # 0 /\ q.end # 0 /\ q.end < q.start)

\* The statement names bucket beside COUNT(*) without a GROUP BY, which
\* PostgreSQL refuses ...
Aggregate(q) == "error"

\* ... before GetAggregations fills the cache that it looks at first, so that it
\* never finds anything there.
GetAggregations(r, q) ==
  /\ AtRest(r)
  /\ stats' = [stats EXCEPT ![r] = IF ValidAggregation(q) THEN Aggregate(q) ELSE "invalid"]
  /\ UNCHANGED <<now, rows, query>>

-----------------------------------------------------------------------------
(* The table. *)

\* A point is stored; devices send late ones, and ones they sent before.
Store(x) ==
  /\ rows' = rows \cup {x}
  /\ UNCHANGED <<now, query, stats>>

\* The retention policy drops the oldest chunks.
DropChunks(t) ==
  /\ t <= now - Keep
  /\ rows' = {x \in rows : x >= t}
  /\ base' = [r \in Reader |-> {x \in base[r] : x >= t}]
  /\ UNCHANGED <<now, pc, req, off, lo, hi, page, total, more, got, stats>>

Tick ==
  /\ now < MaxTime
  /\ now' = now + 1
  /\ UNCHANGED <<rows, query, stats>>

QueryStep(r) ==
  ReadPoints(r) \/ CountPoints(r) \/ Send(r) \/ EndOfPage(r) \/ QueryFails(r)

Next ==
  \/ \E r \in Reader :
       \/ QueryStep(r) \/ NextPage(r) \/ Retry(r)
       \/ \E q \in Requests : FirstPage(r, q) \/ GetMetricStats(r, q) \/ GetAggregations(r, q)
  \/ \E x \in Times : Store(x) \/ DropChunks(x)
  \/ Tick

Spec == Init /\ [][Next]_vars

-----------------------------------------------------------------------------
(* Properties. *)

\* Every variable has its type; a page lies in the range of its query.
TypeOK ==
  /\ now \in Times
  /\ rows \subseteq Times
  /\ pc \in [Reader -> {"idle", "points", "count", "send", "page", "refused", "failed"}]
  /\ req \in [Reader -> Requests]
  /\ off \in [Reader -> Int] /\ lo \in [Reader -> Int] /\ hi \in [Reader -> Int]
  /\ page \in [Reader -> SUBSET Times]
  /\ \A r \in Reader : \A x \in page[r] : lo[r] <= x /\ x <= hi[r]
  /\ total \in [Reader -> Nat]
  /\ more \in [Reader -> BOOLEAN]
  /\ got \in [Reader -> SUBSET Times] /\ base \in [Reader -> SUBSET Times]
  /\ stats \in [Reader -> {"none", "invalid", "error", "stats"}]

\* No stored point can leave the front of the reader's range: newest first, the
\* ones before it only grow; oldest first, the range must stand still and begin
\* after what the retention policy may drop.
Steady(r) ==
  req[r].asc => /\ req[r].start # 0 \/ req[r].end # 0
                /\ lo[r] >= now - Keep

\* What the reader was to receive, did not, and could still receive.
Owed(r) == {x \in base[r] : lo[r] <= x} \ got[r]

\* A reader that follows has_more until it is false, or until a page is empty,
\* has received every point that its range held from then on to its last page,
\* although every page has its own offset into a table that grows, shrinks and
\* has a new range, although pages fail and are repeated, and although points
\* and their number are read by two statements.
PagesMissNothing ==
  \A r \in Reader : pc[r] = "page" /\ ~more[r] /\ Steady(r) => Owed(r) = {}

-----------------------------------------------------------------------------
(* The inductive invariant behind PagesMissNothing. *)

\* What Ask made of the request; a range without an end of its own ends by now.
RangeKnows(r) ==
  /\ req[r].end # 0 => hi[r] = req[r].end
  /\ req[r].end = 0 => hi[r] <= now
  /\ req[r].start # 0 => lo[r] = req[r].start
  /\ req[r].start = 0 => lo[r] = hi[r] - Day

\* A query that reached its statements was valid.
QueryKnows(r) ==
  /\ pc[r] \in {"points", "count", "send", "page"} => ValidRequest(req[r]) /\ off[r] >= 0
  /\ pc[r] = "page" => page[r] = {}
  /\ base[r] \subseteq {x \in rows : x <= hi[r]}
  /\ pc[r] # "idle" => RangeKnows(r)
  /\ pc[r] = "idle" => base[r] = {}

Place(x, r) == Position(x, lo[r], hi[r], req[r].asc)

\* A row that is owed and not on the page is behind the page, and the reader is
\* told, or will be, that there is more.
BehindPage(x, r) ==
  /\ Place(x, r) >= off[r] + PageSize(req[r])
  /\ pc[r] = "count" => page[r] # {}
  /\ pc[r] = "send" => /\ HasMore(off[r], PageSize(req[r]), total[r])
                       /\ page[r] # {} \/ more[r]
  /\ pc[r] = "page" => more[r]

WalkKnows(r) ==
  Steady(r) => \A x \in Owed(r) :
    /\ Place(x, r) >= off[r]
    /\ pc[r] \in {"count", "send", "page"} /\ x \notin page[r] => BehindPage(x, r)

Safe == TypeOK /\ \A r \in Reader : QueryKnows(r) /\ WalkKnows(r)
=============================================================================
