--------------------------- MODULE MCMetricQueries ---------------------------
(***************************************************************************)
(* A small instance of MetricQueries.                                      *)
(***************************************************************************)
EXTENDS MetricQueries

Query(ok, start, end, limit, offset, asc) ==
  [ok |-> ok, start |-> start, end |-> end, limit |-> limit, offset |-> offset, asc |-> asc]

\* Both orders over a fixed range and over one that slides, the default limit,
\* an offset of the reader's own and one that is too large for an int32 sum;
\* requests that either validation refuses.
SomeRequests ==
  {Query(TRUE, 2, 4, 1, 0, asc) : asc \in BOOLEAN}
    \cup {Query(TRUE, 0, 0, 0, 0, asc) : asc \in BOOLEAN}
    \cup {Query(TRUE, 0, 4, 2, 1, TRUE), Query(TRUE, 1, 0, 1, IntMax, FALSE),
          Query(FALSE, 1, 4, 1, 0, TRUE), Query(TRUE, 3, 2, 1, 0, TRUE),
          Query(TRUE, 1, 4, 1, -1, TRUE)}
=============================================================================
