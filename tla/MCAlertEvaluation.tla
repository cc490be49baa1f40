-------------------------- MODULE MCAlertEvaluation --------------------------
(***************************************************************************)
(* Small instances of AlertEvaluation.                                     *)
(***************************************************************************)
EXTENDS AlertEvaluation, TLC

T(m, type, lo, hi, pct, on) ==
  {[dev |-> d, metric |-> m, type |-> type, lo |-> lo, hi |-> hi, pct |-> pct, on |-> on]
     : d \in Device}

AnyMetric == CHOOSE m \in Metric : TRUE

HighEverywhere == UNION {T(m, "HIGH", 0, 5, 0, TRUE) : m \in Metric}

\* Two thresholds that the same value violates.
HighAndRange == HighEverywhere \cup T(AnyMetric, "RANGE", 1, 5, 0, TRUE)

\* One of every type, a RANGE that is not proper and a change of 100 percent.
EveryKind ==
  T(AnyMetric, "HIGH", 0, 5, 0, TRUE) \cup T(AnyMetric, "LOW", 3, 0, 0, FALSE)
    \cup T(AnyMetric, "RANGE", 5, 5, 0, TRUE) \cup T(AnyMetric, "RANGE", 2, 5, 0, TRUE)
    \cup T(AnyMetric, "CHANGE", 0, 0, 100, TRUE) \cup T(AnyMetric, "CHANGE", 0, 0, 50, TRUE)

\* A change, and a second limit where there is one.
ChangeOrHigh == T(AnyMetric, "CHANGE", 0, 0, 50, TRUE) \cup T(AnyMetric, "HIGH", 0, 4, 0, TRUE)

\* Enable a threshold.
Enable == {[lo |-> 0, hi |-> 0, pct |-> 0, on |-> TRUE]}

Symmetry == Permutations(Eval)
=============================================================================
