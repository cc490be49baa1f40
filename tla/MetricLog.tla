------------------------------ MODULE MetricLog ------------------------------
(***************************************************************************)
(* What the ingest path promises its callers, without saying how: a log of *)
(* (device, second) entries and a verdict on every request.  A request     *)
(* writes all of its entries at one instant or none of them, a key is      *)
(* written once unless its guard was excused, "stored" is said of what is  *)
(* in the log, and "refused" of what is not there and will never be.       *)
(* "failed" promises nothing: the entries may be there, or come later.     *)
(*                                                                         *)
(* TelemetryIngest implements this specification (ImplementsLog).          *)
(***************************************************************************)

CONSTANTS
  Request,  \* the calls of SubmitMetric and SubmitBatch
  Key       \* what deduplication tells apart: a device and a second

VARIABLES
  log,      \* the entries: which request wrote which key
  verdict,  \* what each request was told
  excused   \* the keys whose guard expired or was bypassed

logVars == <<log, verdict, excused>>

Verdict == {"open", "stored", "refused", "failed"}

Wrote(r) == \E e \in log : e.by = r

Holds(k) == \E e \in log : e.key = k

Init == log = {} /\ verdict = [r \in Request |-> "open"] /\ excused = {}

\* The entries of r appear together, each under a key that is free or excused.
Write(r) ==
  /\ verdict[r] # "refused" /\ ~Wrote(r)
  /\ log \subseteq log' /\ log' # log
  /\ \A e \in log' \ log :
       /\ e.by = r /\ e.key \in Key
       /\ e.key \in excused \/ ~Holds(e.key)
  /\ UNCHANGED <<verdict, excused>>

\* An excused key may hold the entry of another request in its place.
Confirm(r) ==
  /\ verdict[r] = "open"
  /\ Wrote(r) \/ \E k \in excused : Holds(k)
  /\ verdict' = [verdict EXCEPT ![r] = "stored"]
  /\ UNCHANGED <<log, excused>>

Refuse(r) ==
  /\ verdict[r] = "open" /\ ~Wrote(r)
  /\ verdict' = [verdict EXCEPT ![r] = "refused"]
  /\ UNCHANGED <<log, excused>>

\* Calls that end without a result; a restart ends all that are open.
Fail(R) ==
  /\ \A r \in R : verdict[r] = "open"
  /\ verdict' = [r \in Request |-> IF r \in R THEN "failed" ELSE verdict[r]]
  /\ UNCHANGED <<log, excused>>

Excuse ==
  /\ excused \subseteq excused' /\ excused' \subseteq Key
  /\ UNCHANGED <<log, verdict>>

Next ==
  \/ \E r \in Request : Write(r) \/ Confirm(r) \/ Refuse(r)
  \/ \E R \in SUBSET Request : Fail(R)
  \/ Excuse

Spec == Init /\ [][Next]_logVars
=============================================================================
