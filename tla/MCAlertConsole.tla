--------------------------- MODULE MCAlertConsole ---------------------------
(***************************************************************************)
(* A small instance of AlertConsole.                                       *)
(***************************************************************************)
EXTENDS AlertConsole

CONSTANTS d1, m1

\* A request with every field at its zero value.
Http(route) ==
  [route |-> route, parses |-> TRUE, id |-> 1, device_id |-> d1, metric_name |-> Blank,
   type |-> "", severity |-> "", status |-> "", lower_bound |-> 0, upper_bound |-> 0,
   change_percent |-> 0, enabled |-> FALSE, duration_seconds |-> 0, limit |-> Blank,
   offset |-> Blank, start_time |-> Blank, end_time |-> Blank]

OneThreshold ==
  {[id |-> 1, dev |-> d1, metric |-> m1, type |-> "HIGH", lo |-> 0, hi |-> 3, pct |-> 0,
    sev |-> "INFO", on |-> FALSE]}

\* A threshold like the one that is there, which PostgreSQL refuses, and one that
\* it stores; the one that is there is deleted, and changed by a direct caller, and
\* one is deleted whose id has yet to be given.
ThresholdRequests ==
  {[Http("createThreshold") EXCEPT !.metric_name = m1, !.type = t] : t \in {"", "LOW"}}
    \cup {[Http("deleteThreshold") EXCEPT !.id = i] : i \in {1, Base + 1}}

\* A page of the default size, and one whose size does not fit an int32; a silence,
\* and one without a duration; answers of the gateway alone, and of another service.
OtherRequests ==
  {[Http("silenceAlert") EXCEPT !.metric_name = m1, !.duration_seconds = n] : n \in {0, 1}}
    \cup {Http("getActiveAlerts"), Http("health"), Http("listDevices"),
          [Http("getActiveAlerts") EXCEPT !.limit = IntMax + 1],
          [Http("getAlertStats") EXCEPT !.device_id = Blank]}

\* Three alerts are what an int32 holds here, four are more.
EarlierAlerts ==
  {[id |-> i, dev |-> d1, metric |-> m1, sev |-> "WARNING", at |-> IF i = 4 THEN 1 ELSE 0,
    put |-> 1] : i \in 2..4}

SomeAlerts == {<<"WARNING", 2>>}

DirectRequests ==
  {[rpc |-> "UpdateThreshold", threshold_id |-> 1, lower_bound |-> 0, upper_bound |-> 5,
    change_percent |-> 0, severity |-> 1, enabled |-> FALSE],
   [rpc |-> "CreateThreshold", device_id |-> d1, metric_name |-> m1, type |-> 4,
    lower_bound |-> 0, upper_bound |-> 0, change_percent |-> 50, severity |-> 2,
    enabled |-> TRUE],
   [rpc |-> "GetThresholds", device_id |-> d1, metric_name |-> Blank, only_enabled |-> FALSE],
   [rpc |-> "SilenceAlert", device_id |-> d1, metric_name |-> m1, duration_seconds |-> 1],
   [rpc |-> "GetSilenceState", device_id |-> d1], [rpc |-> "ClearSilence", device_id |-> d1],
   [rpc |-> "QueryAlertHistory", device_id |-> d1, metric_name |-> m1, start_time |-> 1,
    end_time |-> 3, limit |-> 0],
   [rpc |-> "GetAlertStats", device_id |-> d1, start_time |-> 0, end_time |-> 3]}

AllHttp == ThresholdRequests \cup OtherRequests
=============================================================================
