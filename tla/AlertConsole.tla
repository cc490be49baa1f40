---------------------------- MODULE AlertConsole ----------------------------
(***************************************************************************)
(* The request path of an operator: the HTTP gateway, which turns a route  *)
(* into one gRPC call with a deadline, and the alert service behind it,    *)
(* every RPC split at its SQL statements, with its Redis key, its start    *)
(* and its graceful stop.  Callers that use gRPC directly reach the RPCs   *)
(* that have no route.  The device and the telemetry service answer as     *)
(* they like; DeviceRegistry, TelemetryIngest and MetricQueries model      *)
(* them.  Alerts appear as the evaluator stores them (AlertEvaluation).    *)
(*                                                                         *)
(* A handler goes on after its caller gave up: pc is where the caller is,  *)
(* sv where the handler is.                                                *)
(***************************************************************************)
EXTENDS GatewayRoutes, FiniteSets

CONSTANTS
  HttpClient,   \* callers of the gateway ...
  HttpRequests, \* ... and what they may ask
  GrpcClient,   \* direct callers of the alert service ...
  GrpcRequests, \* ... and what they may ask
  Registered,   \* table devices
  Recorded,     \* table alerts,
  Configured,   \* and table alert_thresholds at the start ...
  Base,         \* ... and the last id given
  DefaultPage,  \* 100 alerts, for no limit ...
  MaxPage,      \* ... and for one above 1000
  Keep,         \* the retention period of table alerts
  Fired,        \* the alerts that evaluators store: severities and times
  Faults,       \* statements and Redis may fail, and the process may crash
  MaxAsks,      \* bounds on the requests of a caller,
  MaxIds,       \* what alerts leave of the ids
  MaxTime       \* and the clock

Severity == {"CRITICAL", "WARNING", "INFO"}

Threshold ==
  [id : Nat, dev : Device, metric : Metric, type : {"HIGH", "LOW", "RANGE", "CHANGE"},
   lo : Int, hi : Int, pct : Int, sev : Severity, on : BOOLEAN]
SilenceRule == [id : Nat, dev : Device, metric : MetricName, until : Int]
\* at is triggered_at, put is the column time, when the row was stored.
Alert == [id : Nat, dev : Device, metric : Metric, sev : Severity, at : Nat, put : Nat]

ASSUME ConsoleAssumption ==
  /\ HttpClient \cap GrpcClient = {}
  /\ HttpRequests \subseteq HttpRequest /\ GrpcRequests \subseteq AlertMessage
  /\ Configured \subseteq Threshold /\ IsFiniteSet(Configured)
  /\ Recorded \subseteq Alert /\ IsFiniteSet(Recorded)
  /\ \A a, b \in Recorded : a.id = b.id => a = b
  /\ Registered \subseteq Device /\ Blank \notin Device \cup Metric \cup Int
  /\ Base \in Nat /\ \A t \in Configured \cup Recorded : t.id <= Base
  /\ IntMax \in Nat /\ DefaultLimit \in Nat /\ DefaultLimit <= IntMax
  /\ Fired \subseteq Severity \X Nat
  /\ DefaultPage \in Nat /\ MaxPage \in Nat /\ Keep \in Nat
  /\ Faults \in BOOLEAN /\ MaxAsks \in Nat /\ MaxIds \in Nat /\ MaxTime \in Nat

\* What a handler returns: ids of thresholds or of silence rules, alerts, and
\* the numbers beside them.
Answer == [code : {"OK", "InvalidArgument", "Internal", "Unavailable", "DeadlineExceeded"},
           ids : SUBSET Nat, alerts : SUBSET Alert, total : Int, active : Int,
           by : [Severity -> Int]]

Client == HttpClient \cup GrpcClient

VARIABLES
  now,     \* the clock
  thr,     \* table alert_thresholds
  rules,   \* table silence_rules
  alerts,  \* table alerts
  key,     \* the devices whose key alert:{device} was set; it expires in AlertEvaluation
  ids,     \* ids given so far
  svc,     \* the process of the alert service: "up", "draining" or "down"
  pc,      \* where the caller is
  msg,     \* its message
  over,    \* the call's context has ended
  sv,      \* where the handler is
  out,     \* its answer, or what it knows of it
  rest,    \* the alerts that a stream has yet to send
  status,  \* what the caller was told; of a direct one 200 is OK, 500 an error
  asks,    \* its requests so far
  must,    \* history: what was on record when the request began, and still is
  acked,   \* history: ids that callers were given
  removed, \* history: ids of rows that a statement removed
  gone,    \* history: thresholds that were there and whose deletion was acknowledged
  wide     \* history: a count of the request did not fit the int32 it is sent as

tables == <<thr, rules, alerts, key, ids>>
caller == <<pc, msg, over, status, asks>>
history == <<must, acked, removed, gone, wide>>
handler == <<sv, out, rest>>
vars == <<now, tables, svc, caller, handler, history>>

-----------------------------------------------------------------------------
(* Pure parts. *)

NoCall == [rpc |-> "GetDevice", device_id |-> Blank]

NoCount == [s \in Severity |-> 0]

Empty == [code |-> "OK", ids |-> {}, alerts |-> {}, total |-> 0, active |-> 0, by |-> NoCount]

Error(code) == [Empty EXCEPT !.code = code]

\* validateThresholdRequest.
ValidThreshold(m) ==
  /\ m.device_id # Blank /\ m.metric_name # Blank /\ m.type # 0
  /\ m.type = 3 => m.lower_bound < m.upper_bound
  /\ m.type = 4 => m.change_percent > 0 /\ m.change_percent < 100

\* The checks at the head of each handler.
Valid(m) ==
  CASE m.rpc = "CreateThreshold" -> ValidThreshold(m)
    [] m.rpc \in {"UpdateThreshold", "DeleteThreshold"} -> m.threshold_id # 0
    [] m.rpc = "GetActiveAlerts" -> TRUE
    [] m.rpc = "SilenceAlert" -> m.device_id # Blank /\ m.duration_seconds > 0
    [] OTHER -> m.device_id # Blank

RowOf(m, n) ==
  [id |-> n, dev |-> m.device_id, metric |-> m.metric_name,
   type |-> NameIn(ThresholdType_value, m.type), lo |-> m.lower_bound, hi |-> m.upper_bound,
   pct |-> m.change_percent, sev |-> NameIn(AlertSeverity_value, m.severity),
   on |-> m.enabled]

\* The constraints of alert_thresholds: the device exists, the severity is one
\* of three, (device_id, metric_name, type) is unique.
Storable(m) ==
  /\ m.device_id \in Registered /\ m.severity # 0
  /\ \A t \in thr : ~(t.dev = m.device_id /\ t.metric = m.metric_name
                        /\ t.type = NameIn(ThresholdType_value, m.type))

\* UNIQUE (device_id, metric_name), which NULL never violates.
Silenceable(m) ==
  /\ m.device_id \in Registered
  /\ m.metric_name # Blank =>
       \A r \in rules : ~(r.dev = m.device_id /\ r.metric = m.metric_name)

\* Mutant: disabled thresholds are left out unless they are asked for.
ListedEnabled(t, m) ==
  /\ t.dev = m.device_id
  /\ m.metric_name # Blank => t.metric = m.metric_name
  /\ t.on

\* The WHERE clause of GetThresholds.
Listed(t, m) ==
  /\ t.dev = m.device_id
  /\ m.metric_name # Blank => t.metric = m.metric_name
  /\ m.only_enabled => t.on

\* Only what is positive, or true, is applied.
Updated(t, m) ==
  [t EXCEPT !.lo = IF m.lower_bound > 0 THEN m.lower_bound ELSE @,
            !.hi = IF m.upper_bound > 0 THEN m.upper_bound ELSE @,
            !.pct = IF m.change_percent > 0 THEN m.change_percent ELSE @,
            !.sev = IF m.severity > 0 THEN NameIn(AlertSeverity_value, m.severity) ELSE @,
            !.on = m.enabled \/ @]

\* 100 for no limit and for one above 1000; a negative one stays.
PageSize(m) == IF m.limit = 0 \/ m.limit > MaxPage THEN DefaultPage ELSE m.limit

\* resolved_at is never set: ResolveAlert has no caller.
Active(m) ==
  {a \in alerts : /\ m.device_id # Blank => a.dev = m.device_id
                  /\ m.min_severity # 0 => a.sev = NameIn(AlertSeverity_value, m.min_severity)}

\* Mutant: the beginning of the range is left out.
InRangeOpen(m) ==
  {a \in alerts : a.dev = m.device_id /\ m.start_time < a.at /\ a.at <= m.end_time}

InRange(m) ==
  {a \in alerts : a.dev = m.device_id /\ m.start_time <= a.at /\ a.at <= m.end_time}

\* The WHERE clause of QueryAlertHistory.
Historic(m) ==
  {a \in alerts : /\ a.dev = m.device_id /\ m.start_time <= a.at /\ a.at <= m.end_time
                  /\ m.metric_name # Blank => a.metric = m.metric_name}

\* Mutant: the oldest alerts come first.
LeadingOldest(P, S, n) ==
  /\ P \subseteq S
  /\ IF Cardinality(S) <= n THEN P = S
     ELSE Cardinality(P) = n /\ \A a \in P, b \in S \ P : a.at <= b.at

\* P are the first n of S in the order of triggered_at DESC.
Leading(P, S, n) ==
  /\ P \subseteq S
  /\ IF Cardinality(S) <= n THEN P = S
     ELSE Cardinality(P) = n /\ \A a \in P, b \in S \ P : a.at >= b.at

\* ORDER BY triggered_at DESC LIMIT n OFFSET o.
Pages(S, n, o) ==
  {P \in SUBSET S : \E K \in SUBSET (S \ P) : Leading(K, S, o) /\ Leading(P, S \ K, n)}

BySeverity(S) == [s \in Severity |-> Cardinality({a \in S : a.sev = s})]

-----------------------------------------------------------------------------
Init ==
  /\ now = 1 /\ thr = Configured /\ rules = {} /\ alerts = Recorded /\ ids = Base
  /\ key = {}
  /\ svc = "down"
  /\ pc = [c \in Client |-> "idle"]
  /\ msg = [c \in Client |-> NoCall]
  /\ over = [c \in Client |-> FALSE]
  /\ sv = [c \in Client |-> "none"]
  /\ out = [c \in Client |-> Empty]
  /\ rest = [c \in Client |-> {}]
  /\ status = [c \in Client |-> 0]
  /\ asks = [c \in Client |-> 0]
  /\ must = [c \in Client |-> {}]
  /\ acked = {t.id : t \in Configured} /\ removed = {} /\ gone = {}
  /\ wide = [c \in Client |-> FALSE]

-----------------------------------------------------------------------------
(* Callers. *)

\* What a later answer to m must not miss; of a deletion, what it is to remove.
OnRecord(m) ==
  CASE m.rpc = "GetThresholds" ->
         {t.id : t \in {u \in thr : u.dev = m.device_id /\ m.metric_name = Blank
                                      /\ ~m.only_enabled}} \cap acked
    [] m.rpc = "DeleteThreshold" -> {t.id : t \in thr} \cap {m.threshold_id}
    [] m.rpc = "GetSilenceState" ->
         {r.id : r \in {q \in rules : q.dev = m.device_id}} \cap acked
    [] m.rpc = "GetActiveAlerts" ->
         {a.id : a \in {b \in alerts : m.device_id \in {Blank, b.dev} /\ m.min_severity = 0}}
    [] m.rpc \in {"QueryAlertHistory", "GetAlertStats"} ->
         {a.id : a \in {b \in alerts : b.dev = m.device_id /\ b.at \in m.start_time..m.end_time
                          /\ (m.rpc = "QueryAlertHistory" => m.metric_name \in {Blank, b.metric})}}
    [] OTHER -> {}

Begin(c, m) ==
  /\ pc' = [pc EXCEPT ![c] = "sent"]
  /\ msg' = [msg EXCEPT ![c] = m]
  /\ over' = [over EXCEPT ![c] = FALSE]
  /\ out' = [out EXCEPT ![c] = Empty]
  /\ status' = [status EXCEPT ![c] = 0]
  /\ must' = [must EXCEPT ![c] = OnRecord(m)]
  /\ wide' = [wide EXCEPT ![c] = FALSE]

\* A caller asks again once it has its answer and its last handler is over.
Ready(c) == pc[c] \in {"idle", "answered"} /\ sv[c] = "none" /\ asks[c] < MaxAsks

AskHttp(c, q) ==
  /\ Ready(c) /\ q.route # "health" /\ ~BadRequest(q)
  /\ Begin(c, Call(q))
  /\ asks' = [asks EXCEPT ![c] = @ + 1]
  /\ UNCHANGED <<now, tables, svc, sv, rest, acked, removed, gone>>

AskGrpc(c, m) ==
  /\ Ready(c)
  /\ Begin(c, m)
  /\ asks' = [asks EXCEPT ![c] = @ + 1]
  /\ UNCHANGED <<now, tables, svc, sv, rest, acked, removed, gone>>

\* 400, and the health check, come from the gateway alone.
AnswerLocally(c, q) ==
  /\ Ready(c) /\ (q.route = "health" \/ BadRequest(q))
  /\ pc' = [pc EXCEPT ![c] = "answered"]
  /\ status' = [status EXCEPT ![c] = IF q.route = "health" THEN 200 ELSE 400]
  /\ msg' = [msg EXCEPT ![c] = NoCall]
  /\ must' = [must EXCEPT ![c] = {}]
  /\ asks' = [asks EXCEPT ![c] = @ + 1]
  /\ UNCHANGED <<now, tables, svc, over, handler, acked, removed, gone, wide>>

ForAlerts(c) == msg[c] \in AlertMessage

Told(c, code) ==
  /\ pc' = [pc EXCEPT ![c] = "answered"]
  /\ status' = [status EXCEPT ![c] = StatusOf(msg[c].rpc, code)]
  /\ UNCHANGED <<msg, asks>>

\* The other services answer.  The stream of QueryMetrics is opened and never
\* read: its answer is 200 whatever the service finds.
AnswerElsewhere(c) ==
  /\ pc[c] = "sent" /\ ~ForAlerts(c)
  /\ \E code \in {"OK", "Internal"} : Told(c, code)
  /\ UNCHANGED <<now, tables, svc, over, handler, history>>

\* context.WithTimeout, or a direct caller gives up; the handler goes on.
Expire(c) ==
  /\ pc[c] \in {"sent", "served"}
  /\ Told(c, "DeadlineExceeded")
  /\ over' = [over EXCEPT ![c] = pc[c] = "served"]
  /\ UNCHANGED <<now, tables, svc, handler, history>>

\* The process is away, or ended with the call in it.
Unavailable(c) ==
  /\ \/ pc[c] = "sent" /\ svc # "up" /\ ForAlerts(c)
     \/ pc[c] = "served" /\ sv[c] = "none"
  /\ Told(c, "Unavailable")
  /\ UNCHANGED <<now, tables, svc, over, handler, history>>

\* The generated handler decodes the message and calls the service.
Deliver(c) ==
  /\ pc[c] = "sent" /\ svc = "up" /\ ForAlerts(c)
  /\ pc' = [pc EXCEPT ![c] = "served"]
  /\ sv' = [sv EXCEPT ![c] = "begin"]
  /\ UNCHANGED <<now, tables, svc, msg, over, out, rest, status, asks, history>>

\* The answer arrives, or is dropped if the caller has left.
Return(c) ==
  /\ sv[c] = "reply"
  /\ sv' = [sv EXCEPT ![c] = "none"]
  /\ over' = [over EXCEPT ![c] = FALSE]
  /\ \/ /\ pc[c] = "served"
        /\ Told(c, out[c].code)
        /\ acked' = acked \cup out[c].ids
        /\ gone' = IF msg[c].rpc = "DeleteThreshold" /\ status'[c] = 204
                     THEN gone \cup must[c] ELSE gone
        /\ UNCHANGED out
     \/ /\ pc[c] # "served"
        /\ out' = [out EXCEPT ![c] = Empty]
        /\ UNCHANGED <<pc, status, msg, asks, acked, gone>>
  /\ UNCHANGED <<now, tables, svc, rest, must, removed, wide>>

-----------------------------------------------------------------------------
(* Handlers. *)

\* A statement that has been sent when the context ends may still commit.
Shaky(c) == Faults \/ over[c]

At(c, rpc, s) == sv[c] = s /\ msg[c].rpc = rpc /\ Valid(msg[c])

Goto(c, s) == sv' = [sv EXCEPT ![c] = s]

Finish(c, a) == Goto(c, "reply") /\ out' = [out EXCEPT ![c] = a] /\ UNCHANGED rest

\* A change is committed; its answer may be lost.
Committed(c, a) == Finish(c, a) \/ (Shaky(c) /\ Finish(c, Error("Internal")))

Refuse(c) ==
  /\ sv[c] = "begin" /\ ~Valid(msg[c])
  /\ Finish(c, Error("InvalidArgument"))
  /\ UNCHANGED <<now, tables, svc, caller, history>>

\* PostgreSQL refuses a negative LIMIT or OFFSET.
BadPage(m) ==
  \/ m.rpc \in {"GetActiveAlerts", "QueryAlertHistory"} /\ PageSize(m) < 0
  \/ m.rpc = "GetActiveAlerts" /\ m.offset < 0

\* Any statement, without an effect.
StatementFails(c) ==
  /\ sv[c] \in {"begin", "list", "active", "severity"} /\ Valid(msg[c])
  /\ Shaky(c) \/ BadPage(msg[c])
  /\ Finish(c, Error("Internal"))
  /\ UNCHANGED <<now, tables, svc, caller, history>>

CreateThreshold(c) ==
  /\ At(c, "CreateThreshold", "begin") /\ Storable(msg[c])
  /\ thr' = thr \cup {RowOf(msg[c], ids + 1)}
  /\ ids' = ids + 1
  /\ Committed(c, [Empty EXCEPT !.ids = {ids + 1}])
  /\ UNCHANGED <<now, rules, alerts, key, svc, caller, history>>

CreateViolates(c) ==
  /\ At(c, "CreateThreshold", "begin") /\ ~Storable(msg[c])
  /\ Finish(c, Error("Internal"))
  /\ UNCHANGED <<now, tables, svc, caller, history>>

GetThresholds(c) ==
  /\ At(c, "GetThresholds", "begin")
  /\ LET found == {t \in thr : Listed(t, msg[c])} IN
       Finish(c, [Empty EXCEPT !.ids = {t.id : t \in found},
                              !.total = Int32(Cardinality(found))])
  /\ UNCHANGED <<now, tables, svc, caller, history>>

UpdateThreshold(c) ==
  /\ At(c, "UpdateThreshold", "begin")
  /\ thr' = {IF t.id = msg[c].threshold_id THEN Updated(t, msg[c]) ELSE t : t \in thr}
  /\ Committed(c, Empty)
  /\ UNCHANGED <<now, rules, alerts, key, ids, svc, caller, history>>

\* Success whether or not there is such a row.
DeleteThreshold(c) ==
  /\ At(c, "DeleteThreshold", "begin")
  /\ thr' = {t \in thr : t.id # msg[c].threshold_id}
  /\ removed' = removed \cup {t.id : t \in thr \ thr'}
  /\ Committed(c, Empty)
  /\ UNCHANGED <<now, rules, alerts, key, ids, svc, caller, must, acked, gone, wide>>

\* GetActiveAlerts counts, then reads a page.
CountActive(c) ==
  /\ At(c, "GetActiveAlerts", "begin")
  /\ out' = [out EXCEPT ![c] = [Empty EXCEPT !.total = Int32(Cardinality(Active(msg[c])))]]
  /\ Goto(c, "list")
  /\ UNCHANGED <<now, tables, svc, caller, rest, history>>

ListActive(c) ==
  /\ At(c, "GetActiveAlerts", "list") /\ ~BadPage(msg[c])
  /\ \E P \in Pages(Active(msg[c]), PageSize(msg[c]), msg[c].offset) :
       Finish(c, [out[c] EXCEPT !.alerts = P, !.active = Int32(Cardinality(P))])
  /\ UNCHANGED <<now, tables, svc, caller, history>>

\* QueryAlertHistory reads a page and sends alert by alert.
ReadHistory(c) ==
  /\ At(c, "QueryAlertHistory", "begin") /\ ~BadPage(msg[c])
  /\ \E P \in Pages(Historic(msg[c]), PageSize(msg[c]), 0) : rest' = [rest EXCEPT ![c] = P]
  /\ Goto(c, "stream")
  /\ UNCHANGED <<now, tables, svc, caller, out, history>>

SendAlert(c) ==
  /\ sv[c] = "stream"
  /\ \E a \in rest[c] :
       /\ \A b \in rest[c] : a.at >= b.at
       /\ rest' = [rest EXCEPT ![c] = @ \ {a}]
       /\ out' = [out EXCEPT ![c].alerts = @ \cup {a}]
  /\ UNCHANGED <<now, tables, svc, caller, sv, history>>

\* Mutant: a stream stays open until there is an alert to send.
EndStreamOpen(c) ==
  /\ sv[c] = "stream" /\ rest[c] = {} /\ out[c].alerts # {}
  /\ Goto(c, "reply")
  /\ UNCHANGED <<now, tables, svc, caller, out, rest, history>>

EndStream(c) ==
  /\ sv[c] = "stream" /\ rest[c] = {}
  /\ Goto(c, "reply")
  /\ UNCHANGED <<now, tables, svc, caller, out, rest, history>>

SendFails(c) ==
  /\ sv[c] = "stream" /\ rest[c] # {} /\ Shaky(c)
  /\ Goto(c, "reply")
  /\ out' = [out EXCEPT ![c].code = "Unavailable"]
  /\ rest' = [rest EXCEPT ![c] = {}]
  /\ UNCHANGED <<now, tables, svc, caller, history>>

\* SilenceAlert stores the rule ...
SilenceDevice(c) ==
  /\ At(c, "SilenceAlert", "begin") /\ Silenceable(msg[c])
  /\ rules' = rules \cup {[id |-> ids + 1, dev |-> msg[c].device_id,
                           metric |-> msg[c].metric_name,
                           until |-> now + msg[c].duration_seconds]}
  /\ ids' = ids + 1
  /\ \/ Goto(c, "cache") /\ out' = [out EXCEPT ![c] = [Empty EXCEPT !.ids = {ids + 1}]]
                         /\ UNCHANGED rest
     \/ Shaky(c) /\ Finish(c, Error("Internal"))
  /\ UNCHANGED <<now, thr, alerts, key, svc, caller, history>>

SilenceViolates(c) ==
  /\ At(c, "SilenceAlert", "begin") /\ ~Silenceable(msg[c])
  /\ Finish(c, Error("Internal"))
  /\ UNCHANGED <<now, tables, svc, caller, history>>

\* ... and the key, if there is a client, and ignores an error.
CacheSilence(c) ==
  /\ sv[c] = "cache"
  /\ \/ key' = key \cup {msg[c].device_id}
     \/ Shaky(c) /\ UNCHANGED key
  /\ Goto(c, "reply")
  /\ UNCHANGED <<now, thr, rules, alerts, ids, svc, caller, out, rest, history>>

GetSilenceState(c) ==
  /\ At(c, "GetSilenceState", "begin")
  /\ Finish(c, [Empty EXCEPT !.ids =
       {r.id : r \in {q \in rules : q.dev = msg[c].device_id /\ q.until > now}}])
  /\ UNCHANGED <<now, tables, svc, caller, history>>

ClearSilence(c) ==
  /\ At(c, "ClearSilence", "begin")
  /\ rules' = {r \in rules : r.dev # msg[c].device_id}
  /\ removed' = removed \cup {r.id : r \in rules \ rules'}
  /\ Committed(c, Empty)
  /\ UNCHANGED <<now, thr, alerts, key, ids, svc, caller, must, acked, gone, wide>>

\* GetAlertStats: three statements.  What they count is an int64, and is cut to
\* an int32 in the response.
Counted(c, n) == wide' = [wide EXCEPT ![c] = @ \/ n > IntMax]

CountTotal(c) ==
  /\ At(c, "GetAlertStats", "begin")
  /\ LET n == Cardinality(InRange(msg[c])) IN
       out' = [out EXCEPT ![c] = [Empty EXCEPT !.total = Int32(n)]] /\ Counted(c, n)
  /\ Goto(c, "active")
  /\ UNCHANGED <<now, tables, svc, caller, rest, must, acked, removed, gone>>

CountUnresolved(c) ==
  /\ At(c, "GetAlertStats", "active")
  /\ LET n == Cardinality({a \in alerts : a.dev = msg[c].device_id}) IN
       out' = [out EXCEPT ![c].active = Int32(n)] /\ Counted(c, n)
  /\ Goto(c, "severity")
  /\ UNCHANGED <<now, tables, svc, caller, rest, must, acked, removed, gone>>

CountBySeverity(c) ==
  /\ At(c, "GetAlertStats", "severity")
  /\ LET n == BySeverity(InRange(msg[c])) IN
       /\ Finish(c, [out[c] EXCEPT !.by = [s \in Severity |-> Int32(n[s])]])
       /\ wide' = [wide EXCEPT ![c] = @ \/ \E s \in Severity : n[s] > IntMax]
  /\ UNCHANGED <<now, tables, svc, caller, must, acked, removed, gone>>

-----------------------------------------------------------------------------
(* The process of the alert service. *)

\* It ends at once if PostgreSQL is away, and goes without a client if Redis is.
Start ==
  /\ svc = "down" /\ svc' = "up"
  /\ UNCHANGED <<now, tables, caller, handler, history>>

Signal ==
  /\ svc = "up" /\ svc' = "draining"
  /\ UNCHANGED <<now, tables, caller, handler, history>>

\* GracefulStop waits for the handlers, not for their callers.
GracefulStop ==
  /\ svc = "draining" /\ \A c \in Client : sv[c] = "none"
  /\ svc' = "down"
  /\ UNCHANGED <<now, tables, caller, handler, history>>

Crash ==
  /\ Faults /\ svc # "down" /\ svc' = "down"
  /\ sv' = [c \in Client |-> "none"]
  /\ out' = [c \in Client |-> IF sv[c] = "none" THEN out[c] ELSE Empty]
  /\ rest' = [c \in Client |-> {}]
  /\ UNCHANGED <<now, tables, caller, history>>

(* The world around it. *)

\* InsertAlert of an evaluator, which took the time before.
Fire(d, m, s, t) ==
  /\ ids < MaxIds /\ t <= now /\ <<s, t>> \in Fired
  /\ alerts' = alerts \cup {[id |-> ids + 1, dev |-> d, metric |-> m, sev |-> s, at |-> t,
                            put |-> now]}
  /\ ids' = ids + 1
  /\ UNCHANGED <<now, thr, rules, key, svc, caller, handler, history>>

\* The retention policy of the hypertable, which goes by the column time.
DropAlerts(t) ==
  /\ t <= now - Keep
  /\ alerts' = {a \in alerts : a.put >= t}
  /\ must' = [c \in Client |-> must[c] \ {a.id : a \in alerts \ alerts'}]
  /\ UNCHANGED <<now, thr, rules, key, ids, svc, caller, handler, acked, removed, gone, wide>>

Tick ==
  /\ now < MaxTime /\ now' = now + 1
  /\ UNCHANGED <<tables, svc, caller, handler, history>>

-----------------------------------------------------------------------------
Thresholding(c) ==
  \/ CreateThreshold(c) \/ CreateViolates(c) \/ GetThresholds(c) \/ UpdateThreshold(c)
  \/ DeleteThreshold(c)

Silencing(c) ==
  \/ SilenceDevice(c) \/ SilenceViolates(c) \/ CacheSilence(c) \/ GetSilenceState(c)
  \/ ClearSilence(c)

Reading(c) ==
  \/ CountActive(c) \/ ListActive(c) \/ ReadHistory(c) \/ EndStream(c)
  \/ CountTotal(c) \/ CountUnresolved(c) \/ CountBySeverity(c)

Streaming(c) == SendAlert(c) \/ SendFails(c)

Serving(c) ==
  Refuse(c) \/ StatementFails(c) \/ Thresholding(c) \/ Silencing(c) \/ Reading(c) \/ Return(c)

Calling(c) == Deliver(c) \/ Unavailable(c)

Next ==
  \/ \E c \in Client :
       Calling(c) \/ AnswerElsewhere(c) \/ Expire(c) \/ Serving(c) \/ Streaming(c)
  \/ \E c \in HttpClient : \E q \in HttpRequests : AskHttp(c, q) \/ AnswerLocally(c, q)
  \/ \E c \in GrpcClient : \E m \in GrpcRequests : AskGrpc(c, m)
  \/ Start \/ Signal \/ GracefulStop \/ Crash
  \/ \E d \in Registered, m \in Metric, s \in Severity, t \in 1..MaxTime : Fire(d, m, s, t)
  \/ \E t \in 1..MaxTime : DropAlerts(t)
  \/ Tick

\* Calls are carried out, statements end and the gateway's timers fire.  Direct
\* callers have no deadline and need not read: a stream goes on when its caller
\* reads, which nobody owes, or fails once the caller has left.  The other
\* services owe no answer.
StreamEnds(c) == over[c] /\ Streaming(c)

Fairness ==
  /\ \A c \in Client : WF_vars(Calling(c) \/ Serving(c) \/ StreamEnds(c))
  /\ \A c \in HttpClient : WF_vars(Expire(c))
  /\ WF_vars(GracefulStop)

Spec == Init /\ [][Next]_vars /\ Fairness

-----------------------------------------------------------------------------
(* Properties. *)

State == {"none", "begin", "list", "active", "severity", "cache", "stream", "reply"}

\* Every variable has its type.
TypeOK ==
  /\ now \in Nat /\ thr \subseteq Threshold /\ rules \subseteq SilenceRule
  /\ alerts \subseteq Alert /\ key \subseteq Device /\ ids \in Nat
  /\ svc \in {"up", "draining", "down"}
  /\ pc \in [Client -> {"idle", "sent", "served", "answered"}]
  /\ msg \in [Client -> Message]
  /\ over \in [Client -> BOOLEAN] /\ sv \in [Client -> State]
  /\ out \in [Client -> Answer] /\ rest \in [Client -> SUBSET Alert]
  /\ status \in [Client -> {0, 200, 201, 204, 400, 500}]
  /\ asks \in [Client -> Nat]
  /\ must \in [Client -> SUBSET Nat] /\ acked \subseteq Nat /\ removed \subseteq Nat
  /\ gone \subseteq Nat /\ wide \in [Client -> BOOLEAN]

Got(c, rpc) == pc[c] = "answered" /\ msg[c].rpc = rpc /\ status[c] = 200

\* A threshold or a silence that a caller was given an id for is in every list of
\* all thresholds, or all silences, of its device that is asked for afterwards and
\* that succeeds, until it is removed or has run out, although its creator, its
\* readers and those who change it are answered in another order than their
\* statements ran.
AcknowledgedIsListed ==
  \A c \in Client :
    /\ Got(c, "GetThresholds") => must[c] \ removed \subseteq out[c].ids
    /\ Got(c, "GetSilenceState") =>
         \A r \in rules : r.id \in must[c] /\ r.until > now => r.id \in out[c].ids

\* A threshold that was on record when its deletion was asked for, and whose
\* deletion was answered 204, does not come back, not through an update that was
\* under way, nor through one whose caller was told 500 long ago.  An id that
\* does not exist is answered 204 too, and may be given later.
DeletedStaysDeleted == \A t \in thr : t.id \notin gone

\* A page of alerts of all severities, from its beginning, misses no alert that
\* was on record throughout the request, unless the page is full of newer ones.
NewestAlertsFirst ==
  \A c \in Client : \A a \in alerts :
    /\ Got(c, "QueryAlertHistory") \/ (Got(c, "GetActiveAlerts") /\ msg[c].offset = 0)
    /\ a.id \in must[c] /\ a \notin out[c].alerts
    => /\ Cardinality(out[c].alerts) = PageSize(msg[c])
       /\ \A b \in out[c].alerts : b.at >= a.at

\* The three counts of GetAlertStats come from three statements: none of them is
\* below the number of alerts that were on record, in its range, throughout,
\* unless one of them counted more than an int32 holds.  The gateway names no
\* times, so that this says something to direct callers only.
StatsMissNothing ==
  \A c \in Client : Got(c, "GetAlertStats") /\ ~wide[c] =>
    LET n == Cardinality(must[c]) IN
      /\ n <= out[c].total /\ n <= out[c].active
      /\ n <= out[c].by["CRITICAL"] + out[c].by["WARNING"] + out[c].by["INFO"]

\* The handler is stopped in a Send, for a caller who is there and does not read.
Unread(c) == sv[c] = "stream" /\ rest[c] # {} /\ pc[c] = "served"

\* Every caller gets an answer, from the handler, from the deadline, or because
\* the service is away, if the statements end; the exception is a caller who
\* does not read the stream that he asked for.
EveryRequestAnswered ==
  \A c \in Client : pc[c] \in {"sent", "served"} ~> pc[c] = "answered" \/ Unread(c)

\* A graceful stop ends, although callers left before their handlers did, unless
\* somebody stays without reading: GracefulStop has no limit.
DrainCompletes ==
  svc = "draining" ~> svc # "draining" \/ \E c \in Client : Unread(c)

-----------------------------------------------------------------------------
(* What the proofs add: an invariant that every step keeps. *)

\* Where a handler can be, given its message and its caller.
InStep(c) ==
  /\ pc[c] \in {"idle", "sent"} => sv[c] = "none"
  /\ pc[c] = "answered" /\ sv[c] # "none" => status[c] = 500
  /\ pc[c] = "sent" \/ sv[c] = "begin" => out[c] = Empty
  /\ sv[c] # "none" => msg[c] \in AlertMessage
  /\ sv[c] = "list" => msg[c].rpc = "GetActiveAlerts"
  /\ sv[c] \in {"active", "severity"} => msg[c].rpc = "GetAlertStats"
  /\ sv[c] = "stream" => msg[c].rpc = "QueryAlertHistory"
  /\ sv[c] = "cache" => msg[c].rpc = "SilenceAlert" /\ msg[c].device_id # Blank

\* No id is used before the database gives it.
IdsAreGiven ==
  /\ \A t \in thr : t.id <= ids
  /\ \A r \in rules : r.id <= ids
  /\ \A a \in alerts : a.id <= ids
  /\ acked \subseteq 0..ids /\ removed \subseteq 0..ids

HoldsGivenIds(c) == must[c] \subseteq 0..ids /\ out[c].ids \subseteq 0..ids

\* Tables are finite and their ids are keys.
TablesAreKeyed ==
  /\ IsFiniteSet(thr) /\ IsFiniteSet(alerts)
  /\ \A a, b \in alerts : a.id = b.id => a = b
  /\ \A r, q \in rules : r.id = q.id => r = q
  /\ \A t \in thr, r \in rules : t.id # r.id

\* What a statement removed is not in the table ...
DeletedAreRemoved == gone \subseteq removed /\ \A t \in thr : t.id \notin removed

\* The first statement of the request has not run yet.
Pending(c) == pc[c] = "sent" \/ sv[c] = "begin"

\* Its answer is a success.
Settled(c) ==
  (sv[c] = "reply" /\ out[c].code = "OK") \/ (pc[c] = "answered" /\ status[c] = 200)

\* ... and what a deletion is to remove is in the table until it is removed, which
\* its success implies.
DeletionIsDone(c) ==
  msg[c].rpc = "DeleteThreshold" =>
    /\ must[c] \subseteq {msg[c].threshold_id}
    /\ Pending(c) => must[c] \subseteq removed \cup {t.id : t \in thr}
    /\ sv[c] = "reply" /\ out[c].code = "OK" => must[c] \subseteq removed

\* What a list of thresholds must not miss is in the table until it is read, and
\* in the answer from then on.
ThresholdsAreKept(c) ==
  msg[c].rpc = "GetThresholds" =>
    /\ Pending(c) =>
         \A i \in must[c] \ removed : \E t \in thr : t.id = i /\ Listed(t, msg[c])
    /\ Settled(c) => must[c] \ removed \subseteq out[c].ids

RulesAreKept(c) ==
  msg[c].rpc = "GetSilenceState" =>
    /\ Pending(c) => \A r \in rules : r.id \in must[c] => r.dev = msg[c].device_id
    /\ Settled(c) =>
         \A r \in rules : r.id \in must[c] /\ r.until > now => r.id \in out[c].ids

\* An alert that P misses is older than everything on a full page P.
MissesOlder(c, P) ==
  \A a \in alerts : a.id \in must[c] /\ a \notin P =>
    Cardinality(P) = PageSize(msg[c]) /\ \A b \in P : b.at >= a.at

ActiveAreKept(c) ==
  msg[c].rpc = "GetActiveAlerts" =>
    /\ Pending(c) \/ sv[c] = "list" =>
         \A a \in alerts : a.id \in must[c] => a \in Active(msg[c])
    /\ Settled(c) /\ msg[c].offset = 0 => MissesOlder(c, out[c].alerts)

HistoryIsKept(c) ==
  msg[c].rpc = "QueryAlertHistory" =>
    /\ Pending(c) => \A a \in alerts : a.id \in must[c] => a \in Historic(msg[c])
    /\ sv[c] = "stream" => MissesOlder(c, out[c].alerts \cup rest[c])
    /\ Settled(c) => MissesOlder(c, out[c].alerts)

StatsAreKept(c) ==
  msg[c].rpc = "GetAlertStats" =>
    /\ Pending(c) \/ sv[c] \in {"active", "severity"} =>
         must[c] \subseteq {a.id : a \in InRange(msg[c])}
    /\ (sv[c] \in {"active", "severity"} \/ Settled(c)) /\ ~wide[c] =>
         Cardinality(must[c]) <= out[c].total
    /\ (sv[c] = "severity" \/ Settled(c)) /\ ~wide[c] =>
         Cardinality(must[c]) <= out[c].active
    /\ Settled(c) /\ ~wide[c] => Cardinality(must[c]) <=
         out[c].by["CRITICAL"] + out[c].by["WARNING"] + out[c].by["INFO"]

Kept(c) ==
  /\ ThresholdsAreKept(c) /\ RulesAreKept(c) /\ ActiveAreKept(c) /\ HistoryIsKept(c)
  /\ StatsAreKept(c)

Safe ==
  /\ TypeOK /\ IdsAreGiven /\ TablesAreKeyed /\ DeletedAreRemoved
  /\ \A c \in Client : InStep(c) /\ HoldsGivenIds(c) /\ DeletionIsDone(c) /\ Kept(c)
=============================================================================
