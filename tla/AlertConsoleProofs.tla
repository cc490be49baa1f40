------------------------ MODULE AlertConsoleProofs ------------------------
(***************************************************************************)
(* Proofs about AlertConsole: its types, AcknowledgedIsListed,             *)
(* DeletedStaysDeleted, NewestAlertsFirst and StatsMissNothing, for any    *)
(* number of callers and requests.                                         *)
(***************************************************************************)
EXTENDS AlertConsole, FiniteSetTheorems, FunctionTheorems, TLAPS

-----------------------------------------------------------------------------
(* Messages. *)

\* The name of the call tells the messages of the alert service apart.
LEMMA MessageKind ==
  ASSUME NEW m \in Message
  PROVE  /\ m.rpc = "CreateThreshold" => m \in CreateThresholdRequest
         /\ m.rpc = "GetThresholds" => m \in GetThresholdsRequest
         /\ m.rpc = "UpdateThreshold" => m \in UpdateThresholdRequest
         /\ m.rpc = "DeleteThreshold" => m \in DeleteThresholdRequest
         /\ m.rpc = "GetActiveAlerts" => m \in GetActiveAlertsRequest
         /\ m.rpc = "QueryAlertHistory" => m \in QueryAlertHistoryRequest
         /\ m.rpc = "SilenceAlert" => m \in SilenceAlertRequest
         /\ m.rpc = "GetSilenceState" => m \in GetSilenceStateRequest
         /\ m.rpc = "ClearSilence" => m \in ClearSilenceRequest
         /\ m.rpc = "GetAlertStats" => m \in GetAlertStatsRequest
BY DEF Message, AlertMessage, OtherMessage, CreateThresholdRequest, GetThresholdsRequest,
     UpdateThresholdRequest, DeleteThresholdRequest, GetActiveAlertsRequest,
     QueryAlertHistoryRequest, SilenceAlertRequest, GetSilenceStateRequest,
     ClearSilenceRequest, GetAlertStatsRequest, CreateDeviceRequest, GetDeviceRequest,
     ListDevicesRequest, UpdateDeviceStatusRequest, SubmitMetricRequest, QueryMetricsRequest

\* Every message of the alert service that can be refused for its device has one.
LEMMA AlertKind ==
  ASSUME NEW m \in AlertMessage
  PROVE  m.rpc \in {"CreateThreshold", "GetThresholds", "UpdateThreshold", "DeleteThreshold",
            "GetActiveAlerts", "QueryAlertHistory", "SilenceAlert", "GetSilenceState",
            "ClearSilence", "GetAlertStats"}
BY DEF AlertMessage, CreateThresholdRequest, GetThresholdsRequest,
     UpdateThresholdRequest, DeleteThresholdRequest, GetActiveAlertsRequest,
     QueryAlertHistoryRequest, SilenceAlertRequest, GetSilenceStateRequest,
     ClearSilenceRequest, GetAlertStatsRequest

LEMMA ParsedEnums ==
  ASSUME NEW s
  PROVE  /\ Parse(ThresholdType_value, s, 1) \in 0..4
         /\ Parse(AlertSeverity_value, s, 2) \in 0..3
         /\ Parse(DeviceStatus_value, s, 0) \in 0..4
BY DEF Parse, ThresholdType_value, AlertSeverity_value, DeviceStatus_value

\* A count that an int32 holds is sent as it is.
LEMMA Int32Type ==
  ASSUME NEW n \in Int
  PROVE  Int32(n) \in Int /\ (n \in 0..IntMax => Int32(n) = n)
<1>1. 2 * (IntMax + 1) \in Int /\ 2 * (IntMax + 1) > 0 BY ConsoleAssumption
<1>2. \A a, b \in Int : b > 0 => a % b \in Int OBVIOUS
<1>3. (n + IntMax + 1) % (2 * (IntMax + 1)) \in Int BY <1>1, <1>2, ConsoleAssumption
<1> QED BY <1>3, ConsoleAssumption DEF Int32

LEMMA ParsedNumbers ==
  ASSUME NEW s \in Number, NEW d \in Int
  PROVE  ParseInt(s, d) \in Int /\ Int32(ParseInt(s, d)) \in Int
<1>1. ParseInt(s, d) \in Int BY DEF ParseInt, Number
<1> QED BY <1>1, Int32Type

LEMMA CallIsMessage ==
  ASSUME NEW q \in HttpRequest, q.route # "health"
  PROVE  Call(q) \in Message
<1>15. q.limit \in Number /\ q.offset \in Number /\ q.start_time \in Number /\ q.end_time \in Number
  BY DEF HttpRequest
<1>0. /\ \A d \in Int : ParseInt(q.limit, d) \in Int /\ Int32(ParseInt(q.limit, d)) \in Int
      /\ \A d \in Int : ParseInt(q.offset, d) \in Int /\ Int32(ParseInt(q.offset, d)) \in Int
      /\ ParseInt(q.start_time, 0) \in Int /\ ParseInt(q.end_time, 0) \in Int
  <2>1. 0 \in Int OBVIOUS
  <2> QED BY <1>15, <2>1, ParsedNumbers, Zenon
<1>16. DefaultLimit \in Int BY ConsoleAssumption
<1> USE ParsedEnums DEF HttpRequest, DeviceName, MetricName
<1>1. createDevice(q) \in CreateDeviceRequest BY DEF createDevice, CreateDeviceRequest
<1>2. getDevice(q) \in GetDeviceRequest BY DEF getDevice, GetDeviceRequest
<1>3. listDevices(q) \in ListDevicesRequest BY <1>0, <1>16 DEF listDevices, ListDevicesRequest
<1>4. updateDeviceStatus(q) \in UpdateDeviceStatusRequest
  BY DEF updateDeviceStatus, UpdateDeviceStatusRequest
<1>5. submitMetric(q) \in SubmitMetricRequest BY DEF submitMetric, SubmitMetricRequest
<1>6. queryMetrics(q) \in QueryMetricsRequest BY <1>0, <1>16 DEF queryMetrics, QueryMetricsRequest
<1>7. getActiveAlerts(q) \in GetActiveAlertsRequest
  BY <1>0, <1>16 DEF getActiveAlerts, GetActiveAlertsRequest
<1>8. getAlertStats(q) \in GetAlertStatsRequest BY DEF getAlertStats, GetAlertStatsRequest
<1>9. createThreshold(q) \in CreateThresholdRequest
  BY DEF createThreshold, CreateThresholdRequest
<1>10. getThresholds(q) \in GetThresholdsRequest BY DEF getThresholds, GetThresholdsRequest
<1>11. updateThreshold(q) \in UpdateThresholdRequest
  BY DEF updateThreshold, UpdateThresholdRequest
<1>12. deleteThreshold(q) \in DeleteThresholdRequest
  BY DEF deleteThreshold, DeleteThresholdRequest
<1>13. silenceAlert(q) \in SilenceAlertRequest BY DEF silenceAlert, SilenceAlertRequest
<1>14. q.route \in Route \ {"health"} OBVIOUS
<1> QED
  BY <1>1, <1>2, <1>3, <1>4, <1>5, <1>6, <1>7, <1>8, <1>9, <1>10, <1>11, <1>12, <1>13, <1>14
  DEF Call, Message, AlertMessage, OtherMessage, Route

-----------------------------------------------------------------------------
(* Rows and answers. *)

LEMMA EnumNames ==
  /\ \A n \in 1..4 : NameIn(ThresholdType_value, n) \in {"HIGH", "LOW", "RANGE", "CHANGE"}
  /\ \A n \in 1..3 : NameIn(AlertSeverity_value, n) \in Severity
<1>1. ASSUME NEW n \in 1..4
      PROVE  NameIn(ThresholdType_value, n) \in {"HIGH", "LOW", "RANGE", "CHANGE"}
  <2> DEFINE Named(s) == s \in DOMAIN ThresholdType_value /\ ThresholdType_value[s] = n
  <2>1. \E s : Named(s) BY DEF ThresholdType_value
  <2>2. Named(CHOOSE s : Named(s)) BY <2>1
  <2>3. Named(NameIn(ThresholdType_value, n)) BY <2>1 DEF NameIn
  <2> QED BY <2>3 DEF ThresholdType_value
<1>2. ASSUME NEW n \in 1..3 PROVE NameIn(AlertSeverity_value, n) \in Severity
  <2> DEFINE Named(s) == s \in DOMAIN AlertSeverity_value /\ AlertSeverity_value[s] = n
  <2>1. \E s : Named(s) BY DEF AlertSeverity_value
  <2>3. Named(NameIn(AlertSeverity_value, n)) BY <2>1 DEF NameIn
  <2> QED BY <2>3 DEF AlertSeverity_value, Severity
<1> QED BY <1>1, <1>2

LEMMA RowType ==
  ASSUME NEW m \in CreateThresholdRequest, Valid(m), m.severity # 0, m.device_id \in Device,
         NEW n \in Nat
  PROVE  RowOf(m, n) \in Threshold
<1>1. m.type \in 1..4 /\ m.severity \in 1..3 /\ m.metric_name \in Metric
  BY DEF CreateThresholdRequest, Valid, ValidThreshold, MetricName
<1> QED BY <1>1, EnumNames DEF RowOf, Threshold, CreateThresholdRequest

LEMMA UpdatedType ==
  ASSUME NEW t \in Threshold, NEW m \in UpdateThresholdRequest
  PROVE  /\ Updated(t, m) \in Threshold
         /\ Updated(t, m).id = t.id /\ Updated(t, m).dev = t.dev
         /\ Updated(t, m).metric = t.metric /\ (t.on => Updated(t, m).on)
<1>1. m.severity > 0 => NameIn(AlertSeverity_value, m.severity) \in Severity
  BY EnumNames DEF UpdateThresholdRequest
<1>2. m.severity \in Int /\ m.lower_bound \in Int /\ m.upper_bound \in Int
      /\ m.change_percent \in Int /\ m.enabled \in BOOLEAN
  BY DEF UpdateThresholdRequest
<1> QED BY <1>1, <1>2 DEF Updated, Threshold

LEMMA EmptyType == Empty \in Answer /\ NoCount \in [Severity -> Int]
BY DEF Empty, Answer, NoCount

LEMMA ErrorType ==
  \A code \in {"InvalidArgument", "Internal", "Unavailable", "DeadlineExceeded"} :
    Error(code) \in Answer /\ Error(code).code # "OK" /\ Error(code).ids = {}
BY EmptyType DEF Error, Empty, Answer

LEMMA StatusType ==
  ASSUME NEW rpc, NEW code
  PROVE  /\ StatusOf(rpc, code) \in {200, 201, 204, 500}
         /\ code # "OK" => StatusOf(rpc, code) = 500
BY DEF StatusOf, SuccessStatus

LEMMA BySeverityType ==
  ASSUME NEW S, IsFiniteSet(S)
  PROVE  BySeverity(S) \in [Severity -> Nat]
<1>1. \A s \in Severity : Cardinality({a \in S : a.sev = s}) \in Nat
  BY FS_Subset, FS_CardinalityType
<1> QED BY <1>1 DEF BySeverity

LEMMA Subsets ==
  ASSUME TypeOK, IsFiniteSet(alerts), NEW m
  PROVE  /\ IsFiniteSet(Active(m)) /\ Active(m) \subseteq Alert
         /\ IsFiniteSet(Historic(m)) /\ Historic(m) \subseteq Alert
         /\ IsFiniteSet(InRange(m)) /\ InRange(m) \subseteq Alert
<1>1. Active(m) \subseteq alerts BY DEF Active
<1>2. Historic(m) \subseteq alerts BY DEF Historic
<1>3. InRange(m) \subseteq alerts BY DEF InRange
<1>4. \A S \in SUBSET alerts : IsFiniteSet(S) BY FS_Subset
<1> QED BY <1>1, <1>2, <1>3, <1>4 DEF TypeOK

LEMMA PageType ==
  ASSUME NEW S, IsFiniteSet(S), NEW n, NEW o, NEW P \in Pages(S, n, o)
  PROVE  P \subseteq S /\ IsFiniteSet(P) /\ Cardinality(P) \in Nat
<1>1. P \subseteq S BY DEF Pages
<1> QED BY <1>1, FS_Subset, FS_CardinalityType

-----------------------------------------------------------------------------
(* Types. *)

LEMMA InitType == Init => TypeOK
BY ConsoleAssumption, EmptyType
   DEF Init, TypeOK, NoCall, Message, OtherMessage, GetDeviceRequest, DeviceName, State,
       Threshold, Alert

LEMMA ToldType ==
  ASSUME TypeOK, NEW c \in Client, NEW code, Told(c, code)
  PROVE  /\ pc' \in [Client -> {"idle", "sent", "served", "answered"}]
         /\ msg' \in [Client -> Message]
         /\ status' \in [Client -> {0, 200, 201, 204, 400, 500}]
         /\ asks' \in [Client -> Nat]
BY StatusType DEF TypeOK, Told

LEMMA OnRecordType ==
  ASSUME TypeOK, NEW m
  PROVE  OnRecord(m) \subseteq Nat
BY DEF TypeOK, OnRecord, Threshold, SilenceRule, Alert

LEMMA BeginType ==
  ASSUME TypeOK, NEW c \in Client, NEW m \in Message, Begin(c, m)
  PROVE  /\ pc' \in [Client -> {"idle", "sent", "served", "answered"}]
         /\ msg' \in [Client -> Message]
         /\ over' \in [Client -> BOOLEAN]
         /\ out' \in [Client -> Answer]
         /\ status' \in [Client -> {0, 200, 201, 204, 400, 500}]
         /\ must' \in [Client -> SUBSET Nat] /\ wide' \in [Client -> BOOLEAN]
BY OnRecordType, EmptyType DEF TypeOK, Begin

LEMMA CallerType ==
  ASSUME TypeOK, NEW c \in Client,
         \/ \E q \in HttpRequests : AskHttp(c, q) \/ AnswerLocally(c, q)
         \/ \E m \in GrpcRequests : AskGrpc(c, m)
         \/ AnswerElsewhere(c) \/ Expire(c) \/ Unavailable(c) \/ Deliver(c) \/ Return(c)
  PROVE  TypeOK'
<1>1. ASSUME NEW q \in HttpRequests, AskHttp(c, q) PROVE TypeOK'
  <2>1. Call(q) \in Message BY <1>1, CallIsMessage, ConsoleAssumption DEF AskHttp
  <2>2. Begin(c, Call(q)) BY <1>1 DEF AskHttp
  <2>3. asks' \in [Client -> Nat] BY <1>1 DEF AskHttp, TypeOK
  <2> HIDE DEF Call
  <2> QED BY <1>1, <2>1, <2>2, <2>3, BeginType DEF AskHttp, TypeOK, tables
<1>2. ASSUME NEW q \in HttpRequests, AnswerLocally(c, q) PROVE TypeOK'
  <2>1. NoCall \in Message
    BY DEF NoCall, Message, OtherMessage, GetDeviceRequest, DeviceName
  <2> QED BY <1>2, <2>1 DEF AnswerLocally, TypeOK, tables, handler
<1>3. ASSUME NEW m \in GrpcRequests, AskGrpc(c, m) PROVE TypeOK'
  <2>1. m \in Message BY ConsoleAssumption DEF Message
  <2>2. asks' \in [Client -> Nat] BY <1>3 DEF AskGrpc, TypeOK
  <2> QED BY <1>3, <2>1, <2>2, BeginType DEF AskGrpc, TypeOK, tables
<1>4. CASE AnswerElsewhere(c)
  BY <1>4, ToldType DEF AnswerElsewhere, TypeOK, tables, handler, history
<1>5. CASE Expire(c) BY <1>5, ToldType DEF Expire, TypeOK, tables, handler, history
<1>6. CASE Unavailable(c) BY <1>6, ToldType DEF Unavailable, TypeOK, tables, handler, history
<1>7. CASE Deliver(c) BY <1>7 DEF Deliver, TypeOK, tables, history, State
<1>8. CASE Return(c)
  <2>1. /\ pc' \in [Client -> {"idle", "sent", "served", "answered"}]
        /\ msg' \in [Client -> Message]
        /\ status' \in [Client -> {0, 200, 201, 204, 400, 500}]
        /\ asks' \in [Client -> Nat]
    BY <1>8, ToldType DEF Return, TypeOK
  <2>2. out' \in [Client -> Answer] /\ acked' \subseteq Nat
    <3>1. out[c].ids \subseteq Nat BY DEF TypeOK, Answer
    <3>2. acked' = acked \/ acked' = acked \cup out[c].ids BY <1>8 DEF Return
    <3>3. out' = out \/ out' = [out EXCEPT ![c] = Empty] BY <1>8 DEF Return
    <3>4. acked \subseteq Nat /\ out \in [Client -> Answer] BY DEF TypeOK
    <3> QED BY <3>1, <3>2, <3>3, <3>4, EmptyType
  <2>3. gone' \subseteq Nat
    <3>1. gone' = gone \/ gone' = gone \cup must[c] BY <1>8 DEF Return
    <3>2. gone \subseteq Nat /\ must[c] \subseteq Nat BY DEF TypeOK
    <3> QED BY <3>1, <3>2
  <2> QED BY <1>8, <2>1, <2>2, <2>3 DEF Return, TypeOK, tables, State
<1> QED BY <1>1, <1>2, <1>3, <1>4, <1>5, <1>6, <1>7, <1>8

LEMMA FinishType ==
  ASSUME TypeOK, NEW c \in Client, NEW a \in Answer, Finish(c, a)
  PROVE  sv' \in [Client -> State] /\ out' \in [Client -> Answer] /\ rest' = rest
BY DEF TypeOK, Finish, Goto, State

LEMMA CommittedType ==
  ASSUME TypeOK, NEW c \in Client, NEW a \in Answer, Committed(c, a)
  PROVE  sv' \in [Client -> State] /\ out' \in [Client -> Answer] /\ rest' = rest
BY FinishType, ErrorType DEF Committed

LEMMA ThresholdingType ==
  ASSUME TypeOK, TablesAreKeyed, NEW c \in Client, Thresholding(c)
  PROVE  TypeOK'
<1>0. msg[c] \in Message BY DEF TypeOK
<1>1. CASE CreateThreshold(c)
  <2>1. msg[c] \in CreateThresholdRequest /\ Valid(msg[c]) /\ Storable(msg[c])
    BY <1>0, <1>1, MessageKind DEF CreateThreshold, At
  <2>2. ids + 1 \in Nat BY DEF TypeOK
  <2>3. RowOf(msg[c], ids + 1) \in Threshold
    BY <2>1, <2>2, RowType, ConsoleAssumption DEF Storable
  <2>4. [Empty EXCEPT !.ids = {ids + 1}] \in Answer BY <2>2, EmptyType DEF Answer
  <2> QED BY <1>1, <2>2, <2>3, <2>4, CommittedType
          DEF CreateThreshold, TypeOK, caller, history
<1>2. CASE CreateViolates(c)
  BY <1>2, FinishType, ErrorType DEF CreateViolates, TypeOK, tables, caller, history
<1>3. CASE GetThresholds(c)
  <2> DEFINE found == {t \in thr : Listed(t, msg[c])}
             a == [Empty EXCEPT !.ids = {t.id : t \in found}, !.total = Int32(Cardinality(found))]
  <2>1. found \subseteq thr /\ found \subseteq Threshold BY DEF TypeOK
  <2>2. Int32(Cardinality(found)) \in Int
    BY <2>1, FS_Subset, FS_CardinalityType, Int32Type DEF TablesAreKeyed
  <2>3. {t.id : t \in found} \subseteq Nat BY <2>1 DEF Threshold
  <2>4. a \in Answer BY <2>2, <2>3, EmptyType DEF Answer
  <2>5. Finish(c, a) BY <1>3 DEF GetThresholds
  <2> HIDE DEF a
  <2> QED BY <1>3, <2>4, <2>5, FinishType DEF GetThresholds, TypeOK, tables, caller, history
<1>4. CASE UpdateThreshold(c)
  <2>1. msg[c] \in UpdateThresholdRequest BY <1>0, <1>4, MessageKind DEF UpdateThreshold, At
  <2>2. thr' \subseteq Threshold BY <1>4, <2>1, UpdatedType DEF UpdateThreshold, TypeOK
  <2> QED BY <1>4, <2>2, CommittedType, EmptyType DEF UpdateThreshold, TypeOK, caller, history
<1>5. CASE DeleteThreshold(c)
  <2>2. thr' \subseteq Threshold /\ removed' \subseteq Nat
    <3>1. thr' \subseteq thr /\ removed' = removed \cup {t.id : t \in thr \ thr'}
      BY <1>5 DEF DeleteThreshold
    <3>2. thr \subseteq Threshold /\ removed \subseteq Nat BY DEF TypeOK
    <3>3. \A t \in thr : t.id \in Nat BY <3>2 DEF Threshold
    <3> QED BY <3>1, <3>2, <3>3
  <2> QED BY <1>5, <2>2, CommittedType, EmptyType DEF DeleteThreshold, TypeOK, caller
<1> QED BY <1>1, <1>2, <1>3, <1>4, <1>5 DEF Thresholding

LEMMA SilencingType ==
  ASSUME TypeOK, NEW c \in Client, InStep(c), Silencing(c)
  PROVE  TypeOK'
<1>0. msg[c] \in Message BY DEF TypeOK
<1>1. CASE SilenceDevice(c)
  <2>1. msg[c] \in SilenceAlertRequest BY <1>0, <1>1, MessageKind DEF SilenceDevice, At
  <2>2. ids + 1 \in Nat /\ now + msg[c].duration_seconds \in Int
    BY <2>1 DEF TypeOK, SilenceAlertRequest
  <2>3. rules' \subseteq SilenceRule
    BY <1>1, <2>1, <2>2, ConsoleAssumption
    DEF SilenceDevice, TypeOK, SilenceRule, Silenceable, SilenceAlertRequest
  <2>4. [Empty EXCEPT !.ids = {ids + 1}] \in Answer BY <2>2, EmptyType DEF Answer
  <2>5. sv' \in [Client -> State] /\ out' \in [Client -> Answer] /\ rest' = rest
    <3>1. CASE Finish(c, Error("Internal")) BY <3>1, FinishType, ErrorType
    <3>2. CASE /\ Goto(c, "cache") /\ UNCHANGED rest
               /\ out' = [out EXCEPT ![c] = [Empty EXCEPT !.ids = {ids + 1}]]
      BY <2>4, <3>2 DEF TypeOK, Goto, State
    <3> QED BY <1>1, <3>1, <3>2 DEF SilenceDevice
  <2> QED BY <1>1, <2>2, <2>3, <2>5 DEF SilenceDevice, TypeOK, caller, history
<1>2. CASE SilenceViolates(c)
  BY <1>2, FinishType, ErrorType DEF SilenceViolates, TypeOK, tables, caller, history
<1>3. CASE CacheSilence(c)
  <2>1. msg[c] \in SilenceAlertRequest /\ msg[c].device_id # Blank
    BY <1>0, <1>3, MessageKind DEF CacheSilence, InStep
  <2>2. key' \subseteq Device
    BY <1>3, <2>1 DEF CacheSilence, TypeOK, SilenceAlertRequest, DeviceName
  <2> QED BY <1>3, <2>2 DEF CacheSilence, TypeOK, Goto, State, caller, history
<1>4. CASE GetSilenceState(c)
  <2> DEFINE S == {r.id : r \in {q \in rules : q.dev = msg[c].device_id /\ q.until > now}}
  <2>2. S \subseteq Nat BY DEF TypeOK, SilenceRule
  <2>3. Finish(c, [Empty EXCEPT !.ids = S]) BY <1>4 DEF GetSilenceState
  <2> HIDE DEF S
  <2>1. [Empty EXCEPT !.ids = S] \in Answer BY <2>2, EmptyType DEF Answer
  <2> QED BY <1>4, <2>1, <2>3, FinishType DEF GetSilenceState, TypeOK, tables, caller, history
<1>5. CASE ClearSilence(c)
  <2>1. rules' \subseteq rules /\ removed' \subseteq Nat
    <3>1. rules' \subseteq rules /\ removed' = removed \cup {r.id : r \in rules \ rules'}
      BY <1>5 DEF ClearSilence
    <3>2. \A r \in rules : r.id \in Nat BY DEF TypeOK, SilenceRule
    <3>3. removed \subseteq Nat BY DEF TypeOK
    <3> QED BY <3>1, <3>2, <3>3
  <2> QED BY <1>5, <2>1, CommittedType, EmptyType DEF ClearSilence, TypeOK, caller
<1> QED BY <1>1, <1>2, <1>3, <1>4, <1>5 DEF Silencing

LEMMA ReadingType ==
  ASSUME TypeOK, TablesAreKeyed, NEW c \in Client, Reading(c) \/ Streaming(c)
  PROVE  TypeOK'
<1>0. out[c] \in Answer /\ rest[c] \subseteq Alert BY DEF TypeOK
<1>10. IsFiniteSet(alerts) BY DEF TablesAreKeyed
<1> USE DEF caller, history, tables
<1>1. CASE CountActive(c)
  <2>1. Int32(Cardinality(Active(msg[c]))) \in Int
    BY <1>10, Subsets, FS_CardinalityType, Int32Type
  <2>2. [Empty EXCEPT !.total = Int32(Cardinality(Active(msg[c])))] \in Answer
    BY <2>1, EmptyType DEF Answer
  <2> QED BY <1>1, <2>2 DEF CountActive, TypeOK, Goto, State
<1>2. CASE ListActive(c)
  <2>1. PICK P \in Pages(Active(msg[c]), PageSize(msg[c]), msg[c].offset) :
          Finish(c, [out[c] EXCEPT !.alerts = P, !.active = Int32(Cardinality(P))])
    BY <1>2 DEF ListActive
  <2>2. P \subseteq Alert /\ Int32(Cardinality(P)) \in Int BY <1>10, Subsets, PageType, Int32Type
  <2>3. [out[c] EXCEPT !.alerts = P, !.active = Int32(Cardinality(P))] \in Answer
    BY <1>0, <2>2 DEF Answer
  <2> QED BY <1>2, <2>1, <2>3, FinishType DEF ListActive, TypeOK
<1>3. CASE ReadHistory(c)
  <2>1. PICK P \in Pages(Historic(msg[c]), PageSize(msg[c]), 0) :
          rest' = [rest EXCEPT ![c] = P]
    BY <1>3 DEF ReadHistory
  <2>2. P \subseteq Alert BY <1>10, Subsets, PageType
  <2> QED BY <1>3, <2>1, <2>2 DEF ReadHistory, TypeOK, Goto, State
<1>4. CASE SendAlert(c)
  <2>1. PICK a \in rest[c] : /\ rest' = [rest EXCEPT ![c] = @ \ {a}]
                             /\ out' = [out EXCEPT ![c].alerts = @ \cup {a}]
    BY <1>4 DEF SendAlert
  <2>4. [out[c] EXCEPT !.alerts = out[c].alerts \cup {a}] \in Answer BY <1>0, <2>1 DEF Answer
  <2>2. out' \in [Client -> Answer] BY <2>1, <2>4 DEF TypeOK
  <2>3. rest' \in [Client -> SUBSET Alert] BY <2>1 DEF TypeOK
  <2> QED BY <1>4, <2>2, <2>3 DEF SendAlert, TypeOK
<1>5. CASE EndStream(c) BY <1>5 DEF EndStream, TypeOK, Goto, State
<1>6. CASE SendFails(c)
  <2>1. out' \in [Client -> Answer] BY <1>0, <1>6 DEF SendFails, TypeOK, Answer
  <2> QED BY <1>6, <2>1 DEF SendFails, TypeOK, Goto, State
<1>7. CASE CountTotal(c)
  <2> DEFINE n == Cardinality(InRange(msg[c]))
  <2>1. Int32(n) \in Int BY <1>10, Subsets, FS_CardinalityType, Int32Type
  <2>2. /\ out' = [out EXCEPT ![c] = [Empty EXCEPT !.total = Int32(n)]]
        /\ wide' = [wide EXCEPT ![c] = @ \/ n > IntMax]
    BY <1>7 DEF CountTotal, Counted
  <2> HIDE DEF n
  <2>3. [Empty EXCEPT !.total = Int32(n)] \in Answer BY <2>1, EmptyType DEF Answer
  <2>4. wide' \in [Client -> BOOLEAN] BY <2>2 DEF TypeOK
  <2> QED BY <1>7, <2>2, <2>3, <2>4 DEF CountTotal, TypeOK, Goto, State
<1>8. CASE CountUnresolved(c)
  <2> DEFINE n == Cardinality({a \in alerts : a.dev = msg[c].device_id})
  <2>1. Int32(n) \in Int BY <1>10, FS_Subset, FS_CardinalityType, Int32Type
  <2>2. out' = [out EXCEPT ![c].active = Int32(n)] /\ wide' = [wide EXCEPT ![c] = @ \/ n > IntMax]
    BY <1>8 DEF CountUnresolved, Counted
  <2> HIDE DEF n
  <2>3. out' \in [Client -> Answer] BY <1>0, <2>1, <2>2 DEF TypeOK, Answer
  <2>4. wide' \in [Client -> BOOLEAN] BY <2>2 DEF TypeOK
  <2> QED BY <1>8, <2>3, <2>4 DEF CountUnresolved, TypeOK, Goto, State
<1>9. CASE CountBySeverity(c)
  <2> DEFINE n == BySeverity(InRange(msg[c]))
             a == [out[c] EXCEPT !.by = [s \in Severity |-> Int32(n[s])]]
  <2>1. n \in [Severity -> Nat] BY <1>10, Subsets, BySeverityType
  <2>2. Finish(c, a) /\ wide' = [wide EXCEPT ![c] = @ \/ \E s \in Severity : n[s] > IntMax]
    BY <1>9 DEF CountBySeverity
  <2> HIDE DEF n
  <2>3. \A s \in Severity : Int32(n[s]) \in Int BY <2>1, Int32Type
  <2>4. a \in Answer BY <1>0, <2>3 DEF Answer
  <2> HIDE DEF a
  <2>5. wide' \in [Client -> BOOLEAN] BY <2>2 DEF TypeOK
  <2> QED BY <1>9, <2>2, <2>4, <2>5, FinishType DEF CountBySeverity, TypeOK
<1> QED BY <1>1, <1>2, <1>3, <1>4, <1>5, <1>6, <1>7, <1>8, <1>9 DEF Reading, Streaming

LEMMA WorldType ==
  ASSUME TypeOK,
         \/ Start \/ Signal \/ GracefulStop \/ Crash \/ Tick
         \/ \E d \in Registered, m \in Metric, s \in Severity, t \in 1..MaxTime : Fire(d, m, s, t)
         \/ \E t \in 1..MaxTime : DropAlerts(t)
  PROVE  TypeOK'
<1> USE DEF caller, history, tables, handler
<1>1. CASE Start \/ Signal \/ GracefulStop
  <2>1. svc' \in {"up", "draining", "down"} /\ UNCHANGED <<now, tables, caller, handler, history>>
    BY <1>1 DEF Start, Signal, GracefulStop
  <2> QED BY <2>1 DEF TypeOK
<1>5. CASE Tick
  <2>1. now' \in Nat BY <1>5 DEF TypeOK, Tick
  <2> QED BY <1>5, <2>1 DEF TypeOK, Tick
<1>2. CASE Crash BY <1>2, EmptyType DEF TypeOK, Crash, State
<1>3. ASSUME NEW d \in Registered, NEW m \in Metric, NEW s \in Severity, NEW t \in 1..MaxTime,
             Fire(d, m, s, t)
      PROVE  TypeOK'
  BY <1>3, ConsoleAssumption DEF TypeOK, Fire, Alert
<1>4. ASSUME NEW t \in 1..MaxTime, DropAlerts(t) PROVE TypeOK'
  BY <1>4 DEF TypeOK, DropAlerts
<1> QED BY <1>1, <1>2, <1>3, <1>4, <1>5

-----------------------------------------------------------------------------
(* Tables. *)

LEMMA OntoFinite ==
  ASSUME NEW S, NEW T, IsFiniteSet(S), NEW f \in [S -> T], \A y \in T : \E x \in S : f[x] = y
  PROVE  IsFiniteSet(T) /\ Cardinality(T) <= Cardinality(S)
<1>1. f \in Surjection(S, T) BY Fun_IsSurj
<1> QED BY <1>1, FS_Surjection

Keyed == IdsAreGiven /\ TablesAreKeyed /\ DeletedAreRemoved

\* What a step may do to the tables while a request is under way, but for the
\* retention policy.
World ==
  /\ ids <= ids' /\ now <= now' /\ removed \subseteq removed'
  /\ \A t \in thr : \/ t.id \in removed'
                    \/ \E u \in thr' : /\ u.id = t.id /\ u.dev = t.dev
                                       /\ u.metric = t.metric /\ (t.on => u.on)
  /\ \A r \in rules' : r \in rules \/ r.id > ids
  /\ alerts \subseteq alerts'
  /\ \A a \in alerts' : a \in alerts \/ a.id > ids

LEMMA TablesAtRest ==
  ASSUME TypeOK, Keyed, UNCHANGED <<now, tables, removed, acked, gone>>
  PROVE  World /\ Keyed'
<1>1. World BY DEF World, tables, TypeOK
<1>2. Keyed' BY DEF Keyed, IdsAreGiven, TablesAreKeyed, DeletedAreRemoved, tables
<1> QED BY <1>1, <1>2

LEMMA InitKeyed == Init => Keyed
BY ConsoleAssumption DEF Init, Keyed, IdsAreGiven, TablesAreKeyed, DeletedAreRemoved, Threshold

LEMMA ReturnTables ==
  ASSUME TypeOK, Keyed, NEW c \in Client, HoldsGivenIds(c), DeletionIsDone(c), Return(c)
  PROVE  World /\ Keyed'
<1>1. UNCHANGED <<now, tables, removed>> BY DEF Return
<1>2. World BY <1>1 DEF World, tables, TypeOK
<1>3. acked' \subseteq 0..ids
  BY DEF Return, HoldsGivenIds, Keyed, IdsAreGiven
<1>4. gone' \subseteq removed
  <2>1. gone' = gone \/ (/\ pc[c] = "served" /\ msg[c].rpc = "DeleteThreshold"
                         /\ status'[c] = 204 /\ Told(c, out[c].code)
                         /\ gone' = gone \cup must[c])
    BY DEF Return
  <2>2. status'[c] = 204 /\ Told(c, out[c].code) => out[c].code = "OK"
    BY StatusType DEF Told, TypeOK
  <2>3. sv[c] = "reply" BY DEF Return
  <2>4. gone \subseteq removed BY DEF Keyed, DeletedAreRemoved
  <2> QED BY <2>1, <2>2, <2>3, <2>4 DEF DeletionIsDone
<1> QED BY <1>1, <1>2, <1>3, <1>4
        DEF Keyed, IdsAreGiven, TablesAreKeyed, DeletedAreRemoved, tables

LEMMA CreateTables ==
  ASSUME TypeOK, Keyed, NEW c \in Client, CreateThreshold(c)
  PROVE  World /\ Keyed'
<1> DEFINE row == RowOf(msg[c], ids + 1)
<1>1. /\ thr' = thr \cup {row} /\ row.id = ids + 1 /\ ids' = ids + 1
      /\ UNCHANGED <<now, rules, alerts, removed, acked, gone>>
  BY DEF CreateThreshold, RowOf, history
<1> HIDE DEF row
<1>2. /\ ids \in Nat /\ now \in Nat /\ \A t \in thr : t.id \in Nat
      /\ \A r \in rules : r.id \in Nat
  BY DEF TypeOK, Threshold, SilenceRule
<1>3. \A a \in alerts : a.id \in Nat BY DEF TypeOK, Alert
<1>4. World BY <1>1, <1>2 DEF World
<1>5. IdsAreGiven' BY <1>1, <1>2, <1>3 DEF Keyed, IdsAreGiven
<1>6. IsFiniteSet(thr') BY <1>1, FS_AddElement DEF Keyed, TablesAreKeyed
<1>7. TablesAreKeyed' BY <1>1, <1>2, <1>6 DEF Keyed, TablesAreKeyed, IdsAreGiven
<1>8. DeletedAreRemoved' BY <1>1, <1>2 DEF Keyed, IdsAreGiven, DeletedAreRemoved
<1> QED BY <1>4, <1>5, <1>7, <1>8 DEF Keyed

LEMMA UpdateTables ==
  ASSUME TypeOK, Keyed, NEW c \in Client, UpdateThreshold(c)
  PROVE  World /\ Keyed'
<1> DEFINE up(t) == IF t.id = msg[c].threshold_id THEN Updated(t, msg[c]) ELSE t
<1>1. /\ thr' = {up(t) : t \in thr}
      /\ UNCHANGED <<now, ids, rules, alerts, removed, acked, gone>>
  BY DEF UpdateThreshold, history
<1>2. msg[c] \in UpdateThresholdRequest BY MessageKind DEF UpdateThreshold, At, TypeOK
<1>3. \A t \in thr : /\ up(t).id = t.id /\ up(t).dev = t.dev /\ up(t).metric = t.metric
                     /\ (t.on => up(t).on)
  BY <1>2, UpdatedType DEF TypeOK
<1>4. IsFiniteSet(thr')
  <2> DEFINE f == [t \in thr |-> up(t)]
  <2>1. f \in [thr -> thr'] /\ \A u \in thr' : \E t \in thr : f[t] = u BY <1>1
  <2> HIDE DEF f
  <2> QED BY <2>1, OntoFinite DEF Keyed, TablesAreKeyed
<1> HIDE DEF up
<1>5. World BY <1>1, <1>3 DEF World, TypeOK
<1>6. IdsAreGiven' BY <1>1, <1>3 DEF Keyed, IdsAreGiven
<1>7. TablesAreKeyed' BY <1>1, <1>3, <1>4 DEF Keyed, TablesAreKeyed
<1>8. DeletedAreRemoved' BY <1>1, <1>3 DEF Keyed, DeletedAreRemoved
<1> QED BY <1>5, <1>6, <1>7, <1>8 DEF Keyed

LEMMA DeleteTables ==
  ASSUME TypeOK, Keyed, NEW c \in Client, DeletionIsDone(c), DeleteThreshold(c)
  PROVE  World /\ Keyed' /\ must[c] \subseteq removed'
<1> DEFINE i == msg[c].threshold_id
<1>1. /\ thr' = {t \in thr : t.id # i} /\ removed' = removed \cup {t.id : t \in thr \ thr'}
      /\ UNCHANGED <<now, ids, rules, alerts, acked, gone>>
      /\ msg[c].rpc = "DeleteThreshold" /\ sv[c] = "begin"
  BY DEF DeleteThreshold, At
<1>2. must[c] \subseteq {i} /\ must[c] \subseteq removed \cup {t.id : t \in thr}
  BY <1>1 DEF DeletionIsDone, Pending
<1> HIDE DEF i
<1>9. must[c] \subseteq removed'
  <2> SUFFICES ASSUME NEW n \in must[c], n \notin removed PROVE n \in removed' BY <1>1
  <2>1. PICK t \in thr : t.id = n BY <1>2
  <2>2. t \notin thr' BY <1>1, <1>2, <2>1
  <2> QED BY <1>1, <2>1, <2>2
<1>3. ids \in Nat /\ now \in Nat /\ \A t \in thr : t.id \in Nat BY DEF TypeOK, Threshold
<1>4. World BY <1>1, <1>3 DEF World
<1>6. thr' \subseteq thr /\ \A t \in thr' : t.id # i BY <1>1
<1>5. IdsAreGiven'
  <2>2. \A t \in thr : t.id \in 0..ids BY <1>3 DEF Keyed, IdsAreGiven
  <2>1. removed' \subseteq 0..ids BY <1>1, <2>2 DEF Keyed, IdsAreGiven
  <2> QED BY <1>1, <1>6, <2>1 DEF Keyed, IdsAreGiven
<1>7. TablesAreKeyed' BY <1>1, <1>6, FS_Subset DEF Keyed, TablesAreKeyed
<1>8. DeletedAreRemoved'
  <2>1. \A t \in thr \ thr' : t.id = i BY <1>1
  <2> QED BY <1>1, <1>6, <2>1 DEF Keyed, DeletedAreRemoved
<1> QED BY <1>4, <1>5, <1>7, <1>8, <1>9 DEF Keyed

LEMMA SilenceTables ==
  ASSUME TypeOK, Keyed, NEW c \in Client, SilenceDevice(c)
  PROVE  World /\ Keyed'
<1> DEFINE row == [id |-> ids + 1, dev |-> msg[c].device_id, metric |-> msg[c].metric_name,
                   until |-> now + msg[c].duration_seconds]
<1>1. /\ rules' = rules \cup {row} /\ row.id = ids + 1 /\ ids' = ids + 1
      /\ UNCHANGED <<now, thr, alerts, removed, acked, gone>>
  BY DEF SilenceDevice, history
<1> HIDE DEF row
<1>2. /\ ids \in Nat /\ now \in Nat /\ \A t \in thr : t.id \in Nat
      /\ \A r \in rules : r.id \in Nat
  BY DEF TypeOK, Threshold, SilenceRule
<1>3. \A a \in alerts : a.id \in Nat BY DEF TypeOK, Alert
<1>4. World BY <1>1, <1>2 DEF World
<1>5. IdsAreGiven' BY <1>1, <1>2, <1>3 DEF Keyed, IdsAreGiven
<1>7. TablesAreKeyed' BY <1>1, <1>2 DEF Keyed, TablesAreKeyed, IdsAreGiven
<1>8. DeletedAreRemoved' BY <1>1 DEF Keyed, DeletedAreRemoved
<1> QED BY <1>4, <1>5, <1>7, <1>8 DEF Keyed

LEMMA ClearTables ==
  ASSUME TypeOK, Keyed, NEW c \in Client, ClearSilence(c)
  PROVE  World /\ Keyed'
<1>1. /\ rules' \subseteq rules /\ removed' = removed \cup {r.id : r \in rules \ rules'}
      /\ UNCHANGED <<now, thr, ids, alerts, acked, gone>>
  BY DEF ClearSilence
<1>2. /\ ids \in Nat /\ now \in Nat /\ \A r \in rules : r.id \in Nat
  BY DEF TypeOK, SilenceRule
<1>4. World BY <1>1, <1>2 DEF World
<1>5. IdsAreGiven'
  <2>1. \A r \in rules : r.id \in 0..ids BY <1>2 DEF Keyed, IdsAreGiven
  <2>2. removed' \subseteq 0..ids' BY <1>1, <2>1 DEF Keyed, IdsAreGiven
  <2> QED BY <1>1, <2>2 DEF Keyed, IdsAreGiven
<1>7. TablesAreKeyed' BY <1>1 DEF Keyed, TablesAreKeyed
<1>8. DeletedAreRemoved' BY <1>1 DEF Keyed, DeletedAreRemoved, TablesAreKeyed
<1> QED BY <1>4, <1>5, <1>7, <1>8 DEF Keyed

LEMMA FireTables ==
  ASSUME TypeOK, Keyed, NEW d, NEW m, NEW s, NEW t, Fire(d, m, s, t)
  PROVE  World /\ Keyed'
<1> DEFINE row == [id |-> ids + 1, dev |-> d, metric |-> m, sev |-> s, at |-> t, put |-> now]
<1>1. /\ alerts' = alerts \cup {row} /\ row.id = ids + 1 /\ ids' = ids + 1
      /\ UNCHANGED <<now, thr, rules, removed, acked, gone>>
  BY DEF Fire, history
<1> HIDE DEF row
<1>2. /\ ids \in Nat /\ now \in Nat /\ \A x \in thr : x.id \in Nat
      /\ \A r \in rules : r.id \in Nat
  BY DEF TypeOK, Threshold, SilenceRule
<1>3. \A a \in alerts : a.id \in Nat BY DEF TypeOK, Alert
<1>4. World BY <1>1, <1>2 DEF World
<1>5. IdsAreGiven' BY <1>1, <1>2, <1>3 DEF Keyed, IdsAreGiven
<1>6. IsFiniteSet(alerts') BY <1>1, FS_AddElement DEF Keyed, TablesAreKeyed
<1>7. TablesAreKeyed' BY <1>1, <1>2, <1>3, <1>6 DEF Keyed, TablesAreKeyed, IdsAreGiven
<1>8. DeletedAreRemoved' BY <1>1 DEF Keyed, DeletedAreRemoved
<1> QED BY <1>4, <1>5, <1>7, <1>8 DEF Keyed

LEMMA DropTables ==
  ASSUME TypeOK, Keyed, NEW t, DropAlerts(t)
  PROVE  Keyed' /\ alerts' \subseteq alerts
<1>1. /\ alerts' \subseteq alerts /\ UNCHANGED <<ids, thr, rules, removed, acked, gone>>
  BY DEF DropAlerts
<1>2. TablesAreKeyed' BY <1>1, FS_Subset DEF Keyed, TablesAreKeyed
<1> QED BY <1>1, <1>2 DEF Keyed, IdsAreGiven, DeletedAreRemoved

-----------------------------------------------------------------------------
(* One request. *)

Sound(c) == InStep(c) /\ HoldsGivenIds(c) /\ DeletionIsDone(c) /\ Kept(c)

\* The step leaves the request of c alone.
Same(c) ==
  /\ pc'[c] = pc[c] /\ msg'[c] = msg[c] /\ sv'[c] = sv[c] /\ out'[c] = out[c]
  /\ rest'[c] = rest[c] /\ status'[c] = status[c] /\ must'[c] = must[c]
  /\ wide'[c] = wide[c]

\* A request that only reads its answer from the tables is told apart by its name.
Reads == {"GetThresholds", "GetSilenceState", "GetActiveAlerts", "QueryAlertHistory",
          "GetAlertStats"}

LEMMA NothingToKeep ==
  ASSUME NEW c, msg'[c].rpc \notin Reads
  PROVE  Kept(c)'
BY DEF Kept, Reads, ThresholdsAreKept, RulesAreKept, ActiveAreKept, HistoryIsKept, StatsAreKept

\* Nor is there anything to keep for a request that was answered with an error.
LEMMA NothingPending ==
  ASSUME NEW c, ~Pending(c)', ~Settled(c)', sv'[c] \in {"none", "reply"}
  PROVE  Kept(c)'
BY DEF Kept, ThresholdsAreKept, RulesAreKept, ActiveAreKept, HistoryIsKept, StatsAreKept

LEMMA GivenIdsStay ==
  ASSUME TypeOK, NEW c \in Client, HoldsGivenIds(c), ids' \in Nat, ids <= ids',
         must'[c] \subseteq must[c], out'[c].ids \subseteq 0..ids'
  PROVE  HoldsGivenIds(c)'
BY DEF HoldsGivenIds, TypeOK

\* What a deletion is to remove stays, or is removed.
LEMMA DeletionStays ==
  ASSUME NEW c, DeletionIsDone(c), removed \subseteq removed',
         \A t \in thr : t.id \in removed' \/ \E u \in thr' : u.id = t.id,
         msg'[c] = msg[c], must'[c] \subseteq must[c], Pending(c)' => Pending(c),
         sv'[c] = "reply" /\ out'[c].code = "OK" => sv[c] = "reply" /\ out[c].code = "OK"
  PROVE  DeletionIsDone(c)'
BY DEF DeletionIsDone

\* New alerts have new ids.
LEMMA OldAlerts ==
  ASSUME TypeOK, Keyed, World, NEW c \in Client, HoldsGivenIds(c), NEW a \in alerts',
         a.id \in must[c]
  PROVE  a \in alerts
BY DEF World, HoldsGivenIds, TypeOK

LEMMA OldRules ==
  ASSUME TypeOK, Keyed, World, NEW c \in Client, HoldsGivenIds(c), NEW r \in rules',
         r.id \in must[c]
  PROVE  r \in rules
BY DEF World, HoldsGivenIds, TypeOK

LEMMA MissesOlderStays ==
  ASSUME TypeOK, Keyed, World, NEW c \in Client, HoldsGivenIds(c),
         msg'[c] = msg[c], must'[c] = must[c], NEW P, MissesOlder(c, P)
  PROVE  /\ \A a \in alerts' : a.id \in must'[c] /\ a \notin P =>
              Cardinality(P) = PageSize(msg'[c]) /\ \A b \in P : b.at >= a.at
         /\ MissesOlder(c, P)'
BY OldAlerts DEF MissesOlder, PageSize

\* What is kept stays kept in a step of somebody else, and in one that takes the
\* request no further.
LEMMA KeptStays ==
  ASSUME TypeOK, TypeOK', Keyed, World, NEW c \in Client, HoldsGivenIds(c), Kept(c),
         msg'[c] = msg[c], out'[c] = out[c], must'[c] = must[c], wide'[c] = wide[c],
         sv'[c] = "stream" => rest'[c] = rest[c],
         sv'[c] = sv[c] \/ sv'[c] \in {"none", "begin", "reply"},
         Pending(c)' => Pending(c), Settled(c)' => Settled(c)
  PROVE  Kept(c)'
<1>1. ThresholdsAreKept(c)'
  BY DEF Kept, ThresholdsAreKept, World, Listed
<1>2. RulesAreKept(c)'
  <2>1. now \in Nat /\ now' \in Nat /\ now <= now' BY DEF TypeOK, World
  <2>2. \A r \in rules : r.until \in Int BY DEF TypeOK, SilenceRule
  <2> QED BY <2>1, <2>2, OldRules DEF Kept, RulesAreKept
<1>3. ActiveAreKept(c)'
  <2>1. ASSUME msg[c].rpc = "GetActiveAlerts", Pending(c) \/ sv[c] = "list",
               NEW a \in alerts', a.id \in must[c]
        PROVE  a \in Active(msg[c])'
    <3>1. a \in alerts /\ a \in Active(msg[c]) BY <2>1, OldAlerts DEF Kept, ActiveAreKept
    <3> QED BY <3>1 DEF Active
  <2>2. msg[c].rpc = "GetActiveAlerts" /\ Settled(c) /\ msg[c].offset = 0
          => MissesOlder(c, out[c].alerts)'
    BY MissesOlderStays DEF Kept, ActiveAreKept
  <2> QED BY <2>1, <2>2 DEF ActiveAreKept, Active, MissesOlder
<1>4. HistoryIsKept(c)'
  <2>1. ASSUME msg[c].rpc = "QueryAlertHistory", Pending(c), NEW a \in alerts', a.id \in must[c]
        PROVE  a \in Historic(msg[c])'
    <3>1. a \in alerts /\ a \in Historic(msg[c]) BY <2>1, OldAlerts DEF Kept, HistoryIsKept
    <3> QED BY <3>1 DEF Historic
  <2>2. msg[c].rpc = "QueryAlertHistory" =>
          /\ Settled(c) => MissesOlder(c, out[c].alerts)'
          /\ sv[c] = "stream" =>
               \A a \in alerts' : a.id \in must'[c] /\ a \notin out[c].alerts \cup rest[c] =>
                 /\ Cardinality(out[c].alerts \cup rest[c]) = PageSize(msg'[c])
                 /\ \A b \in out[c].alerts \cup rest[c] : b.at >= a.at
    BY MissesOlderStays DEF Kept, HistoryIsKept
  <2> QED BY <2>1, <2>2 DEF HistoryIsKept, Historic, MissesOlder
<1>5. StatsAreKept(c)'
  <2>1. InRange(msg[c]) \subseteq InRange(msg[c])' BY DEF InRange, World
  <2> QED BY <2>1 DEF Kept, StatsAreKept, InRange
<1> QED BY <1>1, <1>2, <1>3, <1>4, <1>5 DEF Kept

LEMMA SameStays ==
  ASSUME TypeOK, TypeOK', Keyed, World, NEW c \in Client, Same(c), Sound(c)
  PROVE  Sound(c)'
<1> USE DEF Sound, Same
<1>1. InStep(c)' BY DEF InStep, Empty, NoCount
<1>2. HoldsGivenIds(c)'
  <2>1. ids \in Nat /\ ids' \in Nat /\ ids <= ids' BY DEF TypeOK, World
  <2>2. out'[c].ids \subseteq 0..ids' BY <2>1 DEF HoldsGivenIds
  <2> QED BY <2>1, <2>2, GivenIdsStay
<1>4. (Pending(c)' => Pending(c)) /\ (Settled(c)' => Settled(c)) BY DEF Pending, Settled
<1>3. DeletionIsDone(c)' BY <1>4, DeletionStays DEF World
<1>5. Kept(c)' BY <1>4, KeptStays
<1> QED BY <1>1, <1>2, <1>3, <1>5

\* The retention policy takes an alert and what is owed of it.
LEMMA DropStays ==
  ASSUME TypeOK, TypeOK', Keyed, NEW t, DropAlerts(t), NEW c \in Client, Sound(c)
  PROVE  Sound(c)'
<1> DEFINE D == {a.id : a \in alerts \ alerts'}
<1>1. /\ alerts' \subseteq alerts /\ must'[c] = must[c] \ D
      /\ pc' = pc /\ msg' = msg /\ sv' = sv /\ out' = out /\ rest' = rest /\ status' = status
      /\ UNCHANGED <<now, thr, rules, ids, removed, wide>>
  BY DEF DropAlerts, caller, handler
<1>2. must'[c] \subseteq must[c] BY <1>1
<1>3. \A a \in alerts : a.id \notin D => a \in alerts' OBVIOUS
<1> HIDE DEF D
<1>4. InStep(c)' BY <1>1 DEF Sound, InStep, Empty, NoCount
<1>5. HoldsGivenIds(c)'
  <2>1. ids \in Nat /\ ids' \in Nat /\ ids <= ids' BY <1>1 DEF TypeOK
  <2>2. out'[c].ids \subseteq 0..ids' BY <1>1 DEF Sound, HoldsGivenIds
  <2> QED BY <1>1, <1>2, <2>1, <2>2, GivenIdsStay DEF Sound
<1>7. (Pending(c)' <=> Pending(c)) /\ (Settled(c)' <=> Settled(c)) BY <1>1 DEF Pending, Settled
<1>6. DeletionIsDone(c)' BY <1>1, <1>2, <1>7, DeletionStays DEF Sound
<1>8. \A P : MissesOlder(c, P) => MissesOlder(c, P)'
  BY <1>1, <1>2 DEF MissesOlder, PageSize
<1>9. Cardinality(must'[c]) <= Cardinality(must[c]) /\ Cardinality(must'[c]) \in Nat
      /\ Cardinality(must[c]) \in Nat
  <2>1. ids \in Nat /\ 0 \in Int /\ ids \in Int BY DEF TypeOK
  <2>2. IsFiniteSet(0..ids) BY <2>1, FS_Interval
  <2>3. IsFiniteSet(must[c]) BY <2>2, FS_Subset DEF Sound, HoldsGivenIds
  <2> QED BY <1>2, <2>3, FS_Subset, FS_CardinalityType
<1>10. Kept(c)'
  <2>1. ThresholdsAreKept(c)'
    BY <1>1, <1>2, <1>7 DEF Sound, Kept, ThresholdsAreKept, Listed
  <2>2. RulesAreKept(c)' BY <1>1, <1>2, <1>7 DEF Sound, Kept, RulesAreKept
  <2>3. ActiveAreKept(c)'
    <3>1. Active(msg[c])' = Active(msg[c]) \cap alerts' BY <1>1 DEF Active
    <3>2. msg[c].rpc = "GetActiveAlerts" /\ Settled(c) /\ msg[c].offset = 0
            => MissesOlder(c, out[c].alerts)'
      BY <1>1, <1>8 DEF Sound, Kept, ActiveAreKept
    <3> QED BY <1>1, <1>2, <1>7, <3>1, <3>2 DEF Sound, Kept, ActiveAreKept, Active, MissesOlder
  <2>4. HistoryIsKept(c)'
    <3>1. Historic(msg[c])' = Historic(msg[c]) \cap alerts' BY <1>1 DEF Historic
    <3>2. msg[c].rpc = "QueryAlertHistory" =>
            /\ Settled(c) => MissesOlder(c, out[c].alerts)'
            /\ sv[c] = "stream" => MissesOlder(c, out[c].alerts \cup rest[c])'
      BY <1>1, <1>8 DEF Sound, Kept, HistoryIsKept
    <3> QED BY <1>1, <1>2, <1>7, <3>1, <3>2 DEF Sound, Kept, HistoryIsKept, Historic, MissesOlder
  <2>5. StatsAreKept(c)'
    <3>1. InRange(msg[c])' = InRange(msg[c]) \cap alerts' BY <1>1 DEF InRange
    <3>2. InRange(msg[c]) \subseteq alerts BY DEF InRange
    <3>3. must[c] \subseteq {a.id : a \in InRange(msg[c])}
            => must'[c] \subseteq {a.id : a \in InRange(msg[c])'}
      BY <1>1, <1>3, <3>1, <3>2
    <3>4. /\ out[c].total \in Int /\ out[c].active \in Int /\ out[c].by["CRITICAL"] \in Int
          /\ out[c].by["WARNING"] \in Int /\ out[c].by["INFO"] \in Int
      BY DEF TypeOK, Answer, Severity
    <3>5. \A x \in Int : Cardinality(must[c]) <= x => Cardinality(must'[c]) <= x BY <1>9
    <3>6. out[c].by["CRITICAL"] + out[c].by["WARNING"] + out[c].by["INFO"] \in Int BY <3>4
    <3> HIDE DEF InRange
    <3> QED BY <1>1, <1>7, <3>3, <3>4, <3>5, <3>6 DEF Sound, Kept, StatsAreKept, InRange
  <2> QED BY <2>1, <2>2, <2>3, <2>4, <2>5 DEF Kept
<1> QED BY <1>4, <1>5, <1>6, <1>10 DEF Sound

LEMMA BeginSound ==
  ASSUME TypeOK, TypeOK', Keyed, NEW c \in Client, NEW m \in Message, Ready(c), Begin(c, m),
         UNCHANGED <<now, tables, sv, removed>>
  PROVE  Sound(c)'
<1>1. /\ pc'[c] = "sent" /\ msg'[c] = m /\ out'[c] = Empty /\ must'[c] = OnRecord(m)
      /\ sv'[c] = "none" /\ status'[c] = 0
  BY DEF Begin, Ready, TypeOK
<1>2. InStep(c)' BY <1>1 DEF InStep, Empty, NoCount
<1>3. HoldsGivenIds(c)'
  <2>1. OnRecord(m) \subseteq 0..ids
    <3>1. (\A x \in thr : x.id \in Nat) /\ (\A x \in rules : x.id \in Nat)
      BY DEF TypeOK, Threshold, SilenceRule
    <3>2. (\A x \in alerts : x.id \in Nat) /\ ids \in Nat BY DEF TypeOK, Alert
    <3> QED BY <3>1, <3>2 DEF OnRecord, Keyed, IdsAreGiven
  <2>2. Empty.ids = {} BY DEF Empty
  <2> QED BY <1>1, <2>1, <2>2 DEF HoldsGivenIds, tables
<1>4. DeletionIsDone(c)'
  <2> SUFFICES ASSUME m.rpc = "DeleteThreshold"
               PROVE  OnRecord(m) \subseteq {m.threshold_id} /\ OnRecord(m) \subseteq {t.id : t \in thr}
    BY <1>1 DEF DeletionIsDone, tables
  <2> QED BY DEF OnRecord
<1>5. ~Settled(c)' BY <1>1 DEF Settled
<1>6. Kept(c)'
  <2>1. ThresholdsAreKept(c)'
    <3> SUFFICES ASSUME m.rpc = "GetThresholds", NEW i \in OnRecord(m)
                 PROVE  \E t \in thr : t.id = i /\ Listed(t, m)
      BY <1>1, <1>5 DEF ThresholdsAreKept, Listed, tables
    <3> QED BY DEF OnRecord, Listed
  <2>2. RulesAreKept(c)'
    <3> SUFFICES ASSUME m.rpc = "GetSilenceState", NEW r \in rules, r.id \in OnRecord(m)
                 PROVE  r.dev = m.device_id
      BY <1>1, <1>5 DEF RulesAreKept, tables
    <3> QED BY DEF OnRecord, Keyed, TablesAreKeyed
  <2>3. ActiveAreKept(c)'
    <3> SUFFICES ASSUME m.rpc = "GetActiveAlerts", NEW a \in alerts, a.id \in OnRecord(m)
                 PROVE  a \in Active(m)
      BY <1>1, <1>5 DEF ActiveAreKept, Active, tables
    <3> QED BY DEF OnRecord, Keyed, TablesAreKeyed, Active
  <2>4. HistoryIsKept(c)'
    <3> SUFFICES ASSUME m.rpc = "QueryAlertHistory", NEW a \in alerts, a.id \in OnRecord(m)
                 PROVE  a \in Historic(m)
      BY <1>1, <1>5 DEF HistoryIsKept, Historic, tables
    <3>1. PICK b \in alerts : b.id = a.id /\ b.dev = m.device_id /\ b.at \in m.start_time..m.end_time
                              /\ m.metric_name \in {Blank, b.metric}
      BY DEF OnRecord
    <3>2. b = a BY <3>1 DEF Keyed, TablesAreKeyed
    <3> QED BY <3>1, <3>2 DEF Historic
  <2>5. StatsAreKept(c)'
    <3> SUFFICES ASSUME m.rpc = "GetAlertStats", NEW i \in OnRecord(m)
                 PROVE  \E a \in InRange(m) : i = a.id
      BY <1>1, <1>5 DEF StatsAreKept, InRange, tables
    <3>1. PICK b \in alerts : b.id = i /\ b.dev = m.device_id /\ b.at \in m.start_time..m.end_time
      BY DEF OnRecord
    <3> QED BY <3>1 DEF InRange
  <2> QED BY <2>1, <2>2, <2>3, <2>4, <2>5 DEF Kept
<1> QED BY <1>2, <1>3, <1>4, <1>6 DEF Sound

\* A handler that ends with an error.
LEMMA ErrorSound ==
  ASSUME TypeOK, TypeOK', Keyed, World, NEW c \in Client, Sound(c), sv[c] # "none",
         UNCHANGED <<pc, msg, status>>, must' = must,
         sv'[c] = "reply", out'[c].code # "OK", out'[c].ids \subseteq 0..ids'
  PROVE  Sound(c)'
<1>1. InStep(c)' BY DEF Sound, InStep, Empty, NoCount
<1>2. HoldsGivenIds(c)' BY GivenIdsStay DEF Sound, World, TypeOK
<1>4. ~Pending(c)' /\ ~Settled(c)' BY DEF Sound, InStep, Pending, Settled
<1>3. DeletionIsDone(c)' BY <1>4, DeletionStays DEF Sound, World
<1> QED BY <1>1, <1>2, <1>3, <1>4, NothingPending DEF Sound

\* A handler of a call that changes something ends with success.
LEMMA ChangeSound ==
  ASSUME TypeOK, TypeOK', Keyed, World, NEW c \in Client, Sound(c), sv[c] # "none",
         UNCHANGED <<pc, msg, status>>, must' = must, msg[c].rpc \notin Reads,
         sv'[c] = "reply" \/ (sv'[c] = "cache" /\ msg[c].rpc = "SilenceAlert" /\ msg[c].device_id # Blank),
         out'[c].ids \subseteq 0..ids',
         msg[c].rpc = "DeleteThreshold" => must[c] \subseteq removed'
  PROVE  Sound(c)'
<1>1. InStep(c)' BY DEF Sound, InStep, Empty, NoCount
<1>2. HoldsGivenIds(c)' BY GivenIdsStay DEF Sound, World, TypeOK
<1>3. DeletionIsDone(c)'
  <2>1. pc[c] # "sent" BY DEF Sound, InStep
  <2> QED BY <2>1 DEF Sound, DeletionIsDone, Pending
<1> QED BY <1>1, <1>2, <1>3, NothingToKeep DEF Sound

-----------------------------------------------------------------------------
(* The steps of a caller. *)

\* Two callers meet only in the tables.
LEMMA AskSound ==
  ASSUME TypeOK, TypeOK', Keyed, NEW c \in Client,
         \A d \in Client : Sound(d),
         \/ \E q \in HttpRequests : AskHttp(c, q)
         \/ \E m \in GrpcRequests : AskGrpc(c, m)
  PROVE  Keyed' /\ \A d \in Client : Sound(d)'
<1>1. PICK m \in Message : Ready(c) /\ Begin(c, m)
  <2>1. ASSUME NEW q \in HttpRequests, AskHttp(c, q)
        PROVE  Call(q) \in Message /\ Ready(c) /\ Begin(c, Call(q))
    BY <2>1, CallIsMessage, ConsoleAssumption DEF AskHttp
  <2>2. ASSUME NEW q \in GrpcRequests, AskGrpc(c, q)
        PROVE  q \in Message /\ Ready(c) /\ Begin(c, q)
    BY <2>2, ConsoleAssumption DEF AskGrpc, Message
  <2> QED BY <2>1, <2>2
<1>2. UNCHANGED <<now, tables, sv, rest, acked, removed, gone>> BY DEF AskHttp, AskGrpc
<1>3. World /\ Keyed' BY <1>2, TablesAtRest
<1>4. Sound(c)' BY <1>1, <1>2, BeginSound
<1>5. \A d \in Client \ {c} : Same(d) BY <1>1, <1>2 DEF Begin, Same, TypeOK
<1> QED BY <1>3, <1>4, <1>5, SameStays

LEMMA AnswerLocallySound ==
  ASSUME TypeOK, TypeOK', Keyed, NEW c \in Client, \A d \in Client : Sound(d),
         NEW q, AnswerLocally(c, q)
  PROVE  Keyed' /\ \A d \in Client : Sound(d)'
<1>1. World /\ Keyed' BY TablesAtRest DEF AnswerLocally
<1>2. \A d \in Client \ {c} : Same(d) BY DEF AnswerLocally, Same, TypeOK, handler
<1>3. /\ pc'[c] = "answered" /\ msg'[c] = NoCall /\ must'[c] = {} /\ sv'[c] = "none"
      /\ out'[c] = out[c] /\ ids' = ids
  BY DEF AnswerLocally, TypeOK, Ready, handler, tables
<1>4. NoCall.rpc \notin Reads \cup {"DeleteThreshold"} BY DEF NoCall, Reads
<1>5. Sound(c)'
  <2>1. InStep(c)' BY <1>3 DEF InStep
  <2>2. HoldsGivenIds(c)' BY <1>3, <1>4 DEF HoldsGivenIds, Sound
  <2>3. DeletionIsDone(c)' BY <1>3, <1>4 DEF DeletionIsDone
  <2>4. Kept(c)' BY <1>3, <1>4, NothingToKeep
  <2> QED BY <2>1, <2>2, <2>3, <2>4 DEF Sound
<1> QED BY <1>1, <1>2, <1>5, SameStays

\* The caller is answered and the handler, if there is one, is not touched.
LEMMA ToldSound ==
  ASSUME TypeOK, TypeOK', Keyed, World, NEW c \in Client, Sound(c),
         UNCHANGED <<handler, must, wide, msg, ids>>, pc'[c] = "answered",
         status'[c] = 500 \/ (sv[c] = "none" /\ msg[c].rpc \notin Reads)
  PROVE  Sound(c)'
<1>1. InStep(c)' BY DEF Sound, InStep, Empty, NoCount, handler
<1>2. HoldsGivenIds(c)' BY DEF Sound, HoldsGivenIds, handler
<1>3. DeletionIsDone(c)'
  <2>1. Pending(c)' => Pending(c) BY DEF Pending, handler
  <2> QED BY <2>1, DeletionStays DEF Sound, World, handler
<1>4. Kept(c)'
  <2>1. CASE msg[c].rpc \notin Reads BY <2>1, NothingToKeep
  <2>2. CASE status'[c] = 500
    <3>1. (Pending(c)' => Pending(c)) /\ (Settled(c)' => Settled(c))
      BY <2>2 DEF Pending, Settled, handler
    <3> QED BY <3>1, KeptStays DEF Sound, handler
  <2> QED BY <2>1, <2>2
<1> QED BY <1>1, <1>2, <1>3, <1>4 DEF Sound

\* What a step of c leaves alone.
LEMMA ToldOthers ==
  ASSUME TypeOK, NEW c \in Client, NEW code, Told(c, code), UNCHANGED <<sv, rest, must, wide>>,
         \A d \in Client \ {c} : out'[d] = out[d]
  PROVE  /\ pc'[c] = "answered" /\ status'[c] = StatusOf(msg[c].rpc, code) /\ msg' = msg
         /\ \A d \in Client \ {c} : Same(d)
BY DEF Told, Same, TypeOK

LEMMA AnswerElsewhereSound ==
  ASSUME TypeOK, TypeOK', Keyed, NEW c \in Client, \A d \in Client : Sound(d),
         AnswerElsewhere(c) \/ Expire(c) \/ Unavailable(c)
  PROVE  Keyed' /\ \A d \in Client : Sound(d)'
<1>1. UNCHANGED <<now, tables, handler, history>> BY DEF AnswerElsewhere, Expire, Unavailable
<1>2. World /\ Keyed' BY <1>1, TablesAtRest DEF history
<1>3. ASSUME AnswerElsewhere(c) PROVE sv[c] = "none" /\ msg[c].rpc \notin Reads
  <2>1. msg[c] \in Message /\ msg[c] \notin AlertMessage /\ pc[c] = "sent"
    BY <1>3 DEF AnswerElsewhere, ForAlerts, TypeOK
  <2> QED BY <2>1, MessageKind DEF Reads, AlertMessage, Sound, InStep
<1>4. PICK code : Told(c, code) /\ (code # "OK" \/ AnswerElsewhere(c))
  BY DEF AnswerElsewhere, Expire, Unavailable
<1>5. /\ pc'[c] = "answered" /\ status'[c] = StatusOf(msg[c].rpc, code) /\ msg' = msg
      /\ \A d \in Client \ {c} : Same(d)
  BY <1>1, <1>4, ToldOthers DEF handler, history
<1>6. Sound(c)'
  <2>1. status'[c] = 500 \/ (sv[c] = "none" /\ msg[c].rpc \notin Reads)
    BY <1>3, <1>4, <1>5, StatusType
  <2> QED BY <1>1, <1>2, <1>5, <2>1, ToldSound DEF tables, history
<1> QED BY <1>2, <1>5, <1>6, SameStays

LEMMA DeliverSound ==
  ASSUME TypeOK, TypeOK', Keyed, NEW c \in Client, \A d \in Client : Sound(d), Deliver(c)
  PROVE  Keyed' /\ \A d \in Client : Sound(d)'
<1>1. UNCHANGED <<now, tables, msg, out, rest, status, history>> BY DEF Deliver
<1>2. World /\ Keyed' BY <1>1, TablesAtRest DEF history
<1>3. \A d \in Client \ {c} : Same(d) BY <1>1 DEF Deliver, Same, TypeOK, history
<1>4. /\ pc[c] = "sent" /\ pc'[c] = "served" /\ sv'[c] = "begin" /\ msg[c] \in AlertMessage
  BY DEF Deliver, TypeOK, ForAlerts
<1>5. Sound(c)'
  <2>1. InStep(c)' BY <1>1, <1>4 DEF Sound, InStep, Empty, NoCount
  <2>2. HoldsGivenIds(c)' BY <1>1 DEF Sound, HoldsGivenIds, tables, history
  <2>4. Pending(c) /\ ~Settled(c)' BY <1>4 DEF Pending, Settled
  <2>3. DeletionIsDone(c)' BY <1>1, <1>2, <1>4, <2>4, DeletionStays DEF Sound, World, history
  <2>5. Kept(c)' BY <1>1, <1>2, <1>4, <2>4, KeptStays DEF Sound, history
  <2> QED BY <2>1, <2>2, <2>3, <2>5 DEF Sound
<1> QED BY <1>2, <1>3, <1>5, SameStays

LEMMA ReturnSound ==
  ASSUME TypeOK, TypeOK', Keyed, NEW c \in Client, \A d \in Client : Sound(d), Return(c)
  PROVE  Keyed' /\ \A d \in Client : Sound(d)'
<1>1. World /\ Keyed' BY ReturnTables DEF Sound
<1>2. /\ UNCHANGED <<tables, rest, must, removed, wide, msg>> /\ sv[c] = "reply" /\ sv'[c] = "none"
      /\ \A d \in Client \ {c} : Same(d)
  BY DEF Return, Told, Same, TypeOK
<1>3. CASE pc[c] = "served"
  <2>1. pc'[c] = "answered" /\ status'[c] = StatusOf(msg[c].rpc, out[c].code) /\ out' = out
    BY <1>3 DEF Return, Told, TypeOK
  <2>2. Settled(c)' => Settled(c)
    <3>1. status'[c] # 500 => out[c].code = "OK" BY <2>1, StatusType
    <3> QED BY <1>2, <2>1, <3>1 DEF Settled
  <2>3. ~Pending(c)' BY <1>2, <2>1 DEF Pending
  <2>4. Kept(c)' BY <1>1, <1>2, <2>1, <2>2, <2>3, KeptStays DEF Sound
  <2>5. InStep(c)' BY <1>2, <2>1 DEF InStep
  <2>6. HoldsGivenIds(c)' BY <1>2, <2>1 DEF Sound, HoldsGivenIds, tables
  <2>7. DeletionIsDone(c)' BY <1>1, <1>2, <2>3, DeletionStays DEF Sound, World
  <2>8. Sound(c)' BY <2>4, <2>5, <2>6, <2>7 DEF Sound
  <2> QED BY <1>1, <1>2, <2>8, SameStays
<1>4. CASE pc[c] # "served"
  <2>1. pc'[c] = pc[c] /\ status'[c] = status[c] /\ out'[c] = Empty BY <1>4 DEF Return, TypeOK
  <2>2. pc[c] = "answered" /\ status[c] = 500 BY <1>2, <1>4 DEF Sound, InStep, TypeOK
  <2>3. ~Pending(c)' /\ ~Settled(c)' BY <1>2, <2>1, <2>2 DEF Pending, Settled
  <2>4. Kept(c)' BY <1>2, <2>3, NothingPending
  <2>5. InStep(c)' BY <1>2, <2>1, <2>2 DEF InStep
  <2>6. HoldsGivenIds(c)' BY <1>2, <2>1 DEF Sound, HoldsGivenIds, tables, Empty
  <2>7. DeletionIsDone(c)' BY <1>1, <1>2, <2>3, DeletionStays DEF Sound, World
  <2>8. Sound(c)' BY <2>4, <2>5, <2>6, <2>7 DEF Sound
  <2> QED BY <1>1, <1>2, <2>8, SameStays
<1> QED BY <1>3, <1>4

-----------------------------------------------------------------------------
(* The steps of a handler. *)

\* A handler touches nothing of another request.
HandlerStep(c) ==
  /\ sv[c] # "none" /\ UNCHANGED <<caller, must>>
  /\ \A d \in Client \ {c} : /\ sv'[d] = sv[d] /\ out'[d] = out[d] /\ rest'[d] = rest[d]
                            /\ wide'[d] = wide[d]

LEMMA FinishStep ==
  ASSUME TypeOK, NEW c \in Client, NEW a, Finish(c, a)
  PROVE  /\ sv'[c] = "reply" /\ out'[c] = a /\ rest' = rest
         /\ \A d \in Client \ {c} : sv'[d] = sv[d] /\ out'[d] = out[d] /\ rest'[d] = rest[d]
BY DEF Finish, Goto, TypeOK

LEMMA OneHandler ==
  ASSUME TypeOK, TypeOK', Keyed, World, Keyed', NEW c \in Client, \A d \in Client : Sound(d),
         HandlerStep(c), Sound(c)'
  PROVE  Keyed' /\ \A d \in Client : Sound(d)'
<1>1. \A d \in Client \ {c} : Same(d) BY DEF HandlerStep, Same, caller
<1> QED BY <1>1, SameStays

LEMMA FailSound ==
  ASSUME TypeOK, TypeOK', Keyed, World, Keyed', NEW c \in Client, \A d \in Client : Sound(d),
         sv[c] # "none", UNCHANGED <<caller, must, wide>>,
         NEW code \in {"InvalidArgument", "Internal"}, Finish(c, Error(code))
  PROVE  Keyed' /\ \A d \in Client : Sound(d)'
<1>1. HandlerStep(c) /\ sv'[c] = "reply" /\ out'[c] = Error(code) BY FinishStep DEF HandlerStep
<1>2. out'[c].code # "OK" /\ out'[c].ids = {} BY <1>1, ErrorType
<1>3. Sound(c)' BY <1>1, <1>2, ErrorSound DEF caller
<1> QED BY <1>1, <1>3, OneHandler

LEMMA ThresholdingSound ==
  ASSUME TypeOK, TypeOK', Keyed, NEW c \in Client, \A d \in Client : Sound(d), Thresholding(c)
  PROVE  Keyed' /\ \A d \in Client : Sound(d)'
<1>1. sv[c] = "begin" /\ UNCHANGED <<caller, must, wide>>
  BY DEF Thresholding, CreateThreshold, CreateViolates, GetThresholds, UpdateThreshold,
         DeleteThreshold, At, history
<1>0. ids' \in Nat BY DEF TypeOK
<1>2. CASE CreateThreshold(c)
  <2>1. World /\ Keyed' BY <1>2, CreateTables
  <2>2. CASE Finish(c, Error("Internal")) BY <1>1, <2>1, <2>2, FailSound
  <2>3. CASE Finish(c, [Empty EXCEPT !.ids = {ids + 1}])
    <3>1. HandlerStep(c) /\ sv'[c] = "reply" /\ out'[c].ids = {ids + 1}
      BY <1>1, <2>3, FinishStep DEF HandlerStep, Empty
    <3>2. out'[c].ids \subseteq 0..ids' /\ msg[c].rpc = "CreateThreshold"
      BY <1>0, <1>2, <3>1 DEF CreateThreshold, At
    <3>3. Sound(c)' BY <1>1, <2>1, <3>1, <3>2, ChangeSound DEF caller, Reads
    <3> QED BY <2>1, <3>1, <3>3, OneHandler
  <2> QED BY <1>2, <2>2, <2>3 DEF CreateThreshold, Committed
<1>3. CASE CreateViolates(c)
  <2>1. World /\ Keyed' BY <1>3, TablesAtRest DEF CreateViolates, history
  <2> QED BY <1>1, <1>3, <2>1, FailSound DEF CreateViolates
<1>4. CASE GetThresholds(c)
  <2> DEFINE found == {t \in thr : Listed(t, msg[c])}
             a == [Empty EXCEPT !.ids = {t.id : t \in found}, !.total = Int32(Cardinality(found))]
  <2>1. World /\ Keyed' /\ UNCHANGED <<thr, ids, removed>>
    BY <1>4, TablesAtRest DEF GetThresholds, history, tables
  <2>2. a.ids = {t.id : t \in found} BY DEF Empty
  <2>3. Finish(c, a) /\ msg[c].rpc = "GetThresholds" BY <1>4 DEF GetThresholds, At
  <2> HIDE DEF a
  <2>4. /\ HandlerStep(c) /\ sv'[c] = "reply" /\ out'[c].ids = {t.id : t \in found}
        /\ UNCHANGED <<pc, msg, status, must>>
    BY <1>1, <2>2, <2>3, FinishStep DEF HandlerStep, caller
  <2>5. must[c] \ removed \subseteq out'[c].ids
    BY <1>1, <2>3, <2>4 DEF Sound, Kept, ThresholdsAreKept, Pending
  <2>6. out'[c].ids \subseteq 0..ids'
    <3>1. \A t \in thr : t.id \in Nat BY DEF TypeOK, Threshold
    <3> QED BY <1>0, <2>1, <2>4, <3>1 DEF Keyed, IdsAreGiven
  <2>7. Kept(c)'
    <3>1. ThresholdsAreKept(c)'
      <4>1. ~Pending(c)' BY <1>1, <2>4 DEF Pending, Sound, InStep
      <4> QED BY <2>1, <2>4, <2>5, <4>1 DEF ThresholdsAreKept
    <3> QED BY <2>3, <2>4, <3>1
            DEF Kept, RulesAreKept, ActiveAreKept, HistoryIsKept, StatsAreKept
  <2>8. InStep(c)' BY <1>1, <2>4 DEF InStep, Sound
  <2>9. HoldsGivenIds(c)' BY <1>0, <2>1, <2>4, <2>6, GivenIdsStay DEF Sound, World
  <2>10. DeletionIsDone(c)' BY <2>3, <2>4 DEF DeletionIsDone
  <2> QED BY <2>1, <2>4, <2>7, <2>8, <2>9, <2>10, OneHandler DEF Sound
<1>5. CASE UpdateThreshold(c)
  <2>1. World /\ Keyed' BY <1>5, UpdateTables
  <2>2. CASE Finish(c, Error("Internal")) BY <1>1, <2>1, <2>2, FailSound
  <2>3. CASE Finish(c, Empty)
    <3>1. HandlerStep(c) /\ sv'[c] = "reply" /\ out'[c].ids = {}
      BY <1>1, <2>3, FinishStep DEF HandlerStep, Empty
    <3>2. msg[c].rpc = "UpdateThreshold" BY <1>5 DEF UpdateThreshold, At
    <3>3. Sound(c)' BY <1>1, <2>1, <3>1, <3>2, ChangeSound DEF caller, Reads
    <3> QED BY <2>1, <3>1, <3>3, OneHandler
  <2> QED BY <1>5, <2>2, <2>3 DEF UpdateThreshold, Committed
<1>6. CASE DeleteThreshold(c)
  <2>1. World /\ Keyed' /\ must[c] \subseteq removed' BY <1>6, DeleteTables DEF Sound
  <2>2. CASE Finish(c, Error("Internal")) BY <1>1, <2>1, <2>2, FailSound
  <2>3. CASE Finish(c, Empty)
    <3>1. HandlerStep(c) /\ sv'[c] = "reply" /\ out'[c].ids = {}
      BY <1>1, <2>3, FinishStep DEF HandlerStep, Empty
    <3>2. msg[c].rpc = "DeleteThreshold" BY <1>6 DEF DeleteThreshold, At
    <3>3. Sound(c)' BY <1>1, <2>1, <3>1, <3>2, ChangeSound DEF caller, Reads
    <3> QED BY <2>1, <3>1, <3>3, OneHandler
  <2> QED BY <1>6, <2>2, <2>3 DEF DeleteThreshold, Committed
<1> QED BY <1>2, <1>3, <1>4, <1>5, <1>6 DEF Thresholding

LEMMA SilencingSound ==
  ASSUME TypeOK, TypeOK', Keyed, NEW c \in Client, \A d \in Client : Sound(d), Silencing(c)
  PROVE  Keyed' /\ \A d \in Client : Sound(d)'
<1>1. sv[c] \in {"begin", "cache"} /\ UNCHANGED <<caller, must, wide>>
  BY DEF Silencing, SilenceDevice, SilenceViolates, CacheSilence, GetSilenceState,
         ClearSilence, At, history
<1>0. ids' \in Nat BY DEF TypeOK
<1>2. CASE SilenceDevice(c)
  <2>1. World /\ Keyed' BY <1>2, SilenceTables
  <2>2. CASE Finish(c, Error("Internal")) BY <1>1, <2>1, <2>2, FailSound
  <2>3. CASE /\ Goto(c, "cache") /\ out' = [out EXCEPT ![c] = [Empty EXCEPT !.ids = {ids + 1}]]
             /\ UNCHANGED rest
    <3>1. HandlerStep(c) /\ sv'[c] = "cache" /\ out'[c].ids = {ids + 1}
      BY <1>1, <2>3 DEF HandlerStep, Empty, Goto, TypeOK
    <3>2. out'[c].ids \subseteq 0..ids' BY <1>0, <1>2, <3>1 DEF SilenceDevice
    <3>4. msg[c].rpc = "SilenceAlert" /\ msg[c].device_id # Blank
      BY <1>2 DEF SilenceDevice, At, Valid
    <3>3. Sound(c)' BY <1>1, <2>1, <3>1, <3>2, <3>4, ChangeSound DEF caller, Reads
    <3> QED BY <2>1, <3>1, <3>3, OneHandler
  <2> QED BY <1>2, <2>2, <2>3 DEF SilenceDevice
<1>3. CASE SilenceViolates(c)
  <2>1. World /\ Keyed' BY <1>3, TablesAtRest DEF SilenceViolates, history
  <2> QED BY <1>1, <1>3, <2>1, FailSound DEF SilenceViolates
<1>4. CASE CacheSilence(c)
  <2>1. UNCHANGED <<now, thr, rules, alerts, ids, out, rest, history>> /\ Goto(c, "reply")
    BY <1>4 DEF CacheSilence
  <2>2. World /\ Keyed'
    <3>1. World BY <2>1 DEF World, TypeOK, history
    <3>2. Keyed' BY <2>1 DEF Keyed, IdsAreGiven, TablesAreKeyed, DeletedAreRemoved, history
    <3> QED BY <3>1, <3>2
  <2>3. msg[c].rpc = "SilenceAlert" BY <1>4 DEF CacheSilence, Sound, InStep
  <2>4. HandlerStep(c) /\ sv'[c] = "reply" /\ out'[c] = out[c]
    BY <1>1, <2>1 DEF HandlerStep, Goto, TypeOK
  <2>5. out'[c].ids \subseteq 0..ids' BY <2>1, <2>4 DEF Sound, HoldsGivenIds
  <2>6. Sound(c)' BY <1>1, <2>2, <2>3, <2>4, <2>5, ChangeSound DEF caller, Reads
  <2> QED BY <2>2, <2>4, <2>6, OneHandler
<1>5. CASE GetSilenceState(c)
  <2> DEFINE S == {r.id : r \in {q \in rules : q.dev = msg[c].device_id /\ q.until > now}}
             a == [Empty EXCEPT !.ids = S]
  <2>1. World /\ Keyed' /\ UNCHANGED <<rules, ids, now>>
    BY <1>5, TablesAtRest DEF GetSilenceState, history, tables
  <2>2. a.ids = S BY DEF Empty
  <2>3. Finish(c, a) /\ msg[c].rpc = "GetSilenceState" /\ sv[c] = "begin"
    BY <1>5 DEF GetSilenceState, At
  <2> HIDE DEF a
  <2>4. /\ HandlerStep(c) /\ sv'[c] = "reply" /\ out'[c].ids = S
        /\ UNCHANGED <<pc, msg, status, must>>
    BY <1>1, <2>2, <2>3, FinishStep DEF HandlerStep, caller
  <2>5. \A r \in rules : r.id \in must[c] /\ r.until > now => r.id \in out'[c].ids
    BY <2>3, <2>4 DEF Sound, Kept, RulesAreKept, Pending
  <2>6. out'[c].ids \subseteq 0..ids'
    <3>1. \A r \in rules : r.id \in Nat BY DEF TypeOK, SilenceRule
    <3> QED BY <1>0, <2>1, <2>4, <3>1 DEF Keyed, IdsAreGiven
  <2>7. Kept(c)'
    <3>1. RulesAreKept(c)'
      <4>1. ~Pending(c)' BY <2>3, <2>4 DEF Pending, Sound, InStep
      <4> QED BY <2>1, <2>4, <2>5, <4>1 DEF RulesAreKept
    <3> QED BY <2>3, <2>4, <3>1
            DEF Kept, ThresholdsAreKept, ActiveAreKept, HistoryIsKept, StatsAreKept
  <2>8. InStep(c)' BY <2>3, <2>4 DEF InStep, Sound
  <2>9. HoldsGivenIds(c)' BY <1>0, <2>1, <2>4, <2>6, GivenIdsStay DEF Sound, World
  <2>10. DeletionIsDone(c)' BY <2>3, <2>4 DEF DeletionIsDone
  <2> QED BY <2>1, <2>4, <2>7, <2>8, <2>9, <2>10, OneHandler DEF Sound
<1>6. CASE ClearSilence(c)
  <2>1. World /\ Keyed' BY <1>6, ClearTables
  <2>2. CASE Finish(c, Error("Internal")) BY <1>1, <2>1, <2>2, FailSound
  <2>3. CASE Finish(c, Empty)
    <3>1. HandlerStep(c) /\ sv'[c] = "reply" /\ out'[c].ids = {}
      BY <1>1, <2>3, FinishStep DEF HandlerStep, Empty
    <3>2. msg[c].rpc = "ClearSilence" BY <1>6 DEF ClearSilence, At
    <3>3. Sound(c)' BY <1>1, <2>1, <3>1, <3>2, ChangeSound DEF caller, Reads
    <3> QED BY <2>1, <3>1, <3>3, OneHandler
  <2> QED BY <1>6, <2>2, <2>3 DEF ClearSilence, Committed
<1> QED BY <1>2, <1>3, <1>4, <1>5, <1>6 DEF Silencing

\* The first page of a set misses only what is older.
LEMMA FirstPage ==
  ASSUME NEW S, IsFiniteSet(S), NEW n, NEW P \in Pages(S, n, 0), NEW a \in S, a \notin P
  PROVE  Cardinality(P) = n /\ \A b \in P : b.at >= a.at
<1>1. PICK K \in SUBSET (S \ P) : Leading(K, S, 0) /\ Leading(P, S \ K, n) BY DEF Pages
<1>2. K = {}
  <2>1. IsFiniteSet(K) BY <1>1, FS_Subset
  <2>2. CASE Cardinality(S) <= 0
    <3>1. S = {} BY <2>2, FS_EmptySet, FS_CardinalityType
    <3> QED BY <3>1
  <2>3. CASE ~(Cardinality(S) <= 0)
    <3>1. Cardinality(K) = 0 BY <1>1, <2>3 DEF Leading
    <3> QED BY <2>1, <3>1, FS_EmptySet
  <2> QED BY <2>2, <2>3
<1>3. S \ K = S BY <1>2
<1>4. Leading(P, S, n) BY <1>1, <1>3
<1> QED BY <1>4 DEF Leading

\* A step of a handler that reads and leaves the tables alone.
LEMMA ReadSound ==
  ASSUME TypeOK, TypeOK', Keyed, NEW c \in Client, \A d \in Client : Sound(d),
         UNCHANGED <<now, tables, must, acked, removed, gone, caller>>, HandlerStep(c), sv'[c] \notin {"begin", "cache"},
         out'[c].ids \subseteq out[c].ids, msg[c].rpc \in Reads, InStep(c)', Kept(c)'
  PROVE  Keyed' /\ \A d \in Client : Sound(d)'
<1>1. World /\ Keyed' BY TablesAtRest
<1>2. HoldsGivenIds(c)' BY DEF Sound, HoldsGivenIds, tables
<1>3. DeletionIsDone(c)' BY DEF DeletionIsDone, Reads, caller
<1> QED BY <1>1, <1>2, <1>3, OneHandler DEF Sound

\* Counts are not below the number of ids that they cover.
LEMMA CountCovers ==
  ASSUME NEW S, IsFiniteSet(S), NEW M, M \subseteq {a.id : a \in S}
  PROVE  Cardinality(M) <= Cardinality(S) /\ Cardinality(M) \in Nat /\ Cardinality(S) \in Nat
<1> DEFINE X == {a \in S : a.id \in M}
           f == [a \in X |-> a.id]
<1>1. f \in [X -> M] /\ \A i \in M : \E a \in X : f[a] = i OBVIOUS
<1>2. IsFiniteSet(X) /\ Cardinality(X) <= Cardinality(S) BY FS_Subset
<1> HIDE DEF X, f
<1>3. IsFiniteSet(M) /\ Cardinality(M) <= Cardinality(X) BY <1>1, <1>2, OntoFinite
<1>4. Cardinality(M) \in Nat /\ Cardinality(X) \in Nat /\ Cardinality(S) \in Nat
  BY <1>2, <1>3, FS_CardinalityType
<1> QED BY <1>2, <1>3, <1>4

LEMMA SeveritiesAddUp ==
  ASSUME NEW S \in SUBSET Alert, IsFiniteSet(S)
  PROVE  BySeverity(S)["CRITICAL"] + BySeverity(S)["WARNING"] + BySeverity(S)["INFO"]
           = Cardinality(S)
<1> DEFINE C == {a \in S : a.sev = "CRITICAL"}
           W == {a \in S : a.sev = "WARNING"}
           I == {a \in S : a.sev = "INFO"}
<1>1. /\ BySeverity(S)["CRITICAL"] = Cardinality(C) /\ BySeverity(S)["WARNING"] = Cardinality(W)
      /\ BySeverity(S)["INFO"] = Cardinality(I)
  BY DEF BySeverity, Severity
<1>2. S = (C \cup W) \cup I /\ C \cap W = {} /\ (C \cup W) \cap I = {}
  BY DEF Alert, Severity
<1>3. IsFiniteSet(C) /\ IsFiniteSet(W) /\ IsFiniteSet(I) BY FS_Subset
<1> HIDE DEF C, W, I
<1>4. IsFiniteSet(C \cup W) /\ Cardinality(C \cup W) = Cardinality(C) + Cardinality(W) - 0
  BY <1>2, <1>3, FS_Union, FS_EmptySet
<1>5. Cardinality(S) = Cardinality(C \cup W) + Cardinality(I) - 0
  BY <1>2, <1>3, <1>4, FS_Union, FS_EmptySet
<1>6. Cardinality(C) \in Nat /\ Cardinality(W) \in Nat /\ Cardinality(I) \in Nat
  BY <1>3, FS_CardinalityType
<1> QED BY <1>1, <1>4, <1>5, <1>6

LEMMA ActiveSound ==
  ASSUME TypeOK, TypeOK', Keyed, NEW c \in Client, \A d \in Client : Sound(d),
         CountActive(c) \/ ListActive(c)
  PROVE  Keyed' /\ \A d \in Client : Sound(d)'
<1>1. /\ UNCHANGED <<now, tables, history, caller>> /\ msg[c].rpc = "GetActiveAlerts"
      /\ sv[c] \in {"begin", "list"} /\ UNCHANGED <<alerts, must, wide, msg, pc, status>>
  BY DEF CountActive, ListActive, At, tables, history, caller
<1>0. Sound(c) /\ msg[c] \in Message /\ msg[c] \in AlertMessage
  <2>1. msg[c] \in Message /\ Sound(c) BY DEF TypeOK
  <2> QED BY <1>1, <2>1 DEF Sound, InStep
<1>2. \A a \in alerts : a.id \in must[c] => a \in Active(msg[c])
  BY <1>0, <1>1 DEF Sound, Kept, ActiveAreKept, Pending
<1>3. pc[c] = "answered" => status[c] = 500 BY <1>0, <1>1 DEF Sound, InStep
<1>4. pc[c] \notin {"idle", "sent"} BY <1>0, <1>1 DEF Sound, InStep
<1>5. CASE CountActive(c)
  <2>1. /\ sv'[c] = "list" /\ out'[c].ids = {} /\ HandlerStep(c)
    BY <1>1, <1>5, <1>0 DEF CountActive, HandlerStep, Goto, TypeOK, Empty, At
  <2>2. InStep(c)' BY <1>0, <1>1, <1>3, <1>4, <2>1 DEF InStep
  <2>3. ~Settled(c)' BY <1>1, <1>3, <2>1 DEF Settled
  <2>4. ActiveAreKept(c)' BY <1>1, <1>2, <2>3 DEF ActiveAreKept, Active
  <2>5. Kept(c)'
    BY <1>1, <2>4 DEF Kept, ThresholdsAreKept, RulesAreKept, HistoryIsKept, StatsAreKept
  <2> QED BY <1>1, <2>1, <2>2, <2>5, ReadSound DEF Reads, history
<1>6. CASE ListActive(c)
  <2>1. PICK P \in Pages(Active(msg[c]), PageSize(msg[c]), msg[c].offset) :
          Finish(c, [out[c] EXCEPT !.alerts = P, !.active = Int32(Cardinality(P))])
    BY <1>6 DEF ListActive
  <2>2. /\ sv'[c] = "reply" /\ HandlerStep(c)
        /\ out'[c] = [out[c] EXCEPT !.alerts = P, !.active = Int32(Cardinality(P))]
    BY <1>1, <2>1, FinishStep DEF HandlerStep, caller
  <2>3. out'[c].ids = out[c].ids /\ out'[c].alerts = P BY <2>2 DEF TypeOK, Answer
  <2>4. InStep(c)' BY <1>0, <1>1, <1>3, <1>4, <2>2 DEF InStep
  <2>5. ~Pending(c)' BY <1>1, <1>4, <2>2 DEF Pending
  <2>6. msg[c].offset = 0 => MissesOlder(c, P)'
    <3>1. IsFiniteSet(Active(msg[c])) BY Subsets DEF Keyed, TablesAreKeyed
    <3> QED BY <1>1, <1>2, <3>1, FirstPage DEF MissesOlder, PageSize
  <2>7. ActiveAreKept(c)' BY <1>1, <2>2, <2>3, <2>5, <2>6 DEF ActiveAreKept, MissesOlder
  <2>8. Kept(c)'
    BY <1>1, <2>7 DEF Kept, ThresholdsAreKept, RulesAreKept, HistoryIsKept, StatsAreKept
  <2> QED BY <1>1, <2>2, <2>3, <2>4, <2>8, ReadSound DEF Reads, history
<1> QED BY <1>5, <1>6

LEMMA HistorySound ==
  ASSUME TypeOK, TypeOK', Keyed, NEW c \in Client, \A d \in Client : Sound(d),
         ReadHistory(c) \/ SendAlert(c) \/ EndStream(c) \/ SendFails(c)
  PROVE  Keyed' /\ \A d \in Client : Sound(d)'
<1>0. Sound(c) /\ out[c] \in Answer BY DEF TypeOK
<1>1. /\ UNCHANGED <<now, tables, history, caller>> /\ msg[c].rpc = "QueryAlertHistory"
      /\ sv[c] \in {"begin", "stream"} /\ UNCHANGED <<alerts, must, wide, msg, pc, status>>
  BY <1>0 DEF ReadHistory, SendAlert, EndStream, SendFails, At, tables, history, caller,
              Sound, InStep
<1>2. msg[c] \in AlertMessage /\ pc[c] \notin {"idle", "sent"}
      /\ (pc[c] = "answered" => status[c] = 500)
  BY <1>0, <1>1 DEF Sound, InStep
<1>3. ASSUME HistoryIsKept(c)' PROVE Kept(c)'
  BY <1>1, <1>3 DEF Kept, ThresholdsAreKept, RulesAreKept, ActiveAreKept, StatsAreKept
<1>4. ASSUME sv'[c] \in {"stream", "reply"} PROVE InStep(c)' /\ ~Pending(c)'
  BY <1>1, <1>2, <1>4 DEF InStep, Pending
<1>5. CASE ReadHistory(c)
  <2>1. PICK P \in Pages(Historic(msg[c]), PageSize(msg[c]), 0) : rest' = [rest EXCEPT ![c] = P]
    BY <1>5 DEF ReadHistory
  <2>2. /\ sv[c] = "begin" /\ sv'[c] = "stream" /\ rest'[c] = P /\ out' = out /\ HandlerStep(c)
    BY <1>1, <1>5, <2>1 DEF ReadHistory, HandlerStep, Goto, TypeOK, At
  <2>3. out[c].alerts = {} BY <1>0, <2>2 DEF Sound, InStep, Empty
  <2>4. \A a \in alerts : a.id \in must[c] => a \in Historic(msg[c])
    BY <1>0, <1>1, <2>2 DEF Sound, Kept, HistoryIsKept, Pending
  <2>5. ~Settled(c)' BY <1>1, <1>2, <2>2 DEF Settled
  <2>6. MissesOlder(c, P)'
    <3>1. IsFiniteSet(Historic(msg[c])) BY Subsets DEF Keyed, TablesAreKeyed
    <3> QED BY <1>1, <2>4, <3>1, FirstPage DEF MissesOlder, PageSize
  <2>7. out'[c].alerts \cup rest'[c] = P BY <2>2, <2>3
  <2>8. HistoryIsKept(c)' BY <1>1, <1>4, <2>2, <2>5, <2>6, <2>7 DEF HistoryIsKept, MissesOlder
  <2> QED BY <1>1, <1>3, <1>4, <2>2, <2>8, ReadSound DEF Reads, history
<1>6. CASE SendAlert(c)
  <2>1. PICK a \in rest[c] : /\ rest' = [rest EXCEPT ![c] = @ \ {a}]
                             /\ out' = [out EXCEPT ![c].alerts = @ \cup {a}]
    BY <1>6 DEF SendAlert
  <2>2. /\ sv[c] = "stream" /\ sv'[c] = "stream" /\ HandlerStep(c)
        /\ out'[c] = [out[c] EXCEPT !.alerts = @ \cup {a}] /\ rest'[c] = rest[c] \ {a}
    <3>1. out \in [Client -> Answer] /\ rest \in [Client -> SUBSET Alert] BY DEF TypeOK
    <3>2. sv[c] = "stream" /\ sv' = sv BY <1>6 DEF SendAlert
    <3>3. out'[c] = [out[c] EXCEPT !.alerts = @ \cup {a}] /\ rest'[c] = rest[c] \ {a}
      BY <2>1, <3>1
    <3>4. \A d \in Client \ {c} : out'[d] = out[d] /\ rest'[d] = rest[d] BY <2>1, <3>1
    <3> QED BY <1>1, <3>2, <3>3, <3>4 DEF HandlerStep, caller
  <2>3. out'[c].ids = out[c].ids /\ out'[c].alerts \cup rest'[c] = out[c].alerts \cup rest[c]
    BY <1>0, <2>2 DEF Answer
  <2>4. ~Settled(c)' BY <1>1, <1>2, <2>2 DEF Settled
  <2>5. MissesOlder(c, out[c].alerts \cup rest[c])
    BY <1>0, <1>1, <2>2 DEF Sound, Kept, HistoryIsKept
  <2>6. HistoryIsKept(c)'
    BY <1>1, <1>4, <2>2, <2>3, <2>4, <2>5 DEF HistoryIsKept, MissesOlder, PageSize
  <2> QED BY <1>1, <1>3, <1>4, <2>2, <2>3, <2>6, ReadSound DEF Reads, history
<1>7. CASE EndStream(c)
  <2>1. /\ sv[c] = "stream" /\ sv'[c] = "reply" /\ HandlerStep(c) /\ out' = out /\ rest[c] = {}
    BY <1>1, <1>7 DEF EndStream, HandlerStep, Goto, TypeOK
  <2>2. MissesOlder(c, out[c].alerts \cup rest[c])
    BY <1>0, <1>1, <2>1 DEF Sound, Kept, HistoryIsKept
  <2>3. out[c].alerts \cup rest[c] = out[c].alerts BY <2>1
  <2>4. HistoryIsKept(c)'
    BY <1>1, <1>4, <2>1, <2>2, <2>3 DEF HistoryIsKept, MissesOlder, PageSize
  <2> QED BY <1>1, <1>3, <1>4, <2>1, <2>4, ReadSound DEF Reads, history
<1>8. CASE SendFails(c)
  <2>1. /\ sv[c] = "stream" /\ sv'[c] = "reply" /\ HandlerStep(c)
        /\ out'[c] = [out[c] EXCEPT !.code = "Unavailable"]
    BY <1>1, <1>8 DEF SendFails, HandlerStep, Goto, TypeOK
  <2>2. out'[c].ids = out[c].ids /\ out'[c].code = "Unavailable" BY <1>0, <2>1 DEF Answer
  <2>3. ~Settled(c)' BY <1>1, <1>2, <2>1, <2>2 DEF Settled
  <2>4. Kept(c)' BY <1>4, <2>1, <2>3, NothingPending
  <2> QED BY <1>1, <1>4, <2>1, <2>2, <2>4, ReadSound DEF Reads, history
<1> QED BY <1>5, <1>6, <1>7, <1>8

LEMMA StatsSound ==
  ASSUME TypeOK, TypeOK', Keyed, NEW c \in Client, \A d \in Client : Sound(d),
         CountTotal(c) \/ CountUnresolved(c) \/ CountBySeverity(c)
  PROVE  Keyed' /\ \A d \in Client : Sound(d)'
<1>0. Sound(c) /\ out[c] \in Answer BY DEF TypeOK
<1>1. /\ UNCHANGED <<now, tables, acked, removed, gone, caller>> /\ msg[c].rpc = "GetAlertStats"
      /\ sv[c] \in {"begin", "active", "severity"}
      /\ UNCHANGED <<alerts, must, msg, pc, status>>
      /\ \A d \in Client \ {c} : wide'[d] = wide[d]
      /\ wide[c] => wide'[c]
  BY DEF CountTotal, CountUnresolved, CountBySeverity, Counted, At, tables, caller, TypeOK
<1>2. msg[c] \in AlertMessage /\ pc[c] \notin {"idle", "sent"}
      /\ (pc[c] = "answered" => status[c] = 500)
  BY <1>0, <1>1 DEF Sound, InStep
<1>3. ASSUME StatsAreKept(c)' PROVE Kept(c)'
  BY <1>1, <1>3 DEF Kept, ThresholdsAreKept, RulesAreKept, ActiveAreKept, HistoryIsKept
<1>4. ASSUME sv'[c] \in {"active", "severity", "reply"} PROVE InStep(c)' /\ ~Pending(c)'
  BY <1>1, <1>2, <1>4 DEF InStep, Pending
<1>5. /\ must[c] \subseteq {a.id : a \in InRange(msg[c])} /\ InRange(msg[c])' = InRange(msg[c])
  BY <1>0, <1>1 DEF Sound, Kept, StatsAreKept, Pending, InRange
<1>6. IsFiniteSet(InRange(msg[c])) /\ InRange(msg[c]) \subseteq Alert
  BY Subsets DEF Keyed, TablesAreKeyed
<1>7. Cardinality(must[c]) <= Cardinality(InRange(msg[c])) BY <1>5, <1>6, CountCovers
<1>8. CASE CountTotal(c)
  <2> DEFINE n == Cardinality(InRange(msg[c]))
  <2>1. /\ sv'[c] = "active" /\ HandlerStep(c)
        /\ out'[c] = [Empty EXCEPT !.total = Int32(n)] /\ wide'[c] = (wide[c] \/ n > IntMax)
    BY <1>1, <1>8 DEF CountTotal, Counted, HandlerStep, Goto, TypeOK
  <2>2. out'[c].ids = {} /\ out'[c].total = Int32(n) BY <2>1 DEF Empty
  <2>3. ~Settled(c)' BY <1>1, <1>2, <2>1 DEF Settled
  <2>6. n \in Nat /\ (wide'[c] \/ ~(n > IntMax))
    <3>1. wide'[c] \/ ~(n > IntMax) BY <2>1, Zenon
    <3> QED BY <1>5, <1>6, <3>1, CountCovers
  <2>5. ~wide'[c] => Int32(n) = n
    <3> HIDE DEF n
    <3> QED BY <2>6, Int32Type, ConsoleAssumption
  <2>4. StatsAreKept(c)'
    BY <1>1, <1>5, <1>7, <2>1, <2>2, <2>3, <2>5 DEF StatsAreKept, InRange
  <2> QED BY <1>1, <1>3, <1>4, <2>1, <2>2, <2>4, ReadSound DEF Reads
<1>9. CASE CountUnresolved(c)
  <2> DEFINE U == {a \in alerts : a.dev = msg[c].device_id}
             n == Cardinality(U)
  <2>1. /\ sv[c] = "active" /\ sv'[c] = "severity" /\ HandlerStep(c)
        /\ out'[c] = [out[c] EXCEPT !.active = Int32(n)] /\ wide'[c] = (wide[c] \/ n > IntMax)
    BY <1>1, <1>9 DEF CountUnresolved, Counted, HandlerStep, Goto, TypeOK, At
  <2>2. InRange(msg[c]) \subseteq U /\ IsFiniteSet(U)
    BY FS_Subset DEF InRange, Keyed, TablesAreKeyed
  <2> HIDE DEF U
  <2>3. must[c] \subseteq {a.id : a \in U} BY <1>5, <2>2
  <2>4. Cardinality(must[c]) <= n /\ n \in Nat BY <2>2, <2>3, CountCovers
  <2>9. ~wide'[c] => Int32(n) = n
    <3>1. wide'[c] \/ ~(n > IntMax) BY <2>1, Zenon
    <3> HIDE DEF n
    <3> QED BY <2>4, <3>1, Int32Type, ConsoleAssumption
  <2>5. /\ out'[c].ids = out[c].ids /\ out'[c].active = Int32(n)
        /\ out'[c].total = out[c].total
    BY <1>0, <2>1 DEF Answer
  <2> HIDE DEF n
  <2>6. ~wide[c] => Cardinality(must[c]) <= out[c].total
    BY <1>0, <1>1, <2>1 DEF Sound, Kept, StatsAreKept
  <2>7. ~Settled(c)' BY <1>1, <1>2, <2>1 DEF Settled
  <2>8. StatsAreKept(c)'
    BY <1>1, <1>5, <2>1, <2>4, <2>5, <2>6, <2>7, <2>9 DEF StatsAreKept, InRange
  <2> QED BY <1>1, <1>3, <1>4, <2>1, <2>5, <2>8, ReadSound DEF Reads
<1>10. CASE CountBySeverity(c)
  <2> DEFINE n == BySeverity(InRange(msg[c]))
             b == [s \in Severity |-> Int32(n[s])]
  <2>1. /\ sv[c] = "severity" /\ Finish(c, [out[c] EXCEPT !.by = b])
        /\ wide'[c] = (wide[c] \/ \E s \in Severity : n[s] > IntMax)
    BY <1>10 DEF CountBySeverity, At, TypeOK
  <2>10. n \in [Severity -> Nat] BY <1>6, BySeverityType
  <2>11. n["CRITICAL"] + n["WARNING"] + n["INFO"] = Cardinality(InRange(msg[c]))
    BY <1>6, SeveritiesAddUp
  <2> HIDE DEF n
  <2>12. ~wide'[c] => \A s \in Severity : b[s] = n[s]
    <3>1. wide'[c] \/ \A s \in Severity : ~(n[s] > IntMax) BY <2>1, Zenon
    <3>2. \A s \in Severity : n[s] \in Nat /\ b[s] = Int32(n[s]) BY <2>10
    <3> HIDE DEF b
    <3>3. ASSUME NEW s \in Severity, ~(n[s] > IntMax) PROVE b[s] = n[s]
      BY <3>2, <3>3, Int32Type, ConsoleAssumption
    <3> QED BY <3>1, <3>3
  <2> HIDE DEF b
  <2>2. sv'[c] = "reply" /\ HandlerStep(c) /\ out'[c] = [out[c] EXCEPT !.by = b]
    BY <1>1, <2>1, FinishStep DEF HandlerStep, caller
  <2>3. /\ out'[c].ids = out[c].ids /\ out'[c].by = b
        /\ out'[c].total = out[c].total /\ out'[c].active = out[c].active
    BY <1>0, <2>2 DEF Answer
  <2>4. ~wide[c] => Cardinality(must[c]) <= out[c].total /\ Cardinality(must[c]) <= out[c].active
    BY <1>0, <1>1, <2>1 DEF Sound, Kept, StatsAreKept
  <2>5. ~wide'[c] => Cardinality(must[c]) <=
          out'[c].by["CRITICAL"] + out'[c].by["WARNING"] + out'[c].by["INFO"]
    BY <1>7, <2>3, <2>10, <2>11, <2>12 DEF Severity
  <2>6. StatsAreKept(c)'
    BY <1>1, <1>4, <2>2, <2>3, <2>4, <2>5 DEF StatsAreKept
  <2> QED BY <1>1, <1>3, <1>4, <2>2, <2>3, <2>6, ReadSound DEF Reads
<1> QED BY <1>8, <1>9, <1>10

LEMMA RefuseSound ==
  ASSUME TypeOK, TypeOK', Keyed, NEW c \in Client, \A d \in Client : Sound(d),
         Refuse(c) \/ StatementFails(c)
  PROVE  Keyed' /\ \A d \in Client : Sound(d)'
<1>1. /\ sv[c] # "none" /\ UNCHANGED <<now, tables, caller, history>>
      /\ Finish(c, Error("InvalidArgument")) \/ Finish(c, Error("Internal"))
  BY DEF Refuse, StatementFails
<1>2. World /\ Keyed' BY <1>1, TablesAtRest DEF history
<1> QED BY <1>1, <1>2, FailSound DEF history

LEMMA ProcessSound ==
  ASSUME TypeOK, TypeOK', Keyed, \A d \in Client : Sound(d),
         \/ Start \/ Signal \/ GracefulStop \/ Crash \/ Tick
         \/ \E d \in Registered, m \in Metric, s \in Severity, t \in 1..MaxTime : Fire(d, m, s, t)
         \/ \E t \in 1..MaxTime : DropAlerts(t)
  PROVE  Keyed' /\ \A d \in Client : Sound(d)'
<1>1. CASE Start \/ Signal \/ GracefulStop
  <2>1. UNCHANGED <<now, tables, caller, handler, history>> BY <1>1 DEF Start, Signal, GracefulStop
  <2>2. World /\ Keyed' BY <2>1, TablesAtRest DEF history
  <2>3. \A d \in Client : Same(d) BY <2>1 DEF Same, caller, handler, history
  <2> QED BY <2>2, <2>3, SameStays
<1>2. CASE Tick
  <2>1. UNCHANGED <<tables, caller, handler, history>> /\ now' = now + 1 BY <1>2 DEF Tick
  <2>2. World BY <2>1 DEF World, TypeOK, tables, history
  <2>3. Keyed'
    BY <2>1 DEF Keyed, IdsAreGiven, TablesAreKeyed, DeletedAreRemoved, tables, history
  <2>4. \A d \in Client : Same(d) BY <2>1 DEF Same, caller, handler, history
  <2> QED BY <2>2, <2>3, <2>4, SameStays
<1>3. ASSUME NEW d \in Registered, NEW m \in Metric, NEW s \in Severity, NEW t \in 1..MaxTime,
             Fire(d, m, s, t)
      PROVE  Keyed' /\ \A c \in Client : Sound(c)'
  <2>1. World /\ Keyed' BY <1>3, FireTables
  <2>2. \A c \in Client : Same(c) BY <1>3 DEF Fire, Same, caller, handler, history
  <2> QED BY <2>1, <2>2, SameStays
<1>4. ASSUME NEW t \in 1..MaxTime, DropAlerts(t) PROVE Keyed' /\ \A c \in Client : Sound(c)'
  BY <1>4, DropTables, DropStays
<1>5. CASE Crash
  <2>1. UNCHANGED <<now, tables, caller, history>> BY <1>5 DEF Crash
  <2>2. World /\ Keyed' BY <2>1, TablesAtRest DEF history
  <2>3. ASSUME NEW c \in Client PROVE Sound(c)'
    <3>1. /\ sv'[c] = "none" /\ UNCHANGED <<pc, msg, status, must, wide, ids>>
          /\ out'[c] = IF sv[c] = "none" THEN out[c] ELSE Empty
      BY <1>5, <2>1 DEF Crash, caller, history, tables
    <3>2. Sound(c) OBVIOUS
    <3>3. InStep(c)' BY <3>1, <3>2 DEF Sound, InStep, Empty, NoCount
    <3>4. HoldsGivenIds(c)' BY <3>1, <3>2 DEF Sound, HoldsGivenIds, Empty
    <3>5. DeletionIsDone(c)'
      <4>1. Pending(c)' => Pending(c) BY <3>1 DEF Pending
      <4> QED BY <2>2, <3>1, <3>2, <4>1, DeletionStays DEF Sound, World
    <3>6. Kept(c)'
      <4>1. CASE sv[c] = "none"
        <5>1. (Pending(c)' => Pending(c)) /\ (Settled(c)' => Settled(c))
          BY <3>1, <4>1 DEF Pending, Settled
        <5>2. out'[c] = out[c] BY <3>1, <4>1
        <5> QED BY <2>2, <3>1, <3>2, <5>1, <5>2, KeptStays DEF Sound
      <4>2. CASE sv[c] # "none"
        <5>1. ~Pending(c)' /\ ~Settled(c)'
          BY <3>1, <3>2, <4>2 DEF Sound, InStep, Pending, Settled
        <5> QED BY <3>1, <5>1, NothingPending
      <4> QED BY <4>1, <4>2
    <3> QED BY <3>3, <3>4, <3>5, <3>6 DEF Sound
  <2> QED BY <2>2, <2>3
<1> QED BY <1>1, <1>2, <1>3, <1>4, <1>5

-----------------------------------------------------------------------------
(* Theorems. *)

LEMMA SafeParts == Safe <=> TypeOK /\ Keyed /\ \A c \in Client : Sound(c)
BY DEF Safe, Keyed, Sound

LEMMA InitSafe == Init => Safe
<1> SUFFICES ASSUME Init PROVE TypeOK /\ Keyed /\ \A c \in Client : Sound(c) BY SafeParts
<1>1. TypeOK /\ Keyed BY InitType, InitKeyed
<1>2. ASSUME NEW c \in Client PROVE Sound(c)
  <2>1. /\ pc[c] = "idle" /\ msg[c] = NoCall /\ sv[c] = "none" /\ must[c] = {}
        /\ out[c] = Empty
    BY DEF Init
  <2>2. NoCall.rpc = "GetDevice" /\ Empty.ids = {} BY DEF NoCall, Empty
  <2>3. Kept(c)
    BY <2>1, <2>2
    DEF Kept, ThresholdsAreKept, RulesAreKept, ActiveAreKept, HistoryIsKept, StatsAreKept
  <2> QED BY <2>1, <2>2, <2>3 DEF Sound, InStep, HoldsGivenIds, DeletionIsDone
<1> QED BY <1>1, <1>2

LEMMA StutterSafe == ASSUME Safe, UNCHANGED vars PROVE Safe'
<1>1. TypeOK /\ Keyed /\ \A c \in Client : Sound(c) BY SafeParts
<1>2. UNCHANGED <<now, tables, svc, caller, handler, history>> BY DEF vars
<1>3. TypeOK' BY <1>1, <1>2 DEF TypeOK, tables, caller, handler, history
<1>4. World /\ Keyed' BY <1>1, <1>2, TablesAtRest DEF history
<1>5. \A c \in Client : Same(c) BY <1>2 DEF Same, caller, handler, history
<1>6. \A c \in Client : Sound(c)' BY <1>1, <1>3, <1>4, <1>5, SameStays
<1>7. Safe' <=> TypeOK' /\ Keyed' /\ \A c \in Client : Sound(c)' BY DEF Safe, Keyed, Sound
<1> QED BY <1>3, <1>4, <1>6, <1>7

LEMMA NextSafe == ASSUME Safe, Next PROVE Safe'
<1>0. TypeOK /\ Keyed /\ \A c \in Client : Sound(c) BY SafeParts
<1>11. TablesAreKeyed /\ \A c \in Client : InStep(c) BY <1>0 DEF Keyed, Sound
<1> SUFFICES TypeOK' /\ Keyed' /\ \A c \in Client : Sound(c)' BY DEF Safe, Keyed, Sound
<1>1. ASSUME NEW c \in Client, Calling(c) \/ AnswerElsewhere(c) \/ Expire(c)
      PROVE  TypeOK' /\ Keyed' /\ \A d \in Client : Sound(d)'
  <2>1. TypeOK' BY <1>0, <1>1, CallerType DEF Calling
  <2> QED BY <1>0, <1>1, <2>1, DeliverSound, AnswerElsewhereSound DEF Calling
<1>2. ASSUME NEW c \in Client, Return(c)
      PROVE  TypeOK' /\ Keyed' /\ \A d \in Client : Sound(d)'
  <2>1. TypeOK' BY <1>0, <1>2, CallerType
  <2> QED BY <1>0, <1>2, <2>1, ReturnSound
<1>3. ASSUME NEW c \in Client, Refuse(c) \/ StatementFails(c)
      PROVE  TypeOK' /\ Keyed' /\ \A d \in Client : Sound(d)'
  <2>1. TypeOK'
    <3>1. /\ UNCHANGED <<now, tables, svc, caller, history>>
          /\ \E code \in {"InvalidArgument", "Internal"} : Finish(c, Error(code))
      BY <1>3 DEF Refuse, StatementFails
    <3>2. sv' \in [Client -> State] /\ out' \in [Client -> Answer] /\ rest' = rest
      BY <1>0, <3>1, FinishType, ErrorType
    <3> QED BY <1>0, <3>1, <3>2 DEF TypeOK, tables, caller, history
  <2> QED BY <1>0, <1>3, <2>1, RefuseSound
<1>4. ASSUME NEW c \in Client, Thresholding(c)
      PROVE  TypeOK' /\ Keyed' /\ \A d \in Client : Sound(d)'
  <2>1. TypeOK' BY <1>0, <1>11, <1>4, ThresholdingType
  <2> QED BY <1>0, <1>4, <2>1, ThresholdingSound
<1>5. ASSUME NEW c \in Client, Silencing(c)
      PROVE  TypeOK' /\ Keyed' /\ \A d \in Client : Sound(d)'
  <2>1. TypeOK' BY <1>0, <1>11, <1>5, SilencingType
  <2> QED BY <1>0, <1>5, <2>1, SilencingSound
<1>6. ASSUME NEW c \in Client, Reading(c) \/ Streaming(c)
      PROVE  TypeOK' /\ Keyed' /\ \A d \in Client : Sound(d)'
  <2>1. TypeOK' BY <1>0, <1>11, <1>6, ReadingType
  <2> QED BY <1>0, <1>6, <2>1, ActiveSound, HistorySound, StatsSound DEF Reading, Streaming
<1>7. ASSUME NEW c \in Client, NEW q \in HttpRequests, AskHttp(c, q) \/ AnswerLocally(c, q)
      PROVE  TypeOK' /\ Keyed' /\ \A d \in Client : Sound(d)'
  <2>1. TypeOK' BY <1>0, <1>7, CallerType
  <2>2. CASE AskHttp(c, q) BY <1>0, <2>1, <2>2, AskSound
  <2>3. CASE AnswerLocally(c, q) BY <1>0, <2>1, <2>3, AnswerLocallySound
  <2> QED BY <1>7, <2>2, <2>3, <2>1
<1>8. ASSUME NEW c \in Client, NEW m \in GrpcRequests, AskGrpc(c, m)
      PROVE  TypeOK' /\ Keyed' /\ \A d \in Client : Sound(d)'
  <2>1. TypeOK' BY <1>0, <1>8, CallerType
  <2> QED BY <1>0, <1>8, <2>1, AskSound
<1>9. ASSUME \/ Start \/ Signal \/ GracefulStop \/ Crash \/ Tick
             \/ \E d \in Registered, m \in Metric, s \in Severity, t \in 1..MaxTime :
                  Fire(d, m, s, t)
             \/ \E t \in 1..MaxTime : DropAlerts(t)
      PROVE  TypeOK' /\ Keyed' /\ \A d \in Client : Sound(d)'
  <2>1. TypeOK' BY <1>0, <1>9, WorldType
  <2> QED BY <1>0, <1>9, <2>1, ProcessSound
<1>10. HttpClient \subseteq Client /\ GrpcClient \subseteq Client BY DEF Client
<1> QED BY <1>1, <1>2, <1>3, <1>4, <1>5, <1>6, <1>7, <1>8, <1>9, <1>10 DEF Next, Serving

\* The inductive invariant holds of every behaviour of the gateway and the alert
\* service.
THEOREM SafeInvariant == Spec => []Safe
<1>1. ASSUME Safe, [Next]_vars PROVE Safe' BY <1>1, NextSafe, StutterSafe
<1> QED BY <1>1, InitSafe, PTL DEF Spec

\* The state of callers, handlers and tables keeps its types, for any requests.
THEOREM TypeCorrect == Spec => []TypeOK
<1>1. Safe => TypeOK BY DEF Safe
<1> QED BY <1>1, SafeInvariant, PTL

\* What a caller was given an id for is in every list asked for later, until it
\* is removed or has run out.
THEOREM Listing == Spec => []AcknowledgedIsListed
<1>1. Safe => AcknowledgedIsListed
  BY DEF Safe, Kept, ThresholdsAreKept, RulesAreKept, Settled, Got, AcknowledgedIsListed
<1> QED BY <1>1, SafeInvariant, PTL

\* A threshold that was there when its deletion was asked for, and whose deletion
\* was answered 204, never comes back.
THEOREM Deletion == Spec => []DeletedStaysDeleted
<1>1. Safe => DeletedStaysDeleted BY DEF Safe, DeletedAreRemoved, DeletedStaysDeleted
<1> QED BY <1>1, SafeInvariant, PTL

\* The first page of alerts misses only what is older than all of a full page.
THEOREM FirstPages == Spec => []NewestAlertsFirst
<1>1. ASSUME Safe PROVE NewestAlertsFirst
  <2> SUFFICES ASSUME NEW c \in Client, NEW a \in alerts,
                      \/ Got(c, "QueryAlertHistory")
                      \/ Got(c, "GetActiveAlerts") /\ msg[c].offset = 0,
                      a.id \in must[c], a \notin out[c].alerts
               PROVE  /\ Cardinality(out[c].alerts) = PageSize(msg[c])
                      /\ \A b \in out[c].alerts : b.at >= a.at
    BY DEF NewestAlertsFirst
  <2>1. Kept(c) /\ Settled(c) BY <1>1 DEF Safe, Settled, Got
  <2>2. MissesOlder(c, out[c].alerts) BY <2>1 DEF Kept, ActiveAreKept, HistoryIsKept, Got
  <2> QED BY <2>2 DEF MissesOlder
<1> QED BY <1>1, SafeInvariant, PTL

\* None of the three counts of GetAlertStats is too low, if each fitted an int32
\* when it was made.
THEOREM Counting == Spec => []StatsMissNothing
<1>1. Safe => StatsMissNothing
  BY DEF Safe, Kept, StatsAreKept, Settled, Got, StatsMissNothing
<1> QED BY <1>1, SafeInvariant, PTL
===========================================================================
