---------------------------- MODULE GatewayRoutes ----------------------------
(***************************************************************************)
(* The HTTP gateway as a translation: which routes there are, what it      *)
(* answers without asking anybody, which message of which service it makes *)
(* of a request, and which status it makes of the service's answer.        *)
(*                                                                         *)
(* Names, bounds and times are what the services tell apart.  Texts that   *)
(* are only carried along (floor, firmware, reason, ...) are left out.     *)
(***************************************************************************)
EXTENDS Integers

CONSTANTS
  Device, Metric, \* names in requests
  Blank,          \* the empty string: not given
  DefaultLimit,   \* 100, the limit of a request that names none
  IntMax          \* the largest int32

DeviceName == Device \cup {Blank}
MetricName == Metric \cup {Blank}

-----------------------------------------------------------------------------
(* Enums. *)

ThresholdType_value ==
  [THRESHOLD_TYPE_UNSPECIFIED |-> 0, HIGH |-> 1, LOW |-> 2, RANGE |-> 3, CHANGE |-> 4]

AlertSeverity_value ==
  [ALERT_SEVERITY_UNSPECIFIED |-> 0, CRITICAL |-> 1, WARNING |-> 2, INFO |-> 3]

DeviceStatus_value ==
  [DEVICE_STATUS_UNSPECIFIED |-> 0, DEVICE_STATUS_ACTIVE |-> 1, DEVICE_STATUS_SILENT |-> 2,
   DEVICE_STATUS_DEGRADED |-> 3, DEVICE_STATUS_INACTIVE |-> 4]

\* String() of a number of the enum.
NameIn(values, n) == CHOOSE s \in DOMAIN values : values[s] = n

\* A name that the map does not know becomes the default.
Parse(values, s, default) == IF s \in DOMAIN values THEN values[s] ELSE default

-----------------------------------------------------------------------------
(* Messages of the alert service.  A threshold's id is a number, 0 the     *)
(* empty string; time 0 is what AsTime makes of a timestamp not given.     *)

CreateThresholdRequest ==
  [rpc : {"CreateThreshold"}, device_id : DeviceName, metric_name : MetricName, type : 0..4,
   lower_bound : Int, upper_bound : Int, change_percent : Int, severity : 0..3,
   enabled : BOOLEAN]

GetThresholdsRequest ==
  [rpc : {"GetThresholds"}, device_id : DeviceName, metric_name : MetricName,
   only_enabled : BOOLEAN]

UpdateThresholdRequest ==
  [rpc : {"UpdateThreshold"}, threshold_id : Nat, lower_bound : Int, upper_bound : Int,
   change_percent : Int, severity : 0..3, enabled : BOOLEAN]

DeleteThresholdRequest == [rpc : {"DeleteThreshold"}, threshold_id : Nat]

GetActiveAlertsRequest ==
  [rpc : {"GetActiveAlerts"}, device_id : DeviceName, min_severity : 0..3, limit : Int,
   offset : Int]

QueryAlertHistoryRequest ==
  [rpc : {"QueryAlertHistory"}, device_id : DeviceName, metric_name : MetricName,
   start_time : Nat, end_time : Nat, limit : Int]

SilenceAlertRequest ==
  [rpc : {"SilenceAlert"}, device_id : DeviceName, metric_name : MetricName,
   duration_seconds : Int]

GetSilenceStateRequest == [rpc : {"GetSilenceState"}, device_id : DeviceName]

ClearSilenceRequest == [rpc : {"ClearSilence"}, device_id : DeviceName]

GetAlertStatsRequest ==
  [rpc : {"GetAlertStats"}, device_id : DeviceName, start_time : Nat, end_time : Nat]

AlertMessage ==
  CreateThresholdRequest \cup GetThresholdsRequest \cup UpdateThresholdRequest
    \cup DeleteThresholdRequest \cup GetActiveAlertsRequest \cup QueryAlertHistoryRequest
    \cup SilenceAlertRequest \cup GetSilenceStateRequest \cup ClearSilenceRequest
    \cup GetAlertStatsRequest

(* Messages of the other services. *)

CreateDeviceRequest == [rpc : {"CreateDevice"}, device_id : DeviceName]
GetDeviceRequest == [rpc : {"GetDevice"}, device_id : DeviceName]
ListDevicesRequest == [rpc : {"ListDevices"}, limit : Int, offset : Int]
UpdateDeviceStatusRequest ==
  [rpc : {"UpdateDeviceStatus"}, device_id : DeviceName, new_status : 0..4]
SubmitMetricRequest ==
  [rpc : {"SubmitMetric"}, device_id : DeviceName, metric_name : MetricName]
QueryMetricsRequest ==
  [rpc : {"QueryMetrics"}, device_id : DeviceName, metric_name : MetricName,
   start_time : Int, end_time : Int, limit : Int]

OtherMessage ==
  CreateDeviceRequest \cup GetDeviceRequest \cup ListDevicesRequest
    \cup UpdateDeviceStatusRequest \cup SubmitMetricRequest \cup QueryMetricsRequest

Message == AlertMessage \cup OtherMessage

-----------------------------------------------------------------------------
(* Routes. *)

Route ==
  {"health", "createDevice", "getDevice", "listDevices", "updateDeviceStatus",
   "submitMetric", "queryMetrics", "getActiveAlerts", "getAlertStats", "createThreshold",
   "getThresholds", "updateThreshold", "deleteThreshold", "silenceAlert"}

Number == Int \cup {Blank}

\* What a client sends.  parses: the body, where there is one, is JSON of the
\* right types.  Enum values are texts, and numbers of the query string may be
\* missing.
HttpRequest ==
  [route : Route, parses : BOOLEAN, id : Nat, device_id : DeviceName,
   metric_name : MetricName, type : STRING, severity : STRING, status : STRING,
   lower_bound : Int, upper_bound : Int, change_percent : Int, enabled : BOOLEAN,
   duration_seconds : Int, limit : Number, offset : Number, start_time : Number,
   end_time : Number]

HasBody ==
  {"createDevice", "updateDeviceStatus", "submitMetric", "createThreshold",
   "updateThreshold", "silenceAlert"}

\* Answered 400 by the gateway itself.
BadRequest(q) ==
  \/ q.route \in HasBody /\ ~q.parses
  \/ q.route \in {"queryMetrics", "getAlertStats"} /\ q.device_id = Blank

\* strconv.Atoi, then a conversion to int32.
ParseInt(s, default) == IF s = Blank THEN default ELSE s

Int32(n) ==
  IF n \in -(IntMax + 1)..IntMax
    THEN n ELSE ((n + IntMax + 1) % (2 * (IntMax + 1))) - (IntMax + 1)

(* The handler of each route, up to its call. *)

createDevice(q) == [rpc |-> "CreateDevice", device_id |-> q.device_id]

getDevice(q) == [rpc |-> "GetDevice", device_id |-> q.device_id]

listDevices(q) ==
  [rpc |-> "ListDevices", limit |-> Int32(ParseInt(q.limit, DefaultLimit)),
   offset |-> Int32(ParseInt(q.offset, 0))]

updateDeviceStatus(q) ==
  [rpc |-> "UpdateDeviceStatus", device_id |-> q.device_id,
   new_status |-> Parse(DeviceStatus_value, q.status, 0)]

submitMetric(q) ==
  [rpc |-> "SubmitMetric", device_id |-> q.device_id, metric_name |-> q.metric_name]

\* A time that is missing goes out as 1970, not as missing.
queryMetrics(q) ==
  [rpc |-> "QueryMetrics", device_id |-> q.device_id, metric_name |-> q.metric_name,
   start_time |-> ParseInt(q.start_time, 0), end_time |-> ParseInt(q.end_time, 0),
   limit |-> Int32(ParseInt(q.limit, DefaultLimit))]

getActiveAlerts(q) ==
  [rpc |-> "GetActiveAlerts", device_id |-> q.device_id, min_severity |-> 0,
   limit |-> Int32(ParseInt(q.limit, DefaultLimit)), offset |-> 0]

getAlertStats(q) ==
  [rpc |-> "GetAlertStats", device_id |-> q.device_id, start_time |-> 0, end_time |-> 0]

createThreshold(q) ==
  [rpc |-> "CreateThreshold", device_id |-> q.device_id, metric_name |-> q.metric_name,
   type |-> Parse(ThresholdType_value, q.type, 1), lower_bound |-> q.lower_bound,
   upper_bound |-> q.upper_bound, change_percent |-> q.change_percent,
   severity |-> Parse(AlertSeverity_value, q.severity, 2), enabled |-> q.enabled]

getThresholds(q) ==
  [rpc |-> "GetThresholds", device_id |-> q.device_id, metric_name |-> q.metric_name,
   only_enabled |-> FALSE]

updateThreshold(q) ==
  [rpc |-> "UpdateThreshold", threshold_id |-> q.id, lower_bound |-> q.lower_bound,
   upper_bound |-> q.upper_bound, change_percent |-> q.change_percent,
   severity |-> Parse(AlertSeverity_value, q.severity, 2), enabled |-> q.enabled]

deleteThreshold(q) == [rpc |-> "DeleteThreshold", threshold_id |-> q.id]

silenceAlert(q) ==
  [rpc |-> "SilenceAlert", device_id |-> q.device_id, metric_name |-> q.metric_name,
   duration_seconds |-> q.duration_seconds]

Call(q) ==
  CASE q.route = "createDevice" -> createDevice(q)
    [] q.route = "getDevice" -> getDevice(q)
    [] q.route = "listDevices" -> listDevices(q)
    [] q.route = "updateDeviceStatus" -> updateDeviceStatus(q)
    [] q.route = "submitMetric" -> submitMetric(q)
    [] q.route = "queryMetrics" -> queryMetrics(q)
    [] q.route = "getActiveAlerts" -> getActiveAlerts(q)
    [] q.route = "getAlertStats" -> getAlertStats(q)
    [] q.route = "createThreshold" -> createThreshold(q)
    [] q.route = "getThresholds" -> getThresholds(q)
    [] q.route = "updateThreshold" -> updateThreshold(q)
    [] q.route = "deleteThreshold" -> deleteThreshold(q)
    [] q.route = "silenceAlert" -> silenceAlert(q)

\* The status of a call that succeeded; every error is a 500.
SuccessStatus(rpc) ==
  CASE rpc \in {"CreateDevice", "SubmitMetric", "CreateThreshold"} -> 201
    [] rpc = "DeleteThreshold" -> 204
    [] OTHER -> 200

\* Mutant: the status of the service is passed on.
StatusOfPassed(rpc, code) ==
  CASE code = "OK" -> SuccessStatus(rpc) [] code = "Unavailable" -> 503 [] OTHER -> 500

\* Mutant: deleteThreshold ignores the error.
StatusOfDeleted(rpc, code) ==
  IF code = "OK" \/ rpc = "DeleteThreshold" THEN SuccessStatus(rpc) ELSE 500

StatusOf(rpc, code) == IF code = "OK" THEN SuccessStatus(rpc) ELSE 500
=============================================================================
