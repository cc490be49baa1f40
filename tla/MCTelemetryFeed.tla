--------------------------- MODULE MCTelemetryFeed ---------------------------
(***************************************************************************)
(* A small instance of TelemetryFeed.                                      *)
(***************************************************************************)
EXTENDS TelemetryFeed

Texts ==
  Worker \cup KnownFields \cup {"", "devices", "telemetry", "temperature", "a", "temp"}

\* A message with a field that nobody knows.
Stranger ==
  {[topic |-> <<"devices", "a", "telemetry">>, fields |-> {"temp"}, metric_name |-> "",
    of |-> {}]}
=============================================================================
