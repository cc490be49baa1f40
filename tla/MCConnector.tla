----------------------------- MODULE MCConnector -----------------------------
(***************************************************************************)
(* Small instances of Connector.                                           *)
(***************************************************************************)
EXTENDS Connector

CONSTANTS d1, m1

Sub(path, idx, seg, metric) ==
  [path |-> path, pathIdx |-> idx, segment |-> seg, metric |-> metric]

Msg(sub, topic, ok, metric, stamp) ==
  [sub |-> sub, topic |-> topic, ok |-> ok, metric |-> metric, stamp |-> stamp]

\* A reading that leaves the names and the time to the connector, and one that
\* names no device: its topic has no third segment.
MixedInputs ==
  {Msg(Sub("segment", 0, 0, NoName), <<d1, NoName>>, TRUE, NoName, 0),
   Msg(Sub("none", 0, 2, m1), <<m1, d1>>, TRUE, m1, 7)}

\* Sizes 0, 1 and 2: the first one is replaced by loadConfig.
Sizes == [b \in 1..NumBrokers |-> b - 1]
=============================================================================
