--------------------------- MODULE MCDeviceRegistry ---------------------------
(***************************************************************************)
(* Small instances of DeviceRegistry.                                      *)
(***************************************************************************)
EXTENDS DeviceRegistry

Ask4(op, arg, ok) == {[op |-> op, dev |-> d, arg |-> arg, ok |-> ok] : d \in Device}

\* Racing creations and reads, a list, an update, and a request that misses a
\* required field.
RaceRequests ==
  Ask4("create", 0, TRUE) \cup Ask4("get", 0, TRUE) \cup Ask4("update", 4, TRUE)
    \cup Ask4("list", 1, TRUE) \cup Ask4("create", 0, FALSE)

CreateOnly == Ask4("create", 0, TRUE)

=============================================================================
