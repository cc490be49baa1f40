---------------------------- MODULE DeviceRegistry ----------------------------
(***************************************************************************)
(* The device service: its four RPCs over the devices table, the Redis     *)
(* cache in front of it and the goroutines that fill that cache, and the   *)
(* watchdog of the telemetry service, which is one of its clients.         *)
(*                                                                         *)
(* A certificate, and the private key that belongs to it, is named by the  *)
(* CreateDevice call that made it.  Of a device's columns only the status  *)
(* can change, so the cached JSON is its status.                           *)
(***************************************************************************)
EXTENDS Integers

CONSTANTS
  Device,    \* device ids
  Call,      \* RPCs of clients, each made once
  Watchdog,  \* the client of the silent watchdog, which makes many
  NoCall,    \* no certificate
  Requests,  \* what clients may ask: operation, device, status, well-formed
  Faults,    \* databases, Redis and processes may fail
  MaxAge,    \* silentMaxAge
  KeyTTL,    \* lifetime of a last_seen key
  MaxCrash,  \* bound on the crashes
  MaxTime    \* bound on the clock

Client == Call \cup {Watchdog}

\* pb.DeviceStatus: unspecified, active, silent, degraded, inactive.
Enum == 0..4
Silent == 2

\* What the CHECK of the status column admits.
Column == {"active", "silent", "degraded", "inactive"}

Operation == {"create", "get", "list", "update"}
Request == [op : Operation, dev : Device, arg : Enum, ok : BOOLEAN]

ASSUME RegistryAssumption ==
  /\ Watchdog \notin Call /\ NoCall \notin Client
  /\ Requests \subseteq Request /\ Requests # {} /\ Faults \in BOOLEAN
  /\ MaxAge \in Nat /\ KeyTTL \in Nat /\ MaxCrash \in Nat /\ MaxTime \in Nat

VARIABLES
  now,      \* time.Now
  row,      \* the devices table and its certificates
  cache,    \* device:{id} in Redis, or "none"
  warm,     \* the goroutines of cacheDevice and refreshDeviceInCache
  lastSeen, \* last_seen:{id} in Redis, or 0
  pc,       \* where the handler of a client's call is
  req,      \* the client's request
  ans,      \* its answer ...
  seen,     \* ... the status that a GetDevice reports
  list,     \* ... and the devices that a ListDevices reports
  known,    \* history: the devices acknowledged before the call began
  watch,    \* where the watchdog is in its scan
  left,     \* the keys its scan has yet to visit
  events,   \* the devices announced as silent
  crashes

calls == <<pc, req, ans, seen, list, known>>
watchdog == <<watch, left, events>>
vars == <<now, row, cache, warm, lastSeen, calls, watchdog, crashes>>

-----------------------------------------------------------------------------
(* Conversions of the status. *)

\* string(req.NewStatus): the character with that number.
AsText(n) ==
  IF n = 0 THEN "U+0000" ELSE IF n = 1 THEN "U+0001" ELSE IF n = 2 THEN "U+0002"
  ELSE IF n = 3 THEN "U+0003" ELSE "U+0004"

\* Mutant: a status that has no name is -1.
ByNameNegative(s) == IF s = "DEVICE_STATUS_ACTIVE" THEN 1 ELSE -1

\* pb.DeviceStatus_value: its keys are the names of the enum, and a map answers
\* 0 for a key it does not have.
ByName(s) ==
  IF s = "DEVICE_STATUS_ACTIVE" THEN 1 ELSE IF s = "DEVICE_STATUS_SILENT" THEN 2
  ELSE IF s = "DEVICE_STATUS_DEGRADED" THEN 3
  ELSE IF s = "DEVICE_STATUS_INACTIVE" THEN 4 ELSE 0

\* statusMap of deviceToResponse.
ByColumn(s) ==
  IF s = "active" THEN 1 ELSE IF s = "silent" THEN 2 ELSE IF s = "degraded" THEN 3
  ELSE IF s = "inactive" THEN 4 ELSE 0

Registered(d) == row[d].cert # NoCall

-----------------------------------------------------------------------------
Init ==
  /\ now = 1
  /\ row = [d \in Device |-> [cert |-> NoCall, status |-> "active"]]
  /\ cache = [d \in Device |-> "none"]
  /\ warm = {}
  /\ lastSeen = [d \in Device |-> 0]
  /\ pc = [c \in Client |-> "idle"]
  /\ req = [c \in Client |-> CHOOSE r \in Requests : TRUE]
  /\ ans = [c \in Client |-> "none"]
  /\ seen = [c \in Client |-> 0]
  /\ list = [c \in Client |-> {}]
  /\ known = [c \in Client |-> {}]
  /\ watch = "idle" /\ left = {} /\ events = {}
  /\ crashes = 0

FirstStep(op) ==
  IF op = "create" THEN "exists" ELSE IF op = "get" THEN "cache" ELSE op

Acknowledged == {d \in Device : \E c \in Call : ans[c] = "created" /\ req[c].dev = d}

Begin(c, r) ==
  /\ pc' = [pc EXCEPT ![c] = FirstStep(r.op)]
  /\ req' = [req EXCEPT ![c] = r]
  /\ ans' = [ans EXCEPT ![c] = "none"]
  /\ known' = [known EXCEPT ![c] = Acknowledged]
  /\ UNCHANGED <<seen, list>>

Answer(c, a) ==
  /\ pc' = [pc EXCEPT ![c] = "done"]
  /\ ans' = [ans EXCEPT ![c] = a]

\* A request that misses a required field is refused; ListDevices requires none.
Arrive(c) ==
  /\ c \in Call /\ pc[c] = "idle"
  /\ \E r \in Requests :
       \/ (r.ok \/ r.op = "list") /\ Begin(c, r)
       \/ /\ ~r.ok /\ r.op # "list"
          /\ Answer(c, "invalid")
          /\ req' = [req EXCEPT ![c] = r]
          /\ UNCHANGED <<seen, list, known>>
  /\ UNCHANGED <<now, row, cache, warm, lastSeen, watchdog, crashes>>

\* Any statement may fail, and so does the call.
DbError(c) ==
  /\ Faults /\ pc[c] \in {"exists", "insert", "row", "cert", "list", "update"}
  /\ Answer(c, "error")
  /\ UNCHANGED <<now, row, cache, warm, lastSeen, req, seen, list, known, watchdog,
                 crashes>>

-----------------------------------------------------------------------------
(* CreateDevice. *)

CreateExists(c) ==
  /\ pc[c] = "exists"
  /\ IF Registered(req[c].dev)
       THEN Answer(c, "exists")
       ELSE pc' = [pc EXCEPT ![c] = "insert"] /\ UNCHANGED ans
  /\ UNCHANGED <<now, row, cache, warm, lastSeen, req, seen, list, known, watchdog,
                 crashes>>

\* Mutant: the table has no UNIQUE constraint.
VacantAlways(d) == TRUE

\* UNIQUE (device_id).
Vacant(d) == ~Registered(d)

WarmSet(d, s) == [dev |-> d, step |-> "set", status |-> s]
WarmRefresh(d) == [dev |-> d, step |-> "refresh", status |-> "active"]

\* The transaction writes the device and its certificate, or nothing.
Insert(c) == row' = [row EXCEPT ![req[c].dev] = [cert |-> c, status |-> "active"]]

CreateCommit(c) ==
  /\ pc[c] = "insert" /\ Vacant(req[c].dev)
  /\ Insert(c)
  /\ warm' = warm \cup {WarmSet(req[c].dev, "active")}
  /\ Answer(c, "created")
  /\ UNCHANGED <<now, cache, lastSeen, req, seen, list, known, watchdog, crashes>>

\* The answer of the commit is lost.
CreateCommitLost(c) ==
  /\ Faults /\ pc[c] = "insert" /\ Vacant(req[c].dev)
  /\ Insert(c)
  /\ Answer(c, "error")
  /\ UNCHANGED <<now, cache, warm, lastSeen, req, seen, list, known, watchdog, crashes>>

\* Mutant: a device that is there already counts as created.
CreateClashCreated(c) ==
  /\ pc[c] = "insert" /\ Registered(req[c].dev)
  /\ Answer(c, "created")
  /\ UNCHANGED <<now, row, cache, warm, lastSeen, req, seen, list, known, watchdog,
                 crashes>>

CreateClash(c) ==
  /\ pc[c] = "insert" /\ Registered(req[c].dev)
  /\ Answer(c, "error")
  /\ UNCHANGED <<now, row, cache, warm, lastSeen, req, seen, list, known, watchdog,
                 crashes>>

-----------------------------------------------------------------------------
(* GetDevice. *)

GetCached(c) ==
  /\ pc[c] = "cache" /\ cache[req[c].dev] # "none"
  /\ warm' = warm \cup {WarmRefresh(req[c].dev)}
  /\ seen' = [seen EXCEPT ![c] = ByColumn(cache[req[c].dev])]
  /\ Answer(c, "found")
  /\ UNCHANGED <<now, row, cache, lastSeen, req, list, known, watchdog, crashes>>

\* A miss, or an error of Redis.
GetMiss(c) ==
  /\ pc[c] = "cache" /\ (cache[req[c].dev] = "none" \/ Faults)
  /\ pc' = [pc EXCEPT ![c] = "row"]
  /\ UNCHANGED <<now, row, cache, warm, lastSeen, req, ans, seen, list, known, watchdog,
                 crashes>>

GetRow(c) ==
  /\ pc[c] = "row" /\ Registered(req[c].dev)
  /\ warm' = warm \cup {WarmSet(req[c].dev, row[req[c].dev].status)}
  /\ seen' = [seen EXCEPT ![c] = ByName(row[req[c].dev].status)]
  /\ pc' = [pc EXCEPT ![c] = "cert"]
  /\ UNCHANGED <<now, row, cache, lastSeen, req, ans, list, known, watchdog, crashes>>

\* The transaction of CreateDevice stored a certificate with every row.
GetCert(c) ==
  /\ pc[c] = "cert"
  /\ Answer(c, "found")
  /\ UNCHANGED <<now, row, cache, warm, lastSeen, req, seen, list, known, watchdog,
                 crashes>>

\* Mutant: the handler starts over instead of answering that there is no row.
GetMissingRetried(c) ==
  /\ pc[c] = "row" /\ ~Registered(req[c].dev)
  /\ pc' = [pc EXCEPT ![c] = "cache"]
  /\ UNCHANGED <<now, row, cache, warm, lastSeen, req, ans, seen, list, known, watchdog,
                 crashes>>

GetMissing(c) ==
  /\ pc[c] = "row" /\ ~Registered(req[c].dev)
  /\ Answer(c, "missing")
  /\ UNCHANGED <<now, row, cache, warm, lastSeen, req, seen, list, known, watchdog,
                 crashes>>

-----------------------------------------------------------------------------
(* ListDevices and UpdateDeviceStatus. *)

\* PostgreSQL refuses a text that holds the character 0; the filter compares the
\* column with any other.  One page holds every device.
ListDevices(c) ==
  /\ pc[c] = "list"
  /\ IF req[c].arg = 0
       THEN Answer(c, "error") /\ UNCHANGED list
       ELSE /\ Answer(c, "listed")
            /\ list' = [list EXCEPT ![c] = {d \in Device :
                 Registered(d) /\ row[d].status = AsText(req[c].arg)}]
  /\ UNCHANGED <<now, row, cache, warm, lastSeen, req, seen, known, watchdog, crashes>>

\* The CHECK admits no such text: an UPDATE that finds the row fails, and so
\* does one that finds none.  Were it to succeed, the cache would be cleared.
UpdateDeviceStatus(c) ==
  /\ pc[c] = "update"
  /\ IF Registered(req[c].dev) /\ AsText(req[c].arg) \in Column
       THEN /\ row' = [row EXCEPT ![req[c].dev] =
                 [cert |-> @.cert, status |-> AsText(req[c].arg)]]
            /\ cache' = [cache EXCEPT ![req[c].dev] = "none"]
            /\ Answer(c, "updated")
       ELSE Answer(c, "error") /\ UNCHANGED <<row, cache>>
  /\ UNCHANGED <<now, warm, lastSeen, req, seen, list, known, watchdog, crashes>>

-----------------------------------------------------------------------------
(* The goroutines that fill the cache, and the cache. *)

WarmSets(g) ==
  /\ g.step = "set"
  /\ cache' = [cache EXCEPT ![g.dev] = g.status]
  /\ warm' = warm \ {g}
  /\ UNCHANGED <<now, row, lastSeen, calls, watchdog, crashes>>

WarmReads(g) ==
  /\ g.step = "refresh"
  /\ warm' = (warm \ {g}) \cup
             (IF Registered(g.dev) THEN {WarmSet(g.dev, row[g.dev].status)} ELSE {})
  /\ UNCHANGED <<now, row, cache, lastSeen, calls, watchdog, crashes>>

WarmFails(g) ==
  /\ Faults
  /\ warm' = warm \ {g}
  /\ UNCHANGED <<now, row, cache, lastSeen, calls, watchdog, crashes>>

CacheExpires(d) ==
  /\ cache[d] # "none"
  /\ cache' = [cache EXCEPT ![d] = "none"]
  /\ UNCHANGED <<now, row, warm, lastSeen, calls, watchdog, crashes>>

-----------------------------------------------------------------------------
(* The silent watchdog. *)

\* The ticker fires: the SCAN will return the keys that exist now.
WatchTick ==
  /\ watch = "idle"
  /\ watch' = "key"
  /\ left' = {d \in Device : lastSeen[d] # 0}
  /\ UNCHANGED <<now, row, cache, warm, lastSeen, calls, events, crashes>>

Idle(d) == lastSeen[d] # 0 /\ now - lastSeen[d] > MaxAge

Ask(op, d) == [op |-> op, dev |-> d, arg |-> Silent, ok |-> TRUE]

\* Mutant: the key stays on the page.
RemainingSame(S, d) == S

Remaining(S, d) == S \ {d}

\* The key is read again: it may be gone or fresh by now.
WatchKey(d) ==
  /\ watch = "key" /\ d \in left
  /\ left' = Remaining(left, d)
  /\ IF Idle(d)
       THEN watch' = "get" /\ Begin(Watchdog, Ask("get", d))
       ELSE UNCHANGED <<watch, calls>>
  /\ UNCHANGED <<now, row, cache, warm, lastSeen, events, crashes>>

WatchKeyFails(d) ==
  /\ Faults /\ watch = "key" /\ d \in left
  /\ left' = Remaining(left, d)
  /\ UNCHANGED <<now, row, cache, warm, lastSeen, calls, watch, events, crashes>>

WatchGot ==
  /\ watch = "get" /\ pc[Watchdog] = "done"
  /\ IF ans[Watchdog] = "found" /\ seen[Watchdog] # Silent
       THEN watch' = "update" /\ Begin(Watchdog, Ask("update", req[Watchdog].dev))
       ELSE watch' = "key" /\ UNCHANGED calls
  /\ UNCHANGED <<now, row, cache, warm, lastSeen, left, events, crashes>>

WatchUpdated ==
  /\ watch = "update" /\ pc[Watchdog] = "done"
  /\ events' = IF ans[Watchdog] = "updated" THEN events \cup {req[Watchdog].dev} ELSE events
  /\ watch' = "key"
  /\ UNCHANGED <<now, row, cache, warm, lastSeen, calls, left, crashes>>

\* The scan is over, or SCAN failed.
WatchEnds ==
  /\ watch = "key" /\ (left = {} \/ Faults)
  /\ watch' = "idle" /\ left' = {}
  /\ UNCHANGED <<now, row, cache, warm, lastSeen, calls, events, crashes>>

-----------------------------------------------------------------------------
(* The environment. *)

\* A point of a registered device is stored; see TelemetryIngest.
Seen(d) ==
  /\ Registered(d)
  /\ lastSeen' = [lastSeen EXCEPT ![d] = now]
  /\ UNCHANGED <<now, row, cache, warm, calls, watchdog, crashes>>

KeyExpires(d) ==
  /\ lastSeen[d] # 0 /\ now - lastSeen[d] >= KeyTTL
  /\ lastSeen' = [lastSeen EXCEPT ![d] = 0]
  /\ UNCHANGED <<now, row, cache, warm, calls, watchdog, crashes>>

Tick ==
  /\ now < MaxTime
  /\ now' = now + 1
  /\ UNCHANGED <<row, cache, warm, lastSeen, calls, watchdog, crashes>>

InHandler(c) == pc[c] \notin {"idle", "done"}

\* The device service restarts; its clients see their calls fail.
Crash ==
  /\ Faults /\ crashes < MaxCrash
  /\ crashes' = crashes + 1
  /\ warm' = {}
  /\ pc' = [c \in Client |-> IF InHandler(c) THEN "done" ELSE pc[c]]
  /\ ans' = [c \in Client |-> IF InHandler(c) THEN "error" ELSE ans[c]]
  /\ UNCHANGED <<now, row, cache, lastSeen, req, seen, list, known, watchdog>>

-----------------------------------------------------------------------------
CreateStep(c) == CreateExists(c) \/ CreateCommit(c) \/ CreateCommitLost(c) \/ CreateClash(c)

GetStep(c) == GetCached(c) \/ GetMiss(c) \/ GetRow(c) \/ GetCert(c) \/ GetMissing(c)

Handler(c) ==
  CreateStep(c) \/ GetStep(c) \/ ListDevices(c) \/ UpdateDeviceStatus(c)

Scanning ==
  \/ \E d \in Device : WatchKey(d) \/ WatchKeyFails(d)
  \/ WatchGot \/ WatchUpdated \/ WatchEnds

Warming == \E g \in warm : WarmSets(g) \/ WarmReads(g) \/ WarmFails(g)

Next ==
  \/ \E c \in Client : Arrive(c) \/ Handler(c) \/ DbError(c)
  \/ Warming \/ WatchTick \/ Scanning
  \/ \E d \in Device : CacheExpires(d) \/ Seen(d) \/ KeyExpires(d)
  \/ Tick \/ Crash

\* The goroutines run and the ticker of the watchdog fires; no failure is owed.
Fairness ==
  /\ \A c \in Client : WF_vars(Handler(c))
  /\ WF_vars(Warming) /\ WF_vars(WatchTick) /\ WF_vars(Scanning)

Spec == Init /\ [][Next]_vars

FairSpec == Spec /\ Fairness

-----------------------------------------------------------------------------
(* Properties. *)

Warmer == [dev : Device, step : {"set", "refresh"}, status : Column]

\* Every variable has its type.
TypeOK ==
  /\ now \in Nat /\ crashes \in Nat
  /\ row \in [Device -> [cert : Client \cup {NoCall}, status : Column]]
  /\ cache \in [Device -> Column \cup {"none"}]
  /\ warm \in SUBSET Warmer
  /\ lastSeen \in [Device -> Nat]
  /\ pc \in [Client -> {"idle", "exists", "insert", "cache", "row", "cert", "list",
                        "update", "done"}]
  /\ req \in [Client -> Request]
  /\ ans \in [Client -> {"none", "invalid", "exists", "error", "created", "missing",
                         "found", "listed", "updated"}]
  /\ seen \in [Client -> Enum]
  /\ list \in [Client -> SUBSET Device]
  /\ known \in [Client -> SUBSET Device]
  /\ watch \in {"idle", "key", "get", "update"}
  /\ left \in SUBSET Device /\ events \in SUBSET Device

\* The private key a client was given belongs to the certificate that is stored
\* for its device: of two racing CreateDevice calls for one device at most one
\* succeeds, and nothing replaces its certificate later.
KeyMatchesCertificate ==
  \A c \in Call : ans[c] = "created" => row[req[c].dev].cert = c

\* The cache, and whoever is about to fill it, only knows registered devices.
CacheOnlyRegistered ==
  \A d \in Device :
    cache[d] # "none" \/ (\E g \in warm : g.dev = d) => Registered(d)

\* A device whose creation was acknowledged is never reported as missing by a
\* call that begins afterwards, whatever the cache lost or Redis refused.
AcknowledgedIsFound ==
  \A c \in Client : ans[c] = "missing" => req[c].dev \notin known[c]

\* Every call that entered its handler is answered.
EveryCallAnswered == \A c \in Call : InHandler(c) ~> pc[c] = "done"

\* A scan of the watchdog ends, whatever the device service answers.
ScanEnds == watch # "idle" ~> watch = "idle"

\* A device that sent nothing for silentMaxAge is marked SILENT.
SilentIsMarked ==
  \A d \in Device : <>[](Registered(d) /\ Idle(d)) => <>(row[d].status = "silent")

-----------------------------------------------------------------------------
(* What clients see of all this. *)

AnswerOf(c) ==
  IF pc[c] = "idle" THEN "idle" ELSE IF ans[c] = "none" THEN "open" ELSE ans[c]

Directory == INSTANCE DeviceDirectory WITH
               owner <- [d \in Device |-> row[d].cert],
               asked <- [c \in Client |-> [op |-> req[c].op, dev |-> req[c].dev]],
               told <- [c \in Client |-> AnswerOf(c)],
               listing <- list

\* The table, the cache that is filled late and lost at will, the racing
\* handlers and the crashes together implement the directory of
\* DeviceDirectory: every call takes effect at one instant while its client
\* waits, a device is entered once and keeps its owner, and an answer is true of
\* the table at that instant, whether it came from Redis or from PostgreSQL.
ImplementsDirectory == Directory!Spec

-----------------------------------------------------------------------------
(* The inductive invariant behind the safety properties. *)

\* What was acknowledged before a call began is still registered.
KnownIsRegistered == \A c \in Client : \A d \in known[c] : Registered(d)

Safe ==
  /\ TypeOK /\ KeyMatchesCertificate /\ CacheOnlyRegistered /\ AcknowledgedIsFound
  /\ KnownIsRegistered

\* The statements of each RPC.
StatementsOf(op) ==
  IF op = "create" THEN {"exists", "insert"}
  ELSE IF op = "get" THEN {"cache", "row", "cert"} ELSE {op}

\* Where a handler can be: at a statement of its RPC, not yet answered, and past
\* the row of a device only if there is one.  The watchdog waits for the one
\* call it makes.
InStep ==
  /\ \A c \in Client :
       /\ InHandler(c) => ans[c] = "none" /\ pc[c] \in StatementsOf(req[c].op)
       /\ pc[c] = "done" => ans[c] # "none"
       /\ pc[c] = "cert" => Registered(req[c].dev)
  /\ watch \in {"idle", "key"} => ~InHandler(Watchdog)
=============================================================================
