------------------------- MODULE DeviceRegistryProofs -------------------------
(***************************************************************************)
(* The registry keeps its promises for any number of devices, calls and    *)
(* crashes.                                                                *)
(***************************************************************************)
EXTENDS DeviceRegistry, TLAPS

USE DEF calls, watchdog

\* The conversions stay within the enum.
LEMMA Conversions == \A s : ByName(s) \in Enum /\ ByColumn(s) \in Enum
BY DEF ByName, ByColumn, Enum

LEMMA FirstSteps == \A op \in Operation : FirstStep(op) \in {"exists", "cache", "list", "update"}
BY DEF FirstStep, Operation

LEMMA InitSafe == Init => Safe
<1> SUFFICES ASSUME Init PROVE Safe
  OBVIOUS
<1>1. TypeOK
  <2>1. PICK r \in Request : r = CHOOSE q \in Requests : TRUE
    BY RegistryAssumption
  <2>2. req \in [Client -> Request]
    BY <2>1 DEF Init
  <2>3. row \in [Device -> [cert : Client \cup {NoCall}, status : Column]]
    BY DEF Init, Column
  <2> QED
    BY <2>2, <2>3 DEF Init, TypeOK, Enum
<1>2. KeyMatchesCertificate /\ AcknowledgedIsFound /\ KnownIsRegistered
  BY DEF Init, KeyMatchesCertificate, AcknowledgedIsFound, KnownIsRegistered, Client
<1>3. CacheOnlyRegistered
  BY DEF Init, CacheOnlyRegistered
<1> QED
  BY <1>1, <1>2, <1>3 DEF Safe

-----------------------------------------------------------------------------
\* A step that leaves the table alone and reports neither a creation nor a miss
\* keeps the four safety conjuncts.
LEMMA Keeps ==
  ASSUME Safe, row' = row,
         \A d \in Device :
           cache'[d] # "none" \/ (\E g \in warm' : g.dev = d) => Registered(d),
         \A c \in Client :
           \/ ans'[c] = ans[c] /\ req'[c] = req[c] /\ known'[c] = known[c]
           \/ /\ ans'[c] \notin {"created", "missing"}
              /\ known'[c] = known[c] \/ known'[c] = Acknowledged
  PROVE  /\ KeyMatchesCertificate' /\ CacheOnlyRegistered' /\ AcknowledgedIsFound'
         /\ KnownIsRegistered'
<1>1. KeyMatchesCertificate'
  BY DEF Safe, KeyMatchesCertificate, Client
<1>2. CacheOnlyRegistered'
  BY DEF CacheOnlyRegistered, Registered
<1>3. AcknowledgedIsFound'
  BY DEF Safe, AcknowledgedIsFound
<1>a. \A d \in Acknowledged : Registered(d)
  <2> TAKE d \in Acknowledged
  <2>1. PICK c \in Call : ans[c] = "created" /\ req[c].dev = d
    BY DEF Acknowledged
  <2>2. row[d].cert = c
    BY <2>1 DEF Safe, KeyMatchesCertificate
  <2> QED
    BY <2>2, RegistryAssumption DEF Registered, Client
<1>4. KnownIsRegistered'
  BY <1>a DEF Safe, KnownIsRegistered, Registered
<1> QED
  BY <1>1, <1>2, <1>3, <1>4

\* A step that neither touches the table nor adds to the cache.
LEMMA Quiet ==
  ASSUME Safe, UNCHANGED <<row, cache, req, known>>, warm' \subseteq warm,
         \A c \in Client : ans'[c] = ans[c] \/ ans'[c] \notin {"created", "missing"}
  PROVE  /\ KeyMatchesCertificate' /\ CacheOnlyRegistered' /\ AcknowledgedIsFound'
         /\ KnownIsRegistered'
<1>1. \A d \in Device :
        cache'[d] # "none" \/ (\E g \in warm' : g.dev = d) => Registered(d)
  BY DEF Safe, CacheOnlyRegistered
<1> QED
  BY <1>1, Keeps

\* The request is recorded, and nothing that matters is reported.
LEMMA Begins ==
  ASSUME Safe, NEW c \in Client, NEW r \in Request, Begin(c, r),
         UNCHANGED <<now, row, cache, warm, lastSeen, crashes>>,
         watch' \in {"idle", "key", "get", "update"},
         left' \in SUBSET Device, events' \in SUBSET Device
  PROVE  Safe'
<1>1. TypeOK'
  <2>1. FirstStep(r.op) \in {"exists", "cache", "list", "update"}
    BY FirstSteps DEF Request
  <2>2. Acknowledged \in SUBSET Device
    BY DEF Acknowledged
  <2> QED
    BY <2>1, <2>2 DEF Safe, TypeOK, Begin
<1>2. \A e \in Client :
        \/ ans'[e] = ans[e] /\ req'[e] = req[e] /\ known'[e] = known[e]
        \/ /\ ans'[e] \notin {"created", "missing"}
           /\ known'[e] = known[e] \/ known'[e] = Acknowledged
  BY DEF Safe, TypeOK, Begin
<1>3. \A d \in Device :
        cache'[d] # "none" \/ (\E g \in warm' : g.dev = d) => Registered(d)
  BY DEF Safe, CacheOnlyRegistered
<1> QED
  BY <1>1, <1>2, <1>3, Keeps DEF Safe

-----------------------------------------------------------------------------
(* One lemma per group of actions. *)

LEMMA ArriveSafe == ASSUME Safe, NEW c \in Client, Arrive(c) PROVE Safe'
<1>1. PICK r \in Requests :
        \/ (r.ok \/ r.op = "list") /\ Begin(c, r)
        \/ /\ ~r.ok /\ r.op # "list"
           /\ Answer(c, "invalid")
           /\ req' = [req EXCEPT ![c] = r]
           /\ UNCHANGED <<seen, list, known>>
  BY DEF Arrive
<1>r. r \in Request
  BY RegistryAssumption
<1>2. CASE Begin(c, r)
  BY <1>2, <1>r, Begins DEF Arrive, Safe, TypeOK
<1>3. CASE /\ Answer(c, "invalid") /\ req' = [req EXCEPT ![c] = r]
           /\ UNCHANGED <<seen, list, known>>
  <2>1. TypeOK'
    BY <1>3, <1>r DEF Safe, TypeOK, Answer, Arrive
  <2>2. \A e \in Client :
          \/ ans'[e] = ans[e] /\ req'[e] = req[e] /\ known'[e] = known[e]
          \/ /\ ans'[e] \notin {"created", "missing"}
             /\ known'[e] = known[e] \/ known'[e] = Acknowledged
    BY <1>3 DEF Safe, TypeOK, Answer
  <2>3. \A d \in Device :
          cache'[d] # "none" \/ (\E g \in warm' : g.dev = d) => Registered(d)
    BY DEF Safe, CacheOnlyRegistered, Arrive
  <2> QED
    BY <2>1, <2>2, <2>3, Keeps DEF Safe, Arrive
<1> QED
  BY <1>1, <1>2, <1>3

\* Steps of a handler that write nothing.
LEMMA ReadOnlySafe ==
  ASSUME Safe, NEW c \in Client,
         \/ DbError(c) \/ CreateExists(c) \/ CreateClash(c) \/ GetMiss(c) \/ GetCert(c)
         \/ ListDevices(c)
  PROVE  Safe'
<1>1. /\ UNCHANGED <<now, row, cache, warm, lastSeen, req, seen, known, watch, left, events,
                     crashes>>
      /\ ans' \in [Client -> {"none", "invalid", "exists", "error", "created", "missing",
                              "found", "listed", "updated"}]
      /\ \A e \in Client : ans'[e] = ans[e] \/ ans'[e] \notin {"created", "missing"}
  BY DEF Safe, TypeOK, DbError, CreateExists, CreateClash, GetMiss, GetCert, ListDevices,
         Answer
<1>2. pc' \in [Client -> {"idle", "exists", "insert", "cache", "row", "cert", "list",
                          "update", "done"}]
  BY DEF Safe, TypeOK, DbError, CreateExists, CreateClash, GetMiss, GetCert, ListDevices,
         Answer
<1>3. list' \in [Client -> SUBSET Device]
  BY DEF Safe, TypeOK, DbError, CreateExists, CreateClash, GetMiss, GetCert, ListDevices
<1>4. TypeOK'
  BY <1>1, <1>2, <1>3 DEF Safe, TypeOK
<1> QED
  BY <1>1, <1>4, Quiet DEF Safe

\* The row is written, with or without an answer.
LEMMA InsertSafe ==
  ASSUME Safe, NEW c \in Client, CreateCommit(c) \/ CreateCommitLost(c)
  PROVE  Safe'
<1> DEFINE d == req[c].dev
<1>d. d \in Device /\ ~Registered(d)
  BY DEF Safe, TypeOK, Request, CreateCommit, CreateCommitLost, Vacant
<1>1. /\ row'[d] = [cert |-> c, status |-> "active"]
      /\ \A e \in Device : e # d => row'[e] = row[e]
      /\ row' \in [Device -> [cert : Client \cup {NoCall}, status : Column]]
  BY <1>d DEF Safe, TypeOK, CreateCommit, CreateCommitLost, Insert, Column
<1>2. /\ UNCHANGED <<now, cache, lastSeen, req, seen, list, known, watch, left, events, crashes>>
      /\ \A e \in Client : e # c => ans'[e] = ans[e]
      /\ ans'[c] \in {"created", "error"}
      /\ pc' \in [Client -> {"idle", "exists", "insert", "cache", "row", "cert", "list",
                             "update", "done"}]
      /\ ans' \in [Client -> {"none", "invalid", "exists", "error", "created", "missing",
                              "found", "listed", "updated"}]
  BY DEF Safe, TypeOK, CreateCommit, CreateCommitLost, Answer
<1>3. warm' \in SUBSET Warmer /\ \A g \in warm' : g \in warm \/ g.dev = d
  BY <1>d DEF Safe, TypeOK, CreateCommit, CreateCommitLost, WarmSet, Warmer, Column
<1>4. \A e \in Device : Registered(e) => row'[e] = row[e]
  BY <1>1, <1>d
<1>5. \A e \in Device : Registered(e) \/ e = d => row'[e].cert # NoCall
  BY <1>1, <1>4, RegistryAssumption DEF Registered
<1>6. TypeOK'
  BY <1>1, <1>2, <1>3 DEF Safe, TypeOK
<1>7. KeyMatchesCertificate'
  <2> SUFFICES ASSUME NEW e \in Call, ans'[e] = "created" PROVE row'[req[e].dev].cert = e
    BY <1>2 DEF KeyMatchesCertificate
  <2>1. CASE e = c
    BY <2>1, <1>1
  <2>2. CASE e # c
    <3>1. row[req[e].dev].cert = e /\ req[e].dev \in Device
      BY <2>2, <1>2 DEF Safe, KeyMatchesCertificate, Client, TypeOK, Request
    <3>2. Registered(req[e].dev)
      BY <3>1, RegistryAssumption DEF Registered, Client
    <3> QED
      BY <3>1, <3>2, <1>4
  <2> QED
    BY <2>1, <2>2
<1>8. CacheOnlyRegistered'
  BY <1>2, <1>3, <1>5 DEF Safe, CacheOnlyRegistered, Registered
<1>9. AcknowledgedIsFound' /\ KnownIsRegistered'
  <2>1. AcknowledgedIsFound'
    BY <1>2 DEF Safe, AcknowledgedIsFound
  <2>2. KnownIsRegistered'
    BY <1>2, <1>5 DEF Safe, TypeOK, KnownIsRegistered, Registered
  <2> QED
    BY <2>1, <2>2
<1> QED
  BY <1>6, <1>7, <1>8, <1>9 DEF Safe

\* GetDevice finds the device and starts a goroutine.
LEMMA GetSafe == ASSUME Safe, NEW c \in Client, GetCached(c) \/ GetRow(c) PROVE Safe'
<1> DEFINE d == req[c].dev
<1>d. d \in Device /\ Registered(d) /\ row[d].status \in Column
  BY DEF Safe, TypeOK, Request, GetCached, GetRow, CacheOnlyRegistered
<1>1. /\ UNCHANGED <<now, row, cache, lastSeen, req, list, known, watch, left, events, crashes>>
      /\ \A e \in Client : ans'[e] = ans[e] \/ ans'[e] = "found"
      /\ pc' \in [Client -> {"idle", "exists", "insert", "cache", "row", "cert", "list",
                             "update", "done"}]
      /\ ans' \in [Client -> {"none", "invalid", "exists", "error", "created", "missing",
                              "found", "listed", "updated"}]
  BY DEF Safe, TypeOK, GetCached, GetRow, Answer
<1>2. seen' \in [Client -> Enum]
  BY Conversions DEF Safe, TypeOK, GetCached, GetRow
<1>3. warm' \in SUBSET Warmer /\ \A g \in warm' : g \in warm \/ g.dev = d
  BY <1>d DEF Safe, TypeOK, GetCached, GetRow, WarmSet, WarmRefresh, Warmer, Column
<1>4. TypeOK'
  BY <1>1, <1>2, <1>3 DEF Safe, TypeOK
<1>5. \A e \in Device :
        cache'[e] # "none" \/ (\E g \in warm' : g.dev = e) => Registered(e)
  BY <1>1, <1>3, <1>d DEF Safe, CacheOnlyRegistered
<1> QED
  BY <1>1, <1>4, <1>5, Keeps DEF Safe

\* A device that is reported as missing was not known when the call began.
LEMMA GetMissingSafe == ASSUME Safe, NEW c \in Client, GetMissing(c) PROVE Safe'
<1>1. /\ UNCHANGED <<now, row, cache, warm, lastSeen, req, seen, list, known, watch, left,
                     events, crashes>>
      /\ ans'[c] = "missing" /\ \A e \in Client : e # c => ans'[e] = ans[e]
      /\ ~Registered(req[c].dev)
  BY DEF Safe, TypeOK, GetMissing, Answer
<1>2. TypeOK'
  BY <1>1 DEF Safe, TypeOK, GetMissing, Answer
<1>3. KeyMatchesCertificate' /\ CacheOnlyRegistered' /\ KnownIsRegistered'
  BY <1>1 DEF Safe, KeyMatchesCertificate, CacheOnlyRegistered, KnownIsRegistered,
              Registered, Client
<1>4. AcknowledgedIsFound'
  BY <1>1 DEF Safe, AcknowledgedIsFound, KnownIsRegistered
<1> QED
  BY <1>2, <1>3, <1>4 DEF Safe

\* UpdateDeviceStatus keeps the certificate, whether or not the status is one
\* that the column admits.
LEMMA UpdateSafe == ASSUME Safe, NEW c \in Client, UpdateDeviceStatus(c) PROVE Safe'
<1> DEFINE d == req[c].dev
<1>1. /\ UNCHANGED <<now, warm, lastSeen, req, seen, list, known, watch, left, events, crashes>>
      /\ \A e \in Client : ans'[e] = ans[e] \/ ans'[e] \in {"updated", "error"}
      /\ pc' \in [Client -> {"idle", "exists", "insert", "cache", "row", "cert", "list",
                             "update", "done"}]
      /\ ans' \in [Client -> {"none", "invalid", "exists", "error", "created", "missing",
                              "found", "listed", "updated"}]
  BY DEF Safe, TypeOK, UpdateDeviceStatus, Answer
<1>d. d \in Device
  BY DEF Safe, TypeOK, Request
<1>2. /\ row' \in [Device -> [cert : Client \cup {NoCall}, status : Column]]
      /\ \A e \in Device : row'[e].cert = row[e].cert
  <2>1. CASE row' = row
    BY <2>1 DEF Safe, TypeOK
  <2>2. CASE /\ AsText(req[c].arg) \in Column
             /\ row' = [row EXCEPT ![d] = [cert |-> @.cert, status |-> AsText(req[c].arg)]]
    BY <2>2, <1>d DEF Safe, TypeOK
  <2> QED
    BY <2>1, <2>2 DEF UpdateDeviceStatus
<1>3. /\ cache' \in [Device -> Column \cup {"none"}]
      /\ \A e \in Device : cache'[e] # "none" => cache[e] # "none"
  BY <1>d DEF Safe, TypeOK, UpdateDeviceStatus
<1>4. TypeOK'
  BY <1>1, <1>2, <1>3 DEF Safe, TypeOK
<1>5. KeyMatchesCertificate'
  BY <1>1, <1>2 DEF Safe, TypeOK, Request, KeyMatchesCertificate, Client
<1>6. CacheOnlyRegistered'
  BY <1>1, <1>2, <1>3 DEF Safe, CacheOnlyRegistered, Registered
<1>7. AcknowledgedIsFound'
  BY <1>1 DEF Safe, AcknowledgedIsFound
<1>8. KnownIsRegistered'
  BY <1>1, <1>2 DEF Safe, TypeOK, KnownIsRegistered, Registered
<1> QED
  BY <1>4, <1>5, <1>6, <1>7, <1>8 DEF Safe

\* The goroutines only deal with registered devices.
LEMMA WarmSafe ==
  ASSUME Safe, NEW g \in warm, WarmSets(g) \/ WarmReads(g) \/ WarmFails(g)
  PROVE  Safe'
<1>g. g \in Warmer /\ g.dev \in Device /\ Registered(g.dev) /\ row[g.dev].status \in Column
  BY DEF Safe, TypeOK, Warmer, CacheOnlyRegistered
<1>1. UNCHANGED <<now, row, lastSeen, pc, req, ans, seen, list, known, watch, left, events,
                  crashes>>
  BY DEF WarmSets, WarmReads, WarmFails
<1>2. warm' \in SUBSET Warmer /\ \A h \in warm' : h \in warm \/ h.dev = g.dev
  BY <1>g DEF Safe, TypeOK, WarmSets, WarmReads, WarmFails, WarmSet, Warmer
<1>3. /\ cache' \in [Device -> Column \cup {"none"}]
      /\ \A e \in Device : cache'[e] # "none" => cache[e] # "none" \/ e = g.dev
  BY <1>g DEF Safe, TypeOK, WarmSets, WarmReads, WarmFails, Warmer
<1>4. TypeOK'
  BY <1>1, <1>2, <1>3 DEF Safe, TypeOK
<1>5. \A e \in Device :
        cache'[e] # "none" \/ (\E h \in warm' : h.dev = e) => Registered(e)
  BY <1>2, <1>3, <1>g DEF Safe, CacheOnlyRegistered
<1> QED
  BY <1>1, <1>4, <1>5, Keeps DEF Safe

\* Expiry, the watchdog's own steps, telemetry, time and a crash.
LEMMA OtherSafe ==
  ASSUME Safe,
         \/ WatchTick \/ WatchUpdated \/ WatchEnds \/ Tick \/ Crash
         \/ \E d \in Device : \/ CacheExpires(d) \/ Seen(d) \/ KeyExpires(d)
                              \/ WatchKeyFails(d)
  PROVE  Safe'
<1>1. /\ UNCHANGED <<row, req, seen, list, known>> /\ warm' \subseteq warm
      /\ cache' \in [Device -> Column \cup {"none"}]
      /\ \A d \in Device : cache'[d] # "none" => cache[d] # "none"
  BY DEF Safe, TypeOK, WatchTick, WatchUpdated, WatchEnds, Tick, Crash, CacheExpires, Seen,
         KeyExpires, WatchKeyFails
<1>2. /\ pc' \in [Client -> {"idle", "exists", "insert", "cache", "row", "cert", "list",
                             "update", "done"}]
      /\ ans' \in [Client -> {"none", "invalid", "exists", "error", "created", "missing",
                              "found", "listed", "updated"}]
      /\ \A c \in Client : ans'[c] = ans[c] \/ ans'[c] = "error"
  BY DEF Safe, TypeOK, WatchTick, WatchUpdated, WatchEnds, Tick, Crash, CacheExpires, Seen,
         KeyExpires, WatchKeyFails
<1>3. /\ now' \in Nat /\ crashes' \in Nat /\ lastSeen' \in [Device -> Nat]
  BY DEF Safe, TypeOK, WatchTick, WatchUpdated, WatchEnds, Tick, Crash, CacheExpires, Seen,
         KeyExpires, WatchKeyFails
<1>4. /\ watch' \in {"idle", "key", "get", "update"}
      /\ left' \in SUBSET Device /\ events' \in SUBSET Device
  <2>1. Watchdog \in Client /\ req[Watchdog].dev \in Device
    BY DEF Safe, TypeOK, Request, Client
  <2> QED
    BY <2>1 DEF Safe, TypeOK, WatchTick, WatchUpdated, WatchEnds, Tick, Crash, CacheExpires,
         Seen, KeyExpires, WatchKeyFails, Remaining
<1>5. TypeOK'
  BY <1>1, <1>2, <1>3, <1>4 DEF Safe, TypeOK
<1>6. \A d \in Device :
        cache'[d] # "none" \/ (\E g \in warm' : g.dev = d) => Registered(d)
  BY <1>1 DEF Safe, CacheOnlyRegistered
<1> QED
  BY <1>1, <1>2, <1>5, <1>6, Keeps DEF Safe

\* The watchdog asks the device service, or goes on.
LEMMA WatchSafe == ASSUME Safe, WatchGot \/ \E d \in Device : WatchKey(d) PROVE Safe'
<1>w. Watchdog \in Client /\ req[Watchdog].dev \in Device
  BY DEF Safe, TypeOK, Request, Client
<1>1. /\ UNCHANGED <<now, row, cache, warm, lastSeen, events, crashes>>
      /\ left' \in SUBSET Device /\ watch' \in {"idle", "key", "get", "update"}
      /\ events' \in SUBSET Device
  BY DEF Safe, TypeOK, WatchGot, WatchKey, Remaining
<1>2. CASE UNCHANGED <<pc, req, ans, seen, list, known>>
  <2>1. TypeOK'
    BY <1>1, <1>2 DEF Safe, TypeOK
  <2> QED
    BY <2>1, <1>1, <1>2, Quiet DEF Safe
<1>3. ASSUME NEW op \in {"get", "update"}, NEW d \in Device, Begin(Watchdog, Ask(op, d))
      PROVE  Safe'
  <2>1. Ask(op, d) \in Request
    BY DEF Ask, Request, Operation, Enum, Silent
  <2> QED
    BY <1>3, <1>w, <1>1, <2>1, Begins
<1> QED
  BY <1>w, <1>2, <1>3 DEF WatchGot, WatchKey

LEMMA StutterSafe == ASSUME Safe, UNCHANGED vars PROVE Safe'
<1>1. TypeOK'
  BY DEF Safe, TypeOK, vars
<1> QED
  BY <1>1, Quiet DEF Safe, vars

-----------------------------------------------------------------------------
\* Safe is an invariant of the registry.
THEOREM SafeInvariant == Spec => []Safe
<1>1. ASSUME Safe, [Next]_vars PROVE Safe'
  <2>1. CASE UNCHANGED vars
    BY <1>1, <2>1, StutterSafe
  <2>2. ASSUME NEW c \in Client, Arrive(c) \/ Handler(c) \/ DbError(c) PROVE Safe'
    BY <1>1, <2>2, ArriveSafe, ReadOnlySafe, InsertSafe, GetSafe, GetMissingSafe, UpdateSafe
       DEF Handler, CreateStep, GetStep
  <2>3. CASE Warming
    BY <1>1, <2>3, WarmSafe DEF Warming
  <2>4. CASE Scanning \/ WatchTick
    BY <1>1, <2>4, WatchSafe, OtherSafe DEF Scanning
  <2>5. CASE Tick \/ Crash \/ \E d \in Device : CacheExpires(d) \/ Seen(d) \/ KeyExpires(d)
    BY <1>1, <2>5, OtherSafe
  <2> QED
    BY <1>1, <2>1, <2>2, <2>3, <2>4, <2>5 DEF Next
<1> QED
  BY <1>1, InitSafe, PTL DEF Spec

\* The variables keep their types.
THEOREM TypeCorrect == Spec => []TypeOK
<1>1. Safe => TypeOK
  BY DEF Safe
<1> QED
  BY <1>1, SafeInvariant, PTL

\* A private key that was handed out belongs to the stored certificate.
THEOREM KeyOwnership == Spec => []KeyMatchesCertificate
<1>1. Safe => KeyMatchesCertificate
  BY DEF Safe
<1> QED
  BY <1>1, SafeInvariant, PTL

\* The cache never knows a device that the table does not.
THEOREM CacheSoundness == Spec => []CacheOnlyRegistered
<1>1. Safe => CacheOnlyRegistered
  BY DEF Safe
<1> QED
  BY <1>1, SafeInvariant, PTL

\* An acknowledged device is never reported as missing.
THEOREM ReadYourCreate == Spec => []AcknowledgedIsFound
<1>1. Safe => AcknowledgedIsFound
  BY DEF Safe
<1> QED
  BY <1>1, SafeInvariant, PTL

-----------------------------------------------------------------------------
(* Where handlers can be. *)

LEMMA InitInStep == Init => InStep
BY DEF Init, InStep, InHandler, Client

\* A step of one client's call, or of none.
LEMMA OthersInStep ==
  ASSUME Safe, Safe', InStep, NEW c \in Client,
         \A d \in Device : Registered(d) => row'[d].cert # NoCall,
         \A e \in Client \ {c} : pc'[e] = pc[e] /\ ans'[e] = ans[e] /\ req'[e] = req[e],
         pc'[c] \notin {"idle", "done"} => ans'[c] = "none" /\ pc'[c] \in StatementsOf(req'[c].op),
         pc'[c] = "done" => ans'[c] # "none",
         pc'[c] = "cert" => row'[req'[c].dev].cert # NoCall,
         watch' \in {"idle", "key"} => pc'[Watchdog] \in {"idle", "done"}
  PROVE  InStep'
<1>1. ASSUME NEW e \in Client
      PROVE  /\ pc'[e] \notin {"idle", "done"} => ans'[e] = "none" /\ pc'[e] \in StatementsOf(req'[e].op)
             /\ pc'[e] = "done" => ans'[e] # "none"
             /\ pc'[e] = "cert" => row'[req'[e].dev].cert # NoCall
  <2>1. CASE e = c BY <2>1
  <2>2. CASE e # c
    <3>1. req[e].dev \in Device BY DEF Safe, TypeOK, Request
    <3> QED BY <2>2, <3>1 DEF InStep, InHandler, Registered
  <2> QED BY <2>1, <2>2
<1> QED BY <1>1 DEF InStep, InHandler, StatementsOf, Registered

\* Rows stay.
LEMMA RowsStay ==
  ASSUME Safe, [Next]_vars, NEW d \in Device, Registered(d)
  PROVE  row'[d].cert = row[d].cert /\ row'[d].cert # NoCall
<1>1. ASSUME NEW c \in Client, Arrive(c) \/ Handler(c) \/ DbError(c)
      PROVE  row'[d].cert = row[d].cert
  <2>1. req[c].dev \in Device BY DEF Safe, TypeOK, Request
  <2> QED
    BY <1>1, <2>1 DEF Safe, TypeOK, Arrive, DbError, Handler, CreateStep, GetStep, CreateExists,
       CreateCommit, CreateCommitLost, CreateClash, GetCached, GetMiss, GetRow, GetCert,
       GetMissing, ListDevices, UpdateDeviceStatus, Insert, Vacant, Registered
<1>2. ASSUME ~\E c \in Client : Arrive(c) \/ Handler(c) \/ DbError(c) PROVE row' = row
  BY <1>2 DEF Next, Warming, WarmSets, WarmReads, WarmFails, WatchTick, Scanning, WatchKey,
     WatchKeyFails, WatchGot, WatchUpdated, WatchEnds, CacheExpires, Seen, KeyExpires, Tick,
     Crash, vars
<1> QED BY <1>1, <1>2 DEF Registered

\* A client asks.
LEMMA BeginInStep ==
  ASSUME Safe, Safe', InStep, NEW c \in Client, NEW r \in Request, Begin(c, r), row' = row,
         c = Watchdog => watch' \notin {"idle", "key"},
         c # Watchdog => watch' = watch
  PROVE  InStep'
<1>1. /\ pc'[c] = FirstStep(r.op) /\ req'[c] = r /\ ans'[c] = "none"
      /\ \A e \in Client \ {c} : pc'[e] = pc[e] /\ ans'[e] = ans[e] /\ req'[e] = req[e]
  BY DEF Begin, Safe, TypeOK
<1>2. FirstStep(r.op) \in StatementsOf(r.op) /\ FirstStep(r.op) \notin {"done", "cert"}
  BY DEF FirstStep, StatementsOf, Request, Operation
<1>3. watch' \in {"idle", "key"} => pc'[Watchdog] \in {"idle", "done"}
  BY <1>1 DEF InStep, InHandler, Client
<1>4. \A d \in Device : Registered(d) => row'[d].cert # NoCall BY DEF Registered
<1> QED BY <1>1, <1>2, <1>3, <1>4, OthersInStep

LEMMA ArriveInStep ==
  ASSUME Safe, Safe', InStep, NEW c \in Client, Arrive(c) PROVE InStep'
<1>c. c # Watchdog BY RegistryAssumption DEF Arrive
<1>1. row' = row /\ watch' = watch BY DEF Arrive
<1>2. ASSUME NEW r \in Requests, Begin(c, r) PROVE InStep'
  BY <1>c, <1>1, <1>2, BeginInStep, RegistryAssumption
<1>3. ASSUME NEW r \in Requests, Answer(c, "invalid"), req' = [req EXCEPT ![c] = r]
      PROVE  InStep'
  <2>1. /\ pc'[c] = "done" /\ ans'[c] = "invalid"
        /\ \A e \in Client \ {c} : pc'[e] = pc[e] /\ ans'[e] = ans[e] /\ req'[e] = req[e]
    BY <1>3 DEF Answer, Safe, TypeOK
  <2>2. watch' \in {"idle", "key"} => pc'[Watchdog] \in {"idle", "done"}
    BY <1>c, <1>1, <2>1 DEF InStep, InHandler, Client
  <2>3. \A d \in Device : Registered(d) => row'[d].cert # NoCall BY <1>1 DEF Registered
  <2> QED BY <2>1, <2>2, <2>3, OthersInStep DEF InHandler
<1> QED BY <1>2, <1>3 DEF Arrive

\* A handler answers, or goes to its next statement.
LEMMA HandlerInStep ==
  ASSUME Safe, Safe', InStep, NEW c \in Client, Handler(c) \/ DbError(c),
         \A d \in Device : Registered(d) => row'[d].cert # NoCall
  PROVE  InStep'
<1> USE DEF Handler, CreateStep, GetStep, DbError, CreateExists, CreateCommit, CreateCommitLost,
            CreateClash, GetCached, GetMiss, GetRow, GetCert, GetMissing, ListDevices,
            UpdateDeviceStatus
<1>1. InHandler(c) /\ watch' = watch /\ req' = req BY DEF InHandler
<1>2. \A e \in Client \ {c} : pc'[e] = pc[e] /\ ans'[e] = ans[e] /\ req'[e] = req[e]
  BY DEF Answer, Safe, TypeOK
<1>3. \/ pc'[c] = "done" /\ ans'[c] # "none"
      \/ /\ ans'[c] = ans[c]
         /\ \/ pc[c] = "exists" /\ pc'[c] = "insert"
            \/ pc[c] = "cache" /\ pc'[c] = "row"
            \/ pc[c] = "row" /\ pc'[c] = "cert" /\ Registered(req[c].dev)
  BY DEF Answer, Safe, TypeOK
<1>4. req[c].dev \in Device BY DEF Safe, TypeOK, Request
<1>5. pc'[c] \notin {"idle", "done"} => ans'[c] = "none" /\ pc'[c] \in StatementsOf(req'[c].op)
  <2>1. pc[c] \in StatementsOf(req[c].op) /\ ans[c] = "none" BY <1>1 DEF InStep
  <2>2. pc'[c] # "done" => pc'[c] \in StatementsOf(req[c].op)
    <3> HIDE DEF Handler, CreateStep, GetStep, DbError, CreateExists, CreateCommit,
          CreateCommitLost, CreateClash, GetCached, GetMiss, GetRow, GetCert, GetMissing,
          ListDevices, UpdateDeviceStatus
    <3>1. req[c].op \in {"create", "get", "list", "update"}
      BY DEF Safe, TypeOK, Request, Operation
    <3> QED BY <1>3, <2>1, <3>1 DEF StatementsOf
  <2> QED BY <1>1, <1>3, <2>1, <2>2
<1>6. watch' \in {"idle", "key"} => pc'[Watchdog] \in {"idle", "done"}
  BY <1>1, <1>2 DEF InStep, InHandler, Client
<1> QED BY <1>1, <1>2, <1>3, <1>4, <1>5, <1>6, OthersInStep

\* Nothing of a call changes, and the watchdog does not leave one.
LEMMA SameInStep ==
  ASSUME Safe, InStep, UNCHANGED <<pc, req, ans, row>>,
         watch' \in {"idle", "key"} => watch \in {"idle", "key"} \/ pc[Watchdog] = "done"
  PROVE  InStep'
BY DEF InStep, InHandler, StatementsOf, Registered, Client

LEMMA WatchInStep ==
  ASSUME Safe, Safe', InStep, Scanning \/ WatchTick PROVE InStep'
<1>1. row' = row
  BY DEF Scanning, WatchTick, WatchKey, WatchKeyFails, WatchGot, WatchUpdated, WatchEnds
<1>2. ASSUME NEW op \in {"get", "update"}, NEW d \in Device, Begin(Watchdog, Ask(op, d)),
             watch' \in {"get", "update"}
      PROVE  InStep'
  <2>1. Ask(op, d) \in Request BY DEF Ask, Request, Operation, Enum, Silent
  <2> QED BY <1>1, <1>2, <2>1, BeginInStep DEF Client
<1>3. CASE /\ UNCHANGED <<pc, req, ans>>
           /\ watch' \in {"idle", "key"} => watch \in {"idle", "key"} \/ pc[Watchdog] = "done"
  BY <1>1, <1>3, SameInStep
<1>4. req[Watchdog].dev \in Device BY DEF Safe, TypeOK, Request, Client
<1>5. CASE \E d \in Device : WatchKey(d) BY <1>2, <1>3, <1>5 DEF WatchKey
<1>6. CASE WatchGot BY <1>2, <1>3, <1>4, <1>6 DEF WatchGot
<1>7. CASE WatchTick \/ WatchUpdated \/ WatchEnds \/ \E d \in Device : WatchKeyFails(d)
  BY <1>3, <1>7 DEF WatchTick, WatchUpdated, WatchEnds, WatchKeyFails
<1> QED BY <1>5, <1>6, <1>7 DEF Scanning

LEMMA OtherInStep ==
  ASSUME Safe, InStep,
         \/ Warming \/ Tick \/ Crash \/ UNCHANGED vars
         \/ \E d \in Device : CacheExpires(d) \/ Seen(d) \/ KeyExpires(d)
  PROVE  InStep'
<1>1. CASE Crash
  <2>1. row' = row /\ watch' = watch /\ req' = req BY <1>1 DEF Crash
  <2>2. ASSUME NEW c \in Client
        PROVE  pc'[c] \in {"idle", "done"} /\ (pc'[c] = "done" => ans'[c] # "none") /\ pc'[c] # "cert"
    BY <1>1, <2>2 DEF Crash, InHandler, InStep
  <2> QED BY <2>1, <2>2 DEF InStep, InHandler, Client
<1>2. CASE ~Crash
  BY <1>2, SameInStep DEF Warming, WarmSets, WarmReads, WarmFails, Tick, CacheExpires, Seen,
     KeyExpires, vars
<1> QED BY <1>1, <1>2

LEMMA NextInStep == ASSUME Safe, Safe', InStep, [Next]_vars PROVE InStep'
<1>1. \A d \in Device : Registered(d) => row'[d].cert # NoCall BY RowsStay
<1> QED BY <1>1, ArriveInStep, HandlerInStep, WatchInStep, OtherInStep DEF Next

\* A call is always at a statement of its own handler and has no answer until it
\* ends, and the watchdog between two of its calls has none open: this is what
\* Linearization reads the stage of a call from.
THEOREM InStepInvariant == Spec => []InStep
<1>1. Safe /\ Safe' /\ InStep /\ [Next]_vars => InStep' BY NextInStep
<1> QED BY <1>1, InitInStep, SafeInvariant, PTL DEF Spec

-----------------------------------------------------------------------------
(* The registry implements the directory. *)

\* Rows change nothing of owners, requests nothing of questions, ...
LEMMA SameOwners ==
  ASSUME \A d \in Device : row'[d].cert = row[d].cert
  PROVE  [d \in Device |-> row[d].cert]' = [d \in Device |-> row[d].cert]
OBVIOUS

LEMMA SameQuestions ==
  ASSUME req' = req
  PROVE  [c \in Client |-> [op |-> req[c].op, dev |-> req[c].dev]]'
           = [c \in Client |-> [op |-> req[c].op, dev |-> req[c].dev]]
OBVIOUS

LEMMA SameAnswers ==
  ASSUME \A c \in Client : AnswerOf(c)' = AnswerOf(c)
  PROVE  [c \in Client |-> AnswerOf(c)]' = [c \in Client |-> AnswerOf(c)]
OBVIOUS

\* ... and an answer is told to its client alone.
LEMMA OneAnswer ==
  ASSUME Safe, NEW c \in Client, NEW a, a # "none", Answer(c, a)
  PROVE  [e \in Client |-> AnswerOf(e)]' = [[e \in Client |-> AnswerOf(e)] EXCEPT ![c] = a]
<1>1. AnswerOf(c)' = a BY DEF Answer, AnswerOf, Safe, TypeOK
<1>2. \A e \in Client : e # c => AnswerOf(e)' = AnswerOf(e)
  BY DEF Answer, AnswerOf, Safe, TypeOK
<1> HIDE DEF AnswerOf
<1> QED BY <1>1, <1>2

LEMMA OneFailure ==
  ASSUME Safe, InStep, NEW c \in Client, InHandler(c), Answer(c, "error"),
         UNCHANGED <<row, req, list>>
  PROVE  Directory!Next
<1>1. AnswerOf(c) = "open" BY DEF AnswerOf, InStep, InHandler
<1>2. [e \in Client |-> AnswerOf(e)]'
        = [e \in Client |-> IF e \in {c} THEN "error" ELSE AnswerOf(e)]
  BY OneAnswer
<1>3. Directory!Fail({c})
  BY <1>1, <1>2, SameOwners, SameQuestions DEF Directory!Fail
<1> QED BY <1>3 DEF Directory!Next

\* A client asks, or its request is refused for what it lacks.
LEMMA DirectoryAsk ==
  ASSUME Safe, InStep, NEW c \in Client, ~InHandler(c), NEW r \in Request,
         req' = [req EXCEPT ![c] = r], UNCHANGED <<row, list>>,
         AnswerOf(c)' \in {"open", "invalid"},
         \A e \in Client : e # c => AnswerOf(e)' = AnswerOf(e)
  PROVE  Directory!Next
<1>1. AnswerOf(c) # "open" BY DEF AnswerOf, InStep, InHandler, Safe, TypeOK
<1> HIDE DEF AnswerOf
<1>2. [e \in Client |-> AnswerOf(e)]'
        = [[e \in Client |-> AnswerOf(e)] EXCEPT ![c] = AnswerOf(c)']
  OBVIOUS
<1>3. PICK q \in Directory!Question : q = [op |-> r.op, dev |-> r.dev]
  BY DEF Directory!Question, Request, Operation
<1>4. [e \in Client |-> [op |-> req[e].op, dev |-> req[e].dev]]'
        = [[e \in Client |-> [op |-> req[e].op, dev |-> req[e].dev]] EXCEPT ![c] = q]
  BY <1>3 DEF Safe, TypeOK
<1>5. Directory!Ask(c)
  BY <1>1, <1>2, <1>4, SameOwners DEF Directory!Ask
<1> QED BY <1>5 DEF Directory!Next

LEMMA BeginAnswers ==
  ASSUME Safe, NEW c \in Client, NEW r \in Request, Begin(c, r)
  PROVE  AnswerOf(c)' = "open" /\ \A e \in Client : e # c => AnswerOf(e)' = AnswerOf(e)
<1>1. FirstStep(r.op) # "idle" BY FirstSteps DEF Request
<1> QED BY <1>1 DEF Begin, AnswerOf, Safe, TypeOK

\* CreateDevice enters the device at its commit, whether or not it says so.
LEMMA DirectoryEnter ==
  ASSUME Safe, InStep, NEW c \in Client, CreateCommit(c) \/ CreateCommitLost(c)
  PROVE  Directory!Next
<1> DEFINE d == req[c].dev
<1>d. d \in Device BY DEF Safe, TypeOK, Request
<1>1. /\ InHandler(c) /\ pc[c] = "insert" /\ ~Registered(d) /\ UNCHANGED <<req, list>>
      /\ Insert(c) /\ (Answer(c, "created") \/ Answer(c, "error"))
  BY DEF CreateCommit, CreateCommitLost, Vacant, InHandler
<1>2. AnswerOf(c) = "open" /\ req[c].op = "create"
  <2>1. pc[c] \in StatementsOf(req[c].op) /\ ans[c] = "none" BY <1>1 DEF InStep
  <2>2. req[c].op \in {"create", "get", "list", "update"}
    BY DEF Safe, TypeOK, Request, Operation
  <2> QED BY <1>1, <2>1, <2>2 DEF StatementsOf, AnswerOf
<1>3. [e \in Device |-> row[e].cert]' = [[e \in Device |-> row[e].cert] EXCEPT ![d] = c]
  BY <1>1, <1>d DEF Insert, Safe, TypeOK
<1>4. PICK a \in {"created", "error"} :
        [e \in Client |-> AnswerOf(e)]' = [[e \in Client |-> AnswerOf(e)] EXCEPT ![c] = a]
  BY <1>1, OneAnswer
<1>5. [e \in Client |-> [op |-> req[e].op, dev |-> req[e].dev]][c] = [op |-> "create", dev |-> d]
  BY <1>2
<1>6. Directory!Enter(c)
  BY <1>d, <1>1, <1>2, <1>3, <1>4, <1>5, SameQuestions
     DEF Directory!Enter, Directory!Open, Directory!Entered, Directory!Tell, Registered
<1> QED BY <1>6 DEF Directory!Next

\* An answer about a device that is there, or is not.
LEMMA DirectoryTells ==
  ASSUME Safe, InStep, NEW c \in Client, NEW a,
         InHandler(c), Answer(c, a), UNCHANGED <<req, list>>,
         \A d \in Device : row'[d].cert = row[d].cert,
         \/ pc[c] = "exists" /\ a = "exists" /\ Registered(req[c].dev)
         \/ pc[c] \in {"cache", "cert"} /\ a = "found" /\ Registered(req[c].dev)
         \/ pc[c] = "update" /\ a = "updated" /\ Registered(req[c].dev)
         \/ pc[c] = "row" /\ a = "missing" /\ ~Registered(req[c].dev)
  PROVE  Directory!Next
<1> DEFINE d == req[c].dev
<1>d. d \in Device BY DEF Safe, TypeOK, Request
<1>1. pc[c] \in StatementsOf(req[c].op) /\ AnswerOf(c) = "open"
  BY DEF InStep, AnswerOf, InHandler
<1>2. req[c].op \in {"create", "get", "list", "update"}
  BY DEF Safe, TypeOK, Request, Operation
<1>3. [e \in Client |-> AnswerOf(e)]' = [[e \in Client |-> AnswerOf(e)] EXCEPT ![c] = a]
  BY OneAnswer
<1>4. [e \in Client |-> [op |-> req[e].op, dev |-> req[e].dev]][c]
        = [op |-> req[c].op, dev |-> d]
  OBVIOUS
<1>5. [e \in Device |-> row[e].cert][d] # NoCall <=> Registered(d) BY <1>d DEF Registered
<1> USE SameOwners, SameQuestions
        DEF Directory!Affirm, Directory!Deny, Directory!Open, Directory!Tell, Directory!Entered
<1> HIDE DEF d, AnswerOf, InHandler
<1>6. CASE pc[c] = "exists" /\ a = "exists" /\ Registered(d)
  <2>1. req[c].op = "create" BY <1>1, <1>2, <1>6 DEF StatementsOf
  <2>2. Directory!Affirm(c) BY <1>1, <1>3, <1>4, <1>5, <1>6, <2>1
  <2> QED BY <2>2 DEF Directory!Next
<1>7. CASE pc[c] \in {"cache", "cert"} /\ a = "found" /\ Registered(d)
  <2>1. req[c].op = "get" BY <1>1, <1>2, <1>7 DEF StatementsOf
  <2>2. Directory!Affirm(c) BY <1>1, <1>3, <1>4, <1>5, <1>7, <2>1
  <2> QED BY <2>2 DEF Directory!Next
<1>8. CASE pc[c] = "update" /\ a = "updated" /\ Registered(d)
  <2>1. req[c].op = "update" BY <1>1, <1>2, <1>8 DEF StatementsOf
  <2>2. Directory!Affirm(c) BY <1>1, <1>3, <1>4, <1>5, <1>8, <2>1
  <2> QED BY <2>2 DEF Directory!Next
<1>9. CASE pc[c] = "row" /\ a = "missing" /\ ~Registered(d)
  <2>1. req[c].op = "get" BY <1>1, <1>2, <1>9 DEF StatementsOf
  <2>2. Directory!Deny(c) BY <1>1, <1>3, <1>4, <1>5, <1>9, <2>1
  <2> QED BY <2>2 DEF Directory!Next
<1> QED BY <1>6, <1>7, <1>8, <1>9 DEF d

LEMMA DirectoryList ==
  ASSUME Safe, InStep, NEW c \in Client, ListDevices(c), Answer(c, "listed"),
         list' = [list EXCEPT ![c] = {d \in Device :
                    Registered(d) /\ row[d].status = AsText(req[c].arg)}]
  PROVE  Directory!Next
<1> DEFINE L == {d \in Device : Registered(d) /\ row[d].status = AsText(req[c].arg)}
<1>1. pc[c] = "list" /\ UNCHANGED <<row, req>> BY DEF ListDevices
<1>2. AnswerOf(c) = "open" /\ req[c].op = "list"
  <2>1. pc[c] \in StatementsOf(req[c].op) /\ ans[c] = "none" BY <1>1 DEF InStep, InHandler
  <2>2. req[c].op \in {"create", "get", "list", "update"}
    BY DEF Safe, TypeOK, Request, Operation
  <2> QED BY <1>1, <2>1, <2>2 DEF StatementsOf, AnswerOf
<1>3. [e \in Client |-> AnswerOf(e)]' = [[e \in Client |-> AnswerOf(e)] EXCEPT ![c] = "listed"]
  BY OneAnswer
<1>4. L \in SUBSET {d \in Device : [e \in Device |-> row[e].cert][d] # NoCall}
  BY DEF Registered
<1>5. [e \in Client |-> [op |-> req[e].op, dev |-> req[e].dev]][c].op = "list" BY <1>2
<1> HIDE DEF L
<1>6. list' = [list EXCEPT ![c] = L] BY DEF L
<1>7. Directory!List(c)
  BY <1>1, <1>2, <1>3, <1>4, <1>5, <1>6, SameOwners, SameQuestions
     DEF Directory!List, Directory!Open, Directory!Tell, Directory!Entered
<1> QED BY <1>7 DEF Directory!Next

\* Every step of a handler is an answer, an entry, or its client's own affair.
LEMMA DirectoryHandler ==
  ASSUME Safe, InStep, NEW c \in Client, Handler(c) \/ DbError(c),
         \A d \in Device : Registered(d) => row'[d].cert = row[d].cert
  PROVE  Directory!Next \/ UNCHANGED Directory!directoryVars
<1> DEFINE d == req[c].dev
<1>d. d \in Device BY DEF Safe, TypeOK, Request
<1>1. CASE DbError(c)
  BY <1>1, OneFailure DEF DbError, InHandler
<1>2. CASE CreateExists(c)
  <2>1. CASE Registered(d)
    BY <1>2, <2>1, DirectoryTells DEF CreateExists, InHandler
  <2>2. CASE ~Registered(d)
    <3>1. UNCHANGED <<row, req, list>> /\ \A e \in Client : AnswerOf(e)' = AnswerOf(e)
      BY <1>2, <2>2 DEF CreateExists, AnswerOf, Safe, TypeOK
    <3> QED BY <3>1, SameOwners, SameQuestions, SameAnswers DEF Directory!directoryVars
  <2> QED BY <2>1, <2>2
<1>3. CASE CreateCommit(c) \/ CreateCommitLost(c) BY <1>3, DirectoryEnter
<1>4. CASE CreateClash(c) BY <1>4, OneFailure DEF CreateClash, InHandler
<1>5. CASE GetCached(c)
  <2>1. Registered(d) BY <1>5, <1>d DEF GetCached, Safe, CacheOnlyRegistered
  <2> QED BY <1>5, <2>1, DirectoryTells DEF GetCached, InHandler
<1>6. CASE GetMiss(c) \/ GetRow(c)
  <2>1. UNCHANGED <<row, req, list>> /\ \A e \in Client : AnswerOf(e)' = AnswerOf(e)
    BY <1>6 DEF GetMiss, GetRow, AnswerOf, Safe, TypeOK
  <2> QED BY <2>1, SameOwners, SameQuestions, SameAnswers DEF Directory!directoryVars
<1>7. CASE GetCert(c)
  <2>1. Registered(d) BY <1>7 DEF GetCert, InStep
  <2> QED BY <1>7, <2>1, DirectoryTells DEF GetCert, InHandler
<1>8. CASE GetMissing(c) BY <1>8, DirectoryTells DEF GetMissing, InHandler
<1>9. CASE ListDevices(c)
  BY <1>9, DirectoryList, OneFailure DEF ListDevices, InHandler
<1>10. CASE UpdateDeviceStatus(c)
  <2>1. \A e \in Device : row'[e].cert = row[e].cert
    BY <1>10, <1>d DEF UpdateDeviceStatus, Safe, TypeOK
  <2>2. CASE Registered(d) /\ AsText(req[c].arg) \in Column
    BY <1>10, <2>1, <2>2, DirectoryTells DEF UpdateDeviceStatus, InHandler
  <2>3. CASE ~(Registered(d) /\ AsText(req[c].arg) \in Column)
    BY <1>10, <2>3, OneFailure DEF UpdateDeviceStatus, InHandler
  <2> QED BY <2>2, <2>3
<1> QED
  BY <1>1, <1>2, <1>3, <1>4, <1>5, <1>6, <1>7, <1>8, <1>9, <1>10 DEF Handler, CreateStep, GetStep

LEMMA DirectoryArrive ==
  ASSUME Safe, InStep, NEW c \in Client, Arrive(c)
  PROVE  Directory!Next
<1>1. UNCHANGED <<row, list>> /\ ~InHandler(c) BY DEF Arrive, Begin, InHandler
<1>2. PICK r \in Request :
        /\ req' = [req EXCEPT ![c] = r]
        /\ Begin(c, r) \/ Answer(c, "invalid")
  BY RegistryAssumption DEF Arrive, Begin
<1>3. CASE Begin(c, r) BY <1>1, <1>2, <1>3, BeginAnswers, DirectoryAsk
<1>4. CASE Answer(c, "invalid")
  <2>1. AnswerOf(c)' = "invalid" /\ \A e \in Client : e # c => AnswerOf(e)' = AnswerOf(e)
    BY <1>4 DEF Answer, AnswerOf, Safe, TypeOK
  <2> QED BY <1>1, <1>2, <2>1, DirectoryAsk
<1> QED BY <1>2, <1>3, <1>4

\* The watchdog is a client like others; the rest is behind the directory.
LEMMA DirectoryWatch ==
  ASSUME Safe, InStep, WatchGot \/ \E d \in Device : WatchKey(d)
  PROVE  Directory!Next \/ UNCHANGED Directory!directoryVars
<1>1. row' = row /\ Watchdog \in Client /\ req[Watchdog].dev \in Device
  BY DEF WatchGot, WatchKey, Client, Safe, TypeOK, Request
<1>2. ~InHandler(Watchdog) BY DEF WatchGot, WatchKey, InStep, InHandler
<1>3. CASE UNCHANGED <<pc, req, ans, list>>
  <2>1. \A e \in Client : AnswerOf(e)' = AnswerOf(e) BY <1>3 DEF AnswerOf
  <2> QED BY <1>1, <1>3, <2>1, SameOwners, SameQuestions, SameAnswers DEF Directory!directoryVars
<1>4. ASSUME NEW op \in {"get", "update"}, NEW d \in Device, Begin(Watchdog, Ask(op, d))
      PROVE  Directory!Next
  <2>1. Ask(op, d) \in Request BY DEF Ask, Request, Operation, Enum, Silent
  <2> QED BY <1>1, <1>2, <1>4, <2>1, BeginAnswers, DirectoryAsk DEF Begin
<1> QED BY <1>1, <1>3, <1>4 DEF WatchGot, WatchKey

LEMMA DirectoryOther ==
  ASSUME Safe, InStep,
         \/ Warming \/ WatchTick \/ WatchUpdated \/ WatchEnds \/ Tick \/ UNCHANGED vars
         \/ \E d \in Device : \/ CacheExpires(d) \/ Seen(d) \/ KeyExpires(d)
                              \/ WatchKeyFails(d)
  PROVE  UNCHANGED Directory!directoryVars
<1>1. UNCHANGED <<row, pc, req, ans, list>>
  BY DEF Warming, WarmSets, WarmReads, WarmFails, WatchTick, WatchUpdated, WatchEnds, Tick,
         CacheExpires, Seen, KeyExpires, WatchKeyFails, vars
<1>2. \A e \in Client : AnswerOf(e)' = AnswerOf(e) BY <1>1 DEF AnswerOf
<1> QED BY <1>1, <1>2, SameOwners, SameQuestions, SameAnswers DEF Directory!directoryVars

\* A restart fails every call that is in its handler.
LEMMA DirectoryCrash == ASSUME Safe, InStep, Crash PROVE Directory!Next
<1> DEFINE C == {c \in Client : InHandler(c)}
<1>1. \A c \in C : AnswerOf(c) = "open" BY DEF InStep, InHandler, AnswerOf
<1>2. \A c \in Client : AnswerOf(c)' = IF c \in C THEN "error" ELSE AnswerOf(c)
  BY DEF Crash, AnswerOf, InHandler
<1>3. UNCHANGED <<row, req, list>> BY DEF Crash
<1> HIDE DEF C, AnswerOf
<1>4. C \in SUBSET Client BY DEF C
<1>5. [c \in Client |-> AnswerOf(c)]'
        = [c \in Client |-> IF c \in C THEN "error" ELSE [e \in Client |-> AnswerOf(e)][c]]
  BY <1>2
<1>6. Directory!Fail(C)
  BY <1>1, <1>3, <1>4, <1>5, SameOwners, SameQuestions DEF Directory!Fail
<1> QED BY <1>4, <1>6 DEF Directory!Next

LEMMA DirectoryStep ==
  ASSUME Safe, InStep, [Next]_vars
  PROVE  [Directory!Next]_(Directory!directoryVars)
<1>1. \A d \in Device : Registered(d) => row'[d].cert = row[d].cert BY RowsStay
<1> QED
  BY <1>1, DirectoryHandler, DirectoryArrive, DirectoryWatch, DirectoryOther, DirectoryCrash
     DEF Next, Scanning

LEMMA DirectoryInit == Init => Directory!Init
<1> SUFFICES ASSUME Init PROVE Directory!Init OBVIOUS
<1>1. [d \in Device |-> row[d].cert] = [d \in Device |-> NoCall] BY DEF Init
<1>2. req \in [Client -> Request] BY InitSafe DEF Safe, TypeOK
<1>3. [c \in Client |-> [op |-> req[c].op, dev |-> req[c].dev]] \in [Client -> Directory!Question]
  BY <1>2 DEF Directory!Question, Request, Operation
<1>4. [c \in Client |-> AnswerOf(c)] = [c \in Client |-> "idle"] BY DEF Init, AnswerOf
<1> QED BY <1>1, <1>3, <1>4 DEF Init, Directory!Init

\* The registry implements the directory: whatever races, cache fills, lost
\* commits and crashes there are, every call is one instant.
THEOREM Linearization == Spec => ImplementsDirectory
<1>1. Safe /\ InStep /\ [Next]_vars => [Directory!Next]_(Directory!directoryVars)
  BY DirectoryStep
<1>2. Spec => [][Next]_vars BY PTL DEF Spec
<1>3. Spec => Directory!Init BY DirectoryInit DEF Spec
<1> QED
  BY <1>1, <1>2, <1>3, SafeInvariant, InStepInvariant, PTL
     DEF ImplementsDirectory, Directory!Spec
=============================================================================
