# FieldPulse in TLA+

FieldPulse collects readings of field devices, stores them in TimescaleDB, raises alerts and keeps a
registry of devices. Paths below are relative to the repository. This directory models the parts
of it that have state, concurrency or failures of their own. TLC checks the models on small instances.
TLAPS proves their safety properties for every value of the constants, and three refinements: ingest
implements a log, the device service a directory, the connector's buffer a queue.

## 1. Inventory

| Component | Source | State | Operations | Talks to |
|---|---|---|---|---|
| Telemetry ingest | `internal/services/telemetry_service.go`, `internal/db/telemetry_db.go`, `internal/cache/telemetry_cache.go`, `internal/mqtt/telemetry_ingest.go`, `cmd/telemetry-service/main.go` | `writeCh`, one worker, dedup and `last_seen` keys in Redis, table `metrics` | SubmitMetric, SubmitBatch, the MQTT callback, the worker, the work after an insert, shutdown | Redis, TimescaleDB, evaluator |
| Telemetry queries | the first three files above | table `metrics`, query cache in Redis | QueryMetrics (stream), GetMetricStats, GetAggregations, retention | TimescaleDB, Redis |
| Connector | `cmd/connector/main.go` | per broker: MQTT client, channel, counters | callback and `enqueue`, `processLoop`, `forward`, start and stop | remote brokers, SubmitMetric |
| Device service | `internal/services/device_service.go`, `internal/db/device_db.go`, `internal/cache/device_cache.go` | tables `devices` and `certificates`, cache `device:{id}` | CreateDevice, GetDevice, ListDevices, UpdateDeviceStatus, cache-filling goroutines | PostgreSQL, Redis |
| Silent watchdog | `internal/services/silent_watchdog.go` | ticker, keys `last_seen:{id}` | scan, GetDevice and UpdateDeviceStatus per idle device | Redis, device service |
| Alert evaluator | `internal/services/alert_evaluator.go`, `internal/mqtt/alert_publisher.go` | `lastValues`, key `alert:{device}`, table `alerts` | one goroutine per stored point | PostgreSQL, Redis, MQTT |
| Alert service | `internal/services/alert_service.go`, `internal/db/alert_db.go`, `cmd/alert-service/main.go` | tables `alert_thresholds`, `silence_rules`, `alerts` | ten RPCs: thresholds, active alerts, history (stream), silences, statistics; start and graceful stop | PostgreSQL, Redis |
| API gateway | `cmd/api-gateway/main.go` | none but the calls it waits for | one gRPC call with a deadline per HTTP request | all services |
| Simulator | `cmd/simulator/main.go` | per worker: the reading, its publish, its sleep | publish, repeat, sleep, stop | MQTT broker |
| Protocol code | `api/proto` | messages, enums | client calls and handlers of the alert service | gateway, services |
| Certificates, tracing | `internal/certs`, `internal/otel` | none that others read | | |

How the parts meet: the simulator publishes to the broker, the MQTT subscriber of the telemetry service and
the connector call SubmitMetric, operators reach the services through the gateway. The ingest worker calls
the evaluator for every stored point and writes `last_seen`, which the watchdog scans. The evaluator
reads the tables that the alert service writes and shares the key `alert:{device}` with it.

What is hard here, and what makes each part correct:

* **Ingest.** A dedup key is taken before the point is queued. The channel is bounded. The client may leave
  while its job is queued or being inserted. The database may commit and lose its answer. Correct means: a
  second of a device is written once, success means stored, a refusal means not stored, and every
  stored point is evaluated.
* **Connector.** `enqueue` is three separate `select`s while `processLoop` takes readings out. Correct
  means: the channel holds exactly the freshest readings, every reading is counted once, and stop
  ends.
* **Device registry.** Creations race between DeviceExists and the insert, and the cache is filled by
  goroutines that run late. Correct means: whoever was given a private key owns the stored certificate,
  and an acknowledged device is found.
* **Alerts.** Check, insert, publish and set are four steps, and rules change meanwhile. Correct means:
  silences and the quiet period hold, and what is published is on record.
* **Feed.** Connections break between a publish and its acknowledgement, the session is clean, `main` waits
  for the broker twice at its start, timestamps are cut to seconds. Correct means: a reading is lost only
  in a gap of the subscription or by a failed submit, a copy is recognised, and the subscription comes back.
* **Operators' requests.** A handler goes on after its caller was told 500, one request is several statements
  outside a transaction, alerts are stored out of order and dropped meanwhile. Correct means: what was
  acknowledged is listed, what was deleted stays away, pages and counts miss nothing, everybody is
  answered, and a graceful stop ends.
* **Queries.** OFFSET pages over a table that grows and shrinks, points and their count in two statements.
  Correct means: a reader that follows `has_more` misses nothing.

`PROJECT.json` lists all hazards at their lines with the properties that would catch them.

## 2. Modules

A specification `X` with its properties comes with `MCX` (values for TLC) and `XProofs` (theorems).
`MetricLog`, `DeviceDirectory` and `FreshestQueue` are abstract specifications and `GatewayRoutes` is a library of
pure operators; all four are checked and proved about through the modules that use them. `PROJECT.json` maps every definition to its lines.

| Module | Models | Main abstractions |
|---|---|---|
| `TelemetryIngest` | RPC handlers, queue, worker, Redis keys, insert, work after it, crash and graceful stop | a point has no value; a row is told apart by the request that wrote it; time in ticks, a dedup key per second |
| `Connector` | all broker workers and `main` | a reading is its number of arrival; tags and status are carried along unchanged and left out |
| `DeviceRegistry` | the device service and the watchdog, composed: the watchdog is one more client of the RPCs | of a device's columns only the status changes; a certificate is named by the call that made it |
| `AlertEvaluation` | evaluator goroutines and the alert service, composed over the tables and the Redis key | severity, texts and ids are left out; values are small integers |
| `MetricLog` | what ingest promises: a log of (device, second) entries and a verdict per request | no queue, no Redis, no processes |
| `DeviceDirectory` | what the device service promises: devices are entered once, every call takes effect at one instant | no cache, no statements, no certificates |
| `FreshestQueue` | what a worker's buffer promises: a bounded queue whose oldest entry gives way to the newest | entries are numbers, the waiting ones an interval |
| `TelemetryFeed` | simulator, broker, MQTT subscriber and the start, stop and restart of the telemetry service, composed | a reading is its device, number and second; SubmitMetric is its effect on keys, rows and evaluations |
| `GatewayRoutes` | the gateway as a translation: routes, 400s, enum and integer conversions, the message of each call, the status of each answer | texts that are only carried along are left out |
| `AlertConsole` | callers, gateway, generated stubs and the alert service, composed, statement by statement | SQL tables are sets of rows; ids are numbers; the other services answer as they like |
| `MetricQueries` | the read side with a reader that pages, stores and retention | one series; the primary key makes a row its time |

**TelemetryIngest.** `Arrive`, then one step per item (`Skip`, `RejectItem`, `DuplicateItem`, `MarkItem`,
`BypassItem`) is the loop of the handlers. `Enqueue`, `EnqueueFull` and `EnqueueCanceled` are the send
`select`, in which both ready cases may be chosen. `AwaitDone` and `AwaitCtx` are the second `select`. `WorkerTake`,
`WorkerStored`, `WorkerFailed` and `WorkerEffect` are `runMetricWriteWorker`; `PostInvalidate` and
`PostMark` are the goroutine of `postMetricWrite`. An insert may commit although its answer is lost
(`Commit` with `WorkerFailed`). `Wedged` is the SCAN loop after a batch on a keyspace of several pages; `Resize`
changes the number of pages. A single point uses `ON CONFLICT DO NOTHING`, a batch uses COPY, which aborts as
a whole on a clash or an unknown device. `lapsed` records dedup keys that expired or that a Redis error bypassed.

**Connector.** `Receive`, `EnqueueSend`, `EnqueueEvict`, `EnqueueResend` are the callback;
`LoopTake`, `LoopExit`, `ForwardReject`, `ForwardSubmit`, `RpcSucceeds`, `RpcFails` are `processLoop`;
`Started`, `StartFails`, `AllStarted`, `Signal`, `StopCancel`, `StopWait`, `Stopped` are `main`. `Capacity`
includes what `loadConfig` makes of a buffer size that is not positive.

**DeviceRegistry.** A handler is a chain of statements (`CreateExists`, `CreateCommit`, ...), each of which
may fail (`DbError`, `CreateCommitLost`). `WarmSets`, `WarmReads`, `WarmFails` are the goroutines that fill
the cache. The three conversions of a status are operators of their own (`AsText`, `ByName`,
`ByColumn`), because they do not agree with each other.

**AlertEvaluation.** An evaluation goes through `ReadThresholds`, `ReadRules`, and for each threshold
`Compare`, `StoreLast`, then `RecordSilenced`, or `Skip`, or `Pass`/`PassBlindly`, `InsertAlert`,
`BrokerTakes`, `PublishAlert`, `SetKey`. The broker takes an alert and the client learns of it later; `LinkDown`
between the two makes the client send it again (`unacked`). `ContextEnds` is the evaluation's five-second limit. `SilenceStore` and `SilenceCache` are the two
steps of SilenceAlert.

**MetricLog** and the refinement. `TelemetryIngest!ImplementsLog` maps the table to `log`, the answers to
`verdict` (an invalid or duplicate point, a full queue and a context done before the send are *refused*, an error after the job was queued is *failed*) and
`lapsed` to `excused`. Every step of ingest is then one of `Write`, `Confirm`, `Refuse`, `Fail`, `Excuse` or a stutter:
the insert is the only step that writes, and the answer comes later and must agree with it.

**DeviceDirectory** and its refinement. `DeviceRegistry!ImplementsDirectory` maps the certificate of a row to `owner`,
the message of a call to `asked` and its answer to `told`. The commit of a creation is `Enter`, also when its answer
is lost. A refusal (by DeviceExists or by the UNIQUE constraint) and a find (in the cache or in the table) are `Affirm`,
a miss is `Deny`. The late goroutines, expiries and the scan are stutters. A crash is `Fail` for all open calls at once.

**FreshestQueue** and its refinement. `Connector!ImplementsQueue` lets an arrival into the abstract queue at the
*second* select (`EnqueueEvict` is `Replace`, or `LetIn` if `processLoop` emptied the channel meanwhile), so
that the third select is a stutter. What was taken is `fwd + failed` and what is at `forward`.

**TelemetryFeed.** `Publish`, `Take`, `Published`, `Wake`, `Leave` are a worker (`run` and `publishOne`),
`CloseStop` and `RunAgain` are `main`. A worker publishes a reading and, for some, a second copy; both carry the
same timestamp. `Boot`, `PublisherConnects`, `SubscriberStarts`, `StopSubscriber`, `Exit` are the telemetry service's
`main`; `Reconnect` is the client's reconnection, `Subscribe` and `SubscribeFails` are its `OnConnect` handler.
`HandleMessage`, `Duplicate`, `Mark`, `MarkBlind`, `Store`, `SubmitFails` are the callback. `Foreign`
messages under the subscribed topics meet the checks of topic and payload. Two consequences of the code are worth
knowing: the publish error path of the simulator is unreachable while the client reconnects by itself, and a worker
sleeps before it looks at `stopCh`, so a run that is stopped and started again never uses a (device, second) twice.
Device ids of the simulator that are not registered are answered with an error (`Registered`).

**AlertConsole.** `AskHttp`, `AnswerLocally` and `AskGrpc` begin a request; `Deliver`, `Return`, `Expire` and
`Unavailable` are the call. `pc` is where the caller is and `sv` where the handler is: after `Expire` the
handler goes on alone. Each RPC is its validation (`Refuse`), its statements (`CreateThreshold`,
`CountActive` then `ListActive`, `ReadHistory` then `SendAlert` until `EndStream`, `SilenceDevice` then
`CacheSilence`, `CountTotal` then `CountUnresolved` then `CountBySeverity`, ...) and the errors PostgreSQL makes of
its constraints (`CreateViolates`, `SilenceViolates`, `BadPage`). A committed change may lose its answer
(`Committed`). Counts are cut to an int32 (`Int32`), and `wide` remembers that one did not fit. `SendAlert` is
owed by nobody, because it waits for a caller that reads. `Fire` and `DropAlerts` are the evaluator's insert and the retention policy.

**MetricQueries.** `Ask` is QueryMetrics up to its first statement, `ReadPoints` and `CountPoints` are its two
statements, `Send` is one message of the stream. `FirstPage`, `NextPage` and `Retry` are a client that uses
`offset` and `has_more` as `api/proto/telemetry.proto` describes them (external). `int32` sums
wrap as in Go.

## 3. Runs

Passing runs:

| Run | Checks | Bounds, and why they are enough |
|---|---|---|
| `ingest_faults` | `TypeOK`, `OneWritePerSecond`, `AckedIsDurable`, `EffectsFollowRows`, `ImplementsLog` | two requests of four kinds that overlap in device and second, a queue of one, two ticks per second over a second boundary, every kind of fault. Two requests suffice for a race over a key, a queue slot and a row; the theorems lift it. |
| `ingest_liveness` | `AbandonedNeverWritten`, `EveryCallAnswered`, `StoredIsEvaluated` | two requests (points, batches, one that is too large), a keyspace of one page that grows to several and shrinks at any moment, Redis and database errors and ended contexts |
| `connector_backpressure` | `TypeOK`, `KeepsFreshest`, `NothingUnaccounted`, `RequestsAreComplete`, `ImplementsQueue`, `EveryReadingSettles`, `StopCompletes` | two brokers, one of which fails to start; a configured size 0 that becomes 2; three arrivals, so the channel overflows; a clock of two values separates arrival from forwarding |
| `registry_races` | `TypeOK`, `KeyMatchesCertificate`, `ImplementsDirectory`, `EveryCallAnswered`, `ScanEnds` | two clients and the watchdog over one device, all faults, one crash, a clock that lets `last_seen` age and expire. Devices share nothing but the scan; that a scan goes on to the next device after a failure is not shown. |
| `alerts_silence` | `TypeOK`, `SilenceHolds`, `QuietPeriod`, `ChangeIsReal` | two evaluations of one series (a change is between two points) with two values, two RPCs that silence, clear, delete the HIGH threshold, create another one or a CHANGE, a clock that passes the end of a silence and of the key. One metric: the proofs cover several series |
| `alerts_liveness` | `PublishedIsRecorded`, `AnnouncedOnce`, `EvaluationEnds` | one evaluation over all threshold types, two RPCs that change them, every fault and a crash; the link goes down before or after the broker took the alert, and may come back |
| `feed` | `TypeOK`, `NothingLostSilently`, `EvaluatedOnce`, `FeedComesBack` | one worker (workers share only the inbox), two readings with their copies, two runs of the simulator, one stop or crash of the service, one broken connection, one key that lapses, an inbox of two, messages of a stranger |
| `console` | `TypeOK`, `AcknowledgedIsListed`, `DeletedStaysDeleted`, `NewestAlertsFirst`, `StatsMissNothing`, `EveryRequestAnswered`, `DrainCompletes` | one caller of the gateway and one direct caller, one request each out of 19 that overlap on one threshold, one silence and the alerts of one device; a threshold id that is deleted before it is given; a page of one so that it overflows; a largest int32 of three, so that three alerts fit and the fourth does not; every fault, one deadline, stop and crash at any point; a clock of two, and a new alert that precedes the earlier ones (a late one that is older than its neighbours is in `FirstPages` only) |
| `query_paging` | `TypeOK`, `PagesMissNothing` | one reader (readers share only the table), a clock and rows of 1..5, page sizes 1 and 2, retention 3, both orders, fixed and sliding ranges, offset at the largest int32 |

What these properties say, in short (each has its full statement beside its definition):

* `OneWritePerSecond`: two rows with the same dedup key exist only if that key lapsed.
* `AckedIsDurable`: a success reply means that the request's own rows are in the table.
* `EffectsFollowRows`: the evaluator and `last_seen` only reflect stored points.
* `AbandonedNeverWritten`: a job whose context ended in the queue is never written.
* `EveryCallAnswered`, `StoredIsEvaluated`: an RPC is answered, and what was reported as stored reaches the evaluator. Each names
  the exception that `ingest_scan_wedge` shows: a call without a deadline waits while the worker is in the SCAN loop
  after a batch, and the rest of that batch is not evaluated.
* `KeepsFreshest`: the channel is exactly a suffix of the arrivals. `NothingUnaccounted`: each arrival is in one place or counted once.
* `KeyMatchesCertificate`: see section 1.
* `SilenceHolds`: an evaluation that began under a rule does not announce while that rule stands.
  `QuietPeriod`: an alert that passes the check is a TTL later than every alert already marked.
* `AnnouncedOnce`: one point is announced at most once for each type of threshold, but for the copy that QoS 1 sends after a
  connection was lost before the acknowledgement. `EvaluationEnds`: an evaluation ends unless it waits for a broker that is away. `ChangeIsReal`: a CHANGE is found only
  between two points of one device and metric, whatever the order in which goroutines read and write `lastValues`.
* `ImplementsLog`, `ImplementsDirectory`, `ImplementsQueue`: the step-by-step agreement with `MetricLog`,
  `DeviceDirectory` and `FreshestQueue` described in section 2. Four invariants that these refinements imply for what
  a caller can see have no run of their own and are theorems only: `RefusedWritesNothing` (a refused request has no row,
  and no job left), `DropsBounded` (n arrivals cost at most n - capacity drops), `AcknowledgedIsFound` and
  `CacheOnlyRegistered` (a created device is never missing, and only registered devices are cached).
* `NothingLostSilently`: a reading the simulator counts as sent is stored, on its way, or in `lost` (no
  subscriber, under way on a connection that broke, a submit that failed or that a stop or a crash cut short, the last
  without a word in any log); its key is never taken by another reading. `EvaluatedOnce`: copies are not
  evaluated again unless the key lapsed. `FeedComesBack`: if broker and service stay up the subscription is there for good, or was refused.
* `AcknowledgedIsListed`, `DeletedStaysDeleted`: ids given, and deletions acknowledged with 204, hold in every
  later list. `NewestAlertsFirst`: a first page misses an alert only if it is full of newer ones.
  `StatsMissNothing`: none of the three counts is below what was on record throughout, if each fitted an int32.
  `EveryRequestAnswered`, `DrainCompletes`: every caller is answered and GracefulStop ends, unless a caller stays
  without reading the stream it asked for (`Unread`).
* `PagesMissNothing`: when a reader stops at `has_more = false` it has every row that was in its range from
  its first page to its last. It is stated for *steady* walks: newest first over any range, or oldest first
  over a range that does not slide and that retention does not reach. Without that condition rows are
  skipped, because rows leave the front of the range and OFFSET counts from there.

`CHECK_DEADLOCK FALSE` appears only in the alert runs and in `ingest_scan_wedge`. An alert system with
all evaluations done and no RPC left really may rest, and a wedged worker is what the latter shows.

Runs that show a disagreement between the code and what the repository says of it:

| Run | Property | What happens |
|---|---|---|
| `ingest_duplicate_lost` | `DuplicateIsPersisted` | a point refused by a full queue keeps its dedup key; its retry is answered `success = true` and nothing is stored |
| `ingest_scan_wedge` | `WorkerComesBack` | the SCAN loop redeclares its cursor and never ends on several pages; the batch path has no deadline |
| `registry_silent` | `SilentIsMarked` | UpdateDeviceStatus writes a control character that the CHECK constraint refuses |

Every property of a passing run has a mutant in `PROJECT.json`: a plausible slip in a mapped definition
that makes TLC find the property violated.

## 4. Fairness

* `TelemetryIngest`: weak fairness of each handler, each post-write goroutine and the worker: the
  Go scheduler runs a runnable goroutine. Faults, the clock and arrivals are owed nothing. A worker in the
  SCAN loop owes nothing either (`WorkerRuns`): only a Redis error or a smaller keyspace ends that loop.
* `Connector`: weak fairness of `main`, callbacks and loops, and of `Connect` for reachable brokers (paho
  retries). Strong fairness of `LoopExit`: when both cases of the `select` are ready again and again, Go
  chooses uniformly at random, so the cancelled context is chosen in the end.
* `DeviceRegistry`: weak fairness of handlers, cache goroutines, ticker and scan. `DbError` is not in the fair part.
* `AlertEvaluation`: weak fairness of the evaluation, of `ContextEnds` (a timer) and of `Publishing`: while it is connected,
  paho sends a QoS 1 message and the broker acknowledges it. Nothing brings a lost connection back, so an
  evaluation may wait for ever in `tok.Wait()`; `EvaluationEnds` says that this is its only wait without an end.
* `TelemetryFeed`: weak fairness of the simulator's goroutines, of the callback, of the clock, and of `Start`
  (the service's own start and its client, which retries until it is connected and then subscribes). The broker,
  operators and Redis owe nothing, so `FeedComesBack` assumes that the broker stays up. It need not accept the
  subscription either: `SubscribeFails` is always possible, and nobody tries again on that connection.
* `AlertConsole`: weak fairness of calls and statements, of the gateway's timer (every call has a
  `context.WithTimeout`) and of `GracefulStop`. Direct callers have no deadline and need not read what is streamed to them:
  `StreamEnds` owes only that a handler notices that its caller has gone. That statements end is assumed.
  The device and the telemetry service owe no answer; the timer covers them.
* `MetricQueries` states safety only.

## 5. Proofs

Each `XProofs` proves `Spec => []Safe` (`SafeInvariant`) with one lemma per action or group of actions, and
derives the listed theorems from it. Constants are restricted only by the named `ASSUME`s of the modules.

* `TelemetryIngestProofs`: `TypeCorrect`, `Deduplication`, `Durability`, `Refusal`, `Effects`,
  `Abandonment`. `OneWritePerSecond` is not inductive: it does not see points on their way to the table.
  `Claims(r, i)` says that a point is in the table or may still get there. `ClaimsAreGuarded` (such a point's key
  is held or lapsed) and `ClaimsAreUnique` (by it alone) are what TryMarkDedup establishes and every other
  step keeps. `Lifecycle` says in which stage a request may be queued, at the worker or written. `NilIsDurable`
  carries durability from the worker's answer to the reply. `Abandonment` is the temporal theorem
  `Queued /\ ctxDone => []~Wrote`: that state is itself stable until the worker has refused the job.
  `Refinement` proves `Spec => ImplementsLog`: one lemma per group of actions shows its step in
  `MetricLog`. `ClaimsAreUnique` is what makes `Write` find its key free or excused, `NilIsDurable` what
  makes `Confirm` true, and `Lifecycle` what keeps a refused request out of the table.
* `TelemetryFeedProofs`: `TypeCorrect`, `Conservation`, `SingleEvaluation`. The chain is: a worker is stamped at
  most once a second (`Paced`, from the sleep of at least one second), so a key stands for one reading
  (`KeysAreDistinct`), so a reading whose key is taken is stored, lost or being stored (`KeysAreSettled`),
  so a message recognised as a copy loses nothing. `TakenIsCarried` covers the time between the broker's
  receipt and the acknowledgement, `EvaluationsAreGuarded` carries the key from the check to the evaluation.
* `AlertConsoleProofs`: `TypeCorrect`, `Listing`, `Deletion`, `FirstPages`, `Counting`. `InStep` says which
  statement a handler may be at, given its message and its caller, and that a caller who is answered
  while its handler still runs was told 500. `Kept` says, for each kind of read, that what the answer must not miss is in
  the table until the statement runs and in the answer afterwards. Two callers meet only in the tables (`World`,
  `SameStays`), which reduces a step to the request that makes it. For
  `DeletedStaysDeleted`, `DeletionIsDone` says that a threshold that was there when its deletion was asked for is
  removed when that succeeds, and `IdsAreGiven` that no id is given twice: ids are `th_<UnixNano>`, of which the model
  keeps that two inserts differ. An id may be named before it is given.
* `ConnectorProofs`: `TypeCorrect`, `Freshness`, `Accounting`, `Backpressure`, `Attribution`. The
  strengthening is what is known between the three selects: after an eviction there is room, because
  the callback is the only sender (`EnqueueKnows`), and an arrival that has not evicted yet may still do so
  (`DropQuota`). `AtomicBuffer` proves `Spec => ImplementsQueue`. `QueueActions` reduces a step of the abstract
  queues to six numbers of one worker. `Accounted` makes the length of the channel the number of entries that
  wait, `HoldsLatest` makes its head the one that `Take` expects, and `EnqueueKnows` makes the third select find room.
* `DeviceRegistryProofs`: `TypeCorrect`, `KeyOwnership`, `CacheSoundness`, `ReadYourCreate`. Rows are never
  removed and a certificate is never replaced, so what a call knew at its start (`known`) is still registered.
  `Linearization` proves `Spec => ImplementsDirectory`. `InStep` (theorem `InStepInvariant`) says at which statement a
  call may be, that it has no answer before it ends and that the watchdog between two calls has none open.
  `CacheOnlyRegistered` makes a hit in the cache true of the table at that instant.
* `AlertEvaluationProofs`: `TypeCorrect`, `Silencing`, `QuietTime`, `OnRecord`. `Heeded` carries a rule from
  its reading through the loop. Ids make a rule that is stored later different from the one that was cleared.
  `KeyOutlives` says that the key never expires before the TTL of a marked alert, although SilenceAlert writes
  the same key. `OneAnnouncement` and `RealChange` rest on a second invariant, `SeriesInv` (theorem `SeriesInvariant`):
  the UNIQUE of the table (`UniqueRows`) makes an evaluation meet every type once (`MeetsOnce`), so what it has
  announced is behind it (`AnnouncedBefore`); an evaluation that has written `lastValues` has no CHANGE left to
  compare (`LastIsPoint`), so what a comparison reads is another evaluation's value (`FoundChange`).
* `MetricQueriesProofs`: `TypeCorrect`, `Paging`. A row that is owed has a position of at least the offset of the
  page (`WalkKnows`). If it is not on the page it is behind it (`BehindPage`), the page is then not empty, the count is
  read after the page and so exceeds offset plus limit, and `has_more` is true. Rows before it only grow in number
  in a steady walk, so the next page keeps it at or after its offset.

Left to TLC: all liveness properties (`EveryCallAnswered`, `StoredIsEvaluated`, `EveryReadingSettles`,
`StopCompletes`, `ScanEnds`, `EvaluationEnds`, `FeedComesBack`, `EveryRequestAnswered`, `DrainCompletes`), which
need fairness, and the three violations. Every invariant and every refinement a passing run checks is also a theorem.

## 6. Observations without a run

Seen while modelling; the models do what the code does. None of these is checked by a run here. Several
contradict a line of the repository:

* `last_seen` is a plain SET from one goroutine per point, so it may go back (`telemetry_cache.go:353`).
* GetDevice from PostgreSQL looks the status up by enum name and reports UNSPECIFIED (`device_service.go:225`);
  a status filter is a control character and matches nothing (`device_service.go:256`).
* SilenceAlert sets the key of the whole device, so other metrics are dropped for five minutes
  (`alert_service.go:239`, against `api/proto/alert.proto:30`). ClearSilence leaves that key (`alert.proto:36`).
* Rules for a whole device are NULL in UNIQUE (device_id, metric_name) and may be stored twice (`alert_db.go:290`). A rule
  for one metric that has run out stays in the table and the constraint refuses the next one until ClearSilence (against
  `alert_db.go:280` and `api/proto/alert.proto:30`): `SilenceViolates` of `AlertConsole` is that refusal. This is the
  one hazard of `PROJECT.json` that no property covers. The `silenced_until` of the answer is computed again after the insert.
* UpdateThreshold does not compare the bounds of a RANGE (`alert_service.go:124`), which CreateThreshold does
  (`alert_service.go:416`), applies only what is positive or true, so a threshold cannot be disabled or a bound set to 0, and
  succeeds for an unknown id. A PUT without a severity makes it WARNING in the gateway.
* The gateway passes no times to GetAlertStats, so its total is always 0 (`alert.proto:39`); it answers queryMetrics
  with 200 and an unread stream; a missing time goes out as 1970. QueryAlertHistory never sets `has_more`
  (`alert.proto:144`). Alerts are never resolved: ResolveAlert has no caller.
* Two overlapping evaluations both pass the check of `alert:{device}` and both publish (`alert_evaluator.go`,
  against `planning.md:233`). Two points of a metric may store `lastValues` in either order (`alert_evaluator.go:92`).
* The connector's `start` waits for an unreachable broker, so later brokers get no worker (against
  `planning.md:43`); the telemetry service's `main` waits for its broker twice (against `planning.md:47`).
* One Ping at the start decides for the life of the process whether there is a Redis client
  (`cmd/telemetry-service/main.go:47`, against `planning.md:387`).
* PublishAlert waits without a context (`alert_publisher.go:63`, against `planning.md:46` and the
  concurrency contract of `planning.md:409`, which asks for exit on cancellation and no blocking write without a timeout).
* A refused Subscribe is logged and not tried again before the next connection (`telemetry_ingest.go:74`): the client
  stays connected and receives nothing.
* DeleteThreshold answers success, and the gateway 204, for an id that does not exist (`alert_db.go:145`), also for one
  that is given later.
* GetAlertStats cuts its three counts to an int32 (`alert_service.go:308`, 309 and 316). GracefulStop has no limit and waits for a
  stream whose caller stays without reading (`cmd/alert-service/main.go:91`).
* QueryAggregated selects `bucket` beside aggregates without GROUP BY, so GetAggregations always fails and the query
  cache stays empty. Its key `agg:...` is also not among those that InvalidateMetricCache deletes.
* GetMetricStats reports the *first* value as the latest (`telemetry_db.go:298`); `end_time` is inclusive in
  QueryMetrics (`telemetry_db.go:171`), which `api/proto/telemetry.proto:124` calls exclusive.

## 7. Not modelled

Certificate generation and tracing (no protocol of their own, no state others read); serialisation and
reflection in the generated code; values, tags, texts, acknowledgement columns and statistics; a crash of the
simulator; functions that nothing calls; the start of the device service. The query cache is always empty
(section 6), so its hits are not a behaviour of this program. `PROJECT.json` gives the reason for each component.

## 8. Plan

Done: all components but certificates and tracing, with their theorems, and the refinements of `MetricLog`,
`DeviceDirectory` and `FreshestQueue`. Left:

1. A composition of ingest and alerts: the worker's `evaluateAsync` as the source of `Evaluate`, to state
   from the reading to the announcement what is now stated in two halves.
2. An abstract book of thresholds and silences that `AlertConsole` implements, in which every statement of a
   handler that outlives its caller still takes effect at one instant.

A refinement from `TelemetryFeed` to `MetricLog` was considered and left: the feed has no answers to map, so
all it could say is that what is evaluated is stored, which the feed's own invariant says already.
