--------------------------- MODULE TelemetryIngest ---------------------------
(***************************************************************************)
(* The write path of the telemetry service: the gRPC handlers SubmitMetric *)
(* and SubmitBatch (the MQTT subscriber calls the first one too), the      *)
(* Redis deduplication key they take per (device, second), the bounded     *)
(* channel writeCh, the single goroutine that drains it into TimescaleDB,  *)
(* and the work done after a successful insert.                            *)
(*                                                                         *)
(* A request is one RPC.  A retry, a redelivered MQTT message or a second  *)
(* reading of the same second is another request with the same items.      *)
(* A point has no value: the row it writes is told from every other row by *)
(* the request that wrote it.                                              *)
(***************************************************************************)
EXTENDS Naturals, Sequences, FiniteSets

CONSTANTS
  Request,        \* identities of the RPCs
  NoRequest,      \* none of them
  Device,         \* device ids that occur in requests
  KnownDevice,    \* the ones with a row in devices (the foreign key)
  Metric,         \* metric names
  Calls,          \* what an RPC may ask: kind, source, items
  MaxBatch,       \* maxBatchSize
  QueueCap,       \* capacity of writeCh
  TicksPerSecond, \* resolution of time.Now
  FutureSkew,     \* futureTimestampSkew, in seconds
  StartTime,      \* the clock at Init, in ticks
  MaxTime,        \* bound on the clock, in ticks
  ScanModes,      \* the answers possible to "SCAN needs several pages?"
  Faults          \* the faults the environment may inject

FaultKinds == {"redis", "db", "ttl", "ctx", "crash", "stop"}

\* What one RPC carries.  stamp 0 asks the server to stamp the point; ok is
\* the verdict of validateSubmitRequest on the fields left out here.
Item == [dev : Device, metric : Metric, stamp : Nat, ok : BOOLEAN]
Call == [kind : {"metric", "batch"}, src : {"grpc", "mqtt"}, items : Seq(Item)]

ASSUME RequestAssumption == NoRequest \notin Request
ASSUME DeviceAssumption == KnownDevice \subseteq Device
ASSUME CallsAssumption  ==
  /\ Calls \subseteq Call
  /\ \A c \in Calls : c.kind = "metric" => Len(c.items) = 1
ASSUME SizeAssumption   ==
  /\ MaxBatch \in Nat
  /\ QueueCap \in Nat \ {0}
  /\ TicksPerSecond \in Nat \ {0}
  /\ FutureSkew \in Nat
  /\ StartTime \in Nat /\ MaxTime \in Nat /\ StartTime <= MaxTime
ASSUME ModeAssumption   ==
  /\ ScanModes \subseteq BOOLEAN /\ ScanModes # {}
  /\ Faults \subseteq FaultKinds

VARIABLES
  now,      \* time.Now, in ticks
  pc,       \* where each handler is
  call,     \* what each RPC asked
  next,     \* the item each handler looks at next
  pts,      \* the points each handler has admitted
  reply,    \* what each RPC was answered
  ctxDone,  \* the RPC's context is cancelled or past its deadline
  done,     \* the RPC's done channel (capacity 1)
  queue,    \* writeCh: a job is named by its RPC, its points are pts
  worker,   \* the goroutine of runMetricWriteWorker
  rows,     \* the metrics table
  dedup,    \* the dedup:{device}:{second} keys alive in Redis
  lapsed,   \* history: keys whose guard expired or was bypassed
  post,     \* the goroutines of postMetricWrite, one per single-point job
  lastSeen, \* last_seen:{device} in Redis, 0 when absent
  evals,    \* history: the points handed to the alert evaluator
  paged,    \* whether a SCAN of the Redis keyspace needs several pages
  draining  \* GracefulStop has been called

handler == <<call, next, pts, reply, done>>
vars == <<now, pc, call, next, pts, reply, ctxDone, done, queue, worker, rows,
          dedup, lapsed, post, lastSeen, evals, paged, draining>>

-----------------------------------------------------------------------------
Point  == [dev : Device, metric : Metric, time : Nat]
Row    == [by : Request, pt : Point]
Key    == Device \X Nat

\* time.Time.Unix: the fraction of a second is dropped.
Unix(t) == t \div TicksPerSecond

\* The key of TryMarkDedup: the metric name is not part of it.
DedupKey(p) == <<p.dev, Unix(p.time)>>

\* validateAndResolveMetricTimestamp: the timestamp a point gets ...
Resolve(it) == IF it.stamp = 0 THEN now ELSE it.stamp * TicksPerSecond

\* ... and whether the item passes.
Acceptable(it) ==
  /\ it.ok
  /\ it.stamp = 0 \/ it.stamp * TicksPerSecond <= now + FutureSkew * TicksPerSecond

\* metricPointFromRequest.
PointOf(it) == [dev |-> it.dev, metric |-> it.metric, time |-> Resolve(it)]

InsertErrors == {"ctx", "fk", "conflict", "io"}
Refusals     == {"invalid", "duplicate", "full", "canceled"}
Replies      == {"none", "stored", "ctx", "notfound", "internal", "unavailable"}
                  \cup Refusals

\* Mutants: an error is taken for success; a failed insert is taken for a send
\* that never happened.
FailureIsStored(err) == IF err = "fk" THEN "notfound" ELSE "stored"
FailureIsCanceled(err) == IF err = "ctx" THEN "canceled" ELSE "internal"

\* insertFailureStatus.
FailureStatus(err) ==
  IF err = "ctx" THEN "ctx" ELSE IF err = "fk" THEN "notfound" ELSE "internal"

\* The worker at a stage of its work on the job of r, at its i-th point.
Busy(stage, r, i) == [pc |-> stage, job |-> r, idx |-> i]
IdleWorker == [pc |-> "idle", job |-> NoRequest, idx |-> 0]

NoCall == [kind |-> "metric", src |-> "grpc", items |-> <<>>]

NoPost == [r \in Request |-> "none"]

Init ==
  /\ now = StartTime
  /\ pc = [r \in Request |-> "idle"]
  /\ call = [r \in Request |-> NoCall]
  /\ next = [r \in Request |-> 1]
  /\ pts = [r \in Request |-> <<>>]
  /\ reply = [r \in Request |-> "none"]
  /\ ctxDone = [r \in Request |-> FALSE]
  /\ done = [r \in Request |-> "empty"]
  /\ queue = <<>> /\ worker = IdleWorker /\ post = NoPost /\ draining = FALSE
  /\ rows = {}
  /\ dedup = {} /\ lapsed = {}
  /\ lastSeen = [d \in Device |-> 0]
  /\ evals = {}
  /\ paged \in ScanModes

-----------------------------------------------------------------------------
(* The handlers. *)

\* The handler of r returns answer a.
Answer(r, a) ==
  /\ pc' = [pc EXCEPT ![r] = "done"]
  /\ reply' = [reply EXCEPT ![r] = a]

Outside == <<now, queue, worker, rows, post, lastSeen, evals, paged, draining>>

Running(r) == pc[r] \notin {"idle", "done"}

\* The MQTT client calls handleMessage for one message at a time.
SubscriberFree == \A r \in Request : Running(r) => call[r].src # "mqtt"

\* An RPC arrives; SubmitBatch first looks at the size of the batch.
Arrive(r) ==
  /\ pc[r] = "idle" /\ ~draining
  /\ \E c \in Calls :
       /\ c.src = "mqtt" => SubscriberFree
       /\ call' = [call EXCEPT ![r] = c]
       /\ IF c.kind = "batch" /\ Len(c.items) \notin 1..MaxBatch
            THEN Answer(r, "invalid")
            ELSE pc' = [pc EXCEPT ![r] = "admit"] /\ UNCHANGED reply
  /\ UNCHANGED <<next, pts, ctxDone, done, dedup, lapsed, Outside>>

Looking(r) == pc[r] = "admit" /\ next[r] <= Len(call[r].items)

Current(r) == call[r].items[next[r]]

\* The item is not a new point: SubmitMetric answers, SubmitBatch counts it
\* as rejected and goes on.
Skip(r, answer) ==
  /\ IF call[r].kind = "metric"
       THEN Answer(r, answer) /\ UNCHANGED next
       ELSE next' = [next EXCEPT ![r] = @ + 1] /\ UNCHANGED <<pc, reply>>
  /\ UNCHANGED <<call, pts, ctxDone, done, Outside>>

\* The item becomes a point of the job.
Admit(r) ==
  /\ pts' = [pts EXCEPT ![r] = Append(@, PointOf(Current(r)))]
  /\ next' = [next EXCEPT ![r] = @ + 1]
  /\ UNCHANGED <<pc, call, reply, ctxDone, done, Outside>>

RejectItem(r) ==
  /\ Looking(r)
  /\ ~Acceptable(Current(r))
  /\ Skip(r, "invalid")
  /\ UNCHANGED <<dedup, lapsed>>

\* SETNX answers 0.
DuplicateItem(r) ==
  /\ Looking(r)
  /\ Acceptable(Current(r))
  /\ DedupKey(PointOf(Current(r))) \in dedup
  /\ Skip(r, "duplicate")
  /\ UNCHANGED <<dedup, lapsed>>

\* Mutant: two RPCs both find the key free.
TryMarkRaced(k) == dedup' = dedup \cup {k}

\* TryMarkDedup, when SETNX answers 1.
TryMark(k) == k \notin dedup /\ dedup' = dedup \cup {k}

\* SETNX answers 1.  The key is taken before the point is enqueued, and
\* nothing gives it back when a later step fails.
MarkItem(r) ==
  /\ Looking(r)
  /\ Acceptable(Current(r))
  /\ TryMark(DedupKey(PointOf(Current(r))))
  /\ Admit(r)
  /\ UNCHANGED lapsed

\* SETNX returns an error, because Redis fails or because the RPC's context
\* is done; Redis may have set the key all the same.  TryMarkDedup then says
\* the point is new.
BypassItem(r) ==
  /\ Looking(r)
  /\ Acceptable(Current(r))
  /\ "redis" \in Faults \/ ctxDone[r]
  /\ LET k == DedupKey(PointOf(Current(r))) IN
       /\ dedup' \in {dedup, dedup \cup {k}}
       /\ lapsed' = IF ctxDone[r] THEN lapsed ELSE lapsed \cup {k}
  /\ Admit(r)

Looked(r) == pc[r] = "admit" /\ next[r] > Len(call[r].items)

\* Every item of the batch was invalid or a duplicate.
NothingLeft(r) ==
  /\ Looked(r)
  /\ pts[r] = <<>>
  /\ Answer(r, "invalid")
  /\ UNCHANGED <<call, next, pts, ctxDone, done, dedup, lapsed, Outside>>

\* Mutant: the channel takes one job more than its capacity.
RoomForOneMore == Len(queue) <= QueueCap

Room == Len(queue) < QueueCap

\* The select that sends the job.  With room in the channel and a context
\* that is done either case may be chosen; default only when neither is ready.
Enqueue(r) ==
  /\ Looked(r)
  /\ pts[r] # <<>>
  /\ Room
  /\ queue' = Append(queue, r)
  /\ pc' = [pc EXCEPT ![r] = "await"]
  /\ UNCHANGED <<now, handler, ctxDone, worker, rows, dedup, lapsed, post,
                 lastSeen, evals, paged, draining>>

EnqueueCanceled(r) ==
  /\ Looked(r)
  /\ pts[r] # <<>>
  /\ ctxDone[r]
  /\ Answer(r, "canceled")
  /\ UNCHANGED <<call, next, pts, ctxDone, done, dedup, lapsed, Outside>>

EnqueueFull(r) ==
  /\ Looked(r)
  /\ pts[r] # <<>>
  /\ ~Room /\ ~ctxDone[r]
  /\ Answer(r, "full")
  /\ UNCHANGED <<call, next, pts, ctxDone, done, dedup, lapsed, Outside>>

\* The select that waits for the worker: its answer ...
AwaitDone(r) ==
  /\ pc[r] = "await"
  /\ done[r] # "empty"
  /\ Answer(r, IF done[r] = "nil" THEN "stored" ELSE FailureStatus(done[r]))
  /\ done' = [done EXCEPT ![r] = "empty"]
  /\ UNCHANGED <<call, next, pts, ctxDone, dedup, lapsed, Outside>>

\* ... or the end of the context, whatever becomes of the job.
AwaitCtx(r) ==
  /\ pc[r] = "await"
  /\ ctxDone[r]
  /\ Answer(r, "ctx")
  /\ UNCHANGED <<call, next, pts, ctxDone, done, dedup, lapsed, Outside>>

-----------------------------------------------------------------------------
(* The worker. *)

Single(r) == Len(pts[r]) = 1

PointsOf(r) == {pts[r][i] : i \in DOMAIN pts[r]}

\* Mutant: the job runs under the worker's context instead of the RPC's.
PoolIgnoresRequest(r) == FALSE

\* The connection pool refuses a context that is already done.
PoolRefuses(r) == ctxDone[r]

\* Mutant: only success is reported to the handler.
TellSuccess(r, err) == done' = IF err = "nil" THEN [done EXCEPT ![r] = err] ELSE done

Tell(r, err) == done' = [done EXCEPT ![r] = err]

\* Dequeue; a job the pool refuses ends here with the context's error.
WorkerTake ==
  /\ worker.pc = "idle" /\ queue # <<>>
  /\ LET r == Head(queue) IN
       /\ queue' = Tail(queue)
       /\ IF PoolRefuses(r)
            THEN Tell(r, "ctx") /\ UNCHANGED worker
            ELSE worker' = Busy("insert", r, 1) /\ UNCHANGED done
  /\ UNCHANGED <<now, pc, call, next, pts, reply, ctxDone, rows, dedup, lapsed,
                 post, lastSeen, evals, paged, draining>>

Clash(p, q) == p.dev = q.dev /\ p.metric = q.metric /\ p.time = q.time

Taken(p) == \E row \in rows : Clash(row.pt, p)

\* InsertMetric: ON CONFLICT DO NOTHING keeps the row that is there.
InsertMetric(r) ==
  IF Taken(pts[r][1]) THEN rows ELSE rows \cup {[by |-> r, pt |-> pts[r][1]]}

\* InsertMetricBatch: COPY has no ON CONFLICT, one clash aborts all of it.
InsertMetricBatch(r) == rows \cup {[by |-> r, pt |-> p] : p \in PointsOf(r)}

ForeignKeyOk(r) == \A p \in PointsOf(r) : p.dev \in KnownDevice

BatchClash(r) ==
  /\ ~Single(r)
  /\ \/ \E p \in PointsOf(r) : Taken(p)
     \/ \E i, j \in DOMAIN pts[r] : i # j /\ Clash(pts[r][i], pts[r][j])

Commit(r) == rows' = IF Single(r) THEN InsertMetric(r) ELSE InsertMetricBatch(r)

\* The insert succeeds: the handler is told, then a single point gets a
\* goroutine of its own while a batch stays with the worker.
WorkerStored ==
  /\ worker.pc = "insert"
  /\ LET r == worker.job IN
       /\ ForeignKeyOk(r) /\ ~BatchClash(r)
       /\ Commit(r)
       /\ Tell(r, "nil")
       /\ IF Single(r)
            THEN /\ worker' = IdleWorker
                 /\ post' = [post EXCEPT ![r] = "invalidate"]
            ELSE worker' = Busy("effects", r, 1) /\ UNCHANGED post
  /\ UNCHANGED <<now, pc, call, next, pts, reply, ctxDone, queue, dedup, lapsed,
                 lastSeen, evals, paged, draining>>

\* Why an insert may fail ...
InsertError(r, err) ==
  \/ err = "ctx" /\ ctxDone[r]
  \/ err = "fk" /\ ~ForeignKeyOk(r)
  \/ err = "conflict" /\ BatchClash(r)
  \/ err = "io" /\ "db" \in Faults

\* ... and when the database may have committed before the error: the
\* connection or the context ended while the answer was on its way.
WorkerFailed ==
  /\ worker.pc = "insert"
  /\ LET r == worker.job IN
       /\ \E err \in InsertErrors :
            /\ InsertError(r, err)
            /\ Tell(r, err)
            /\ \/ UNCHANGED rows
               \/ /\ err \in {"ctx", "io"}
                  /\ ForeignKeyOk(r) /\ ~BatchClash(r)
                  /\ Commit(r)
       /\ worker' = IdleWorker
  /\ UNCHANGED <<now, pc, call, next, pts, reply, ctxDone, queue, dedup, lapsed,
                 post, lastSeen, evals, paged, draining>>

\* Mutant: the server's clock is stored instead of the point's time.
SetLastSeenNow(p) == [lastSeen EXCEPT ![p.dev] = Unix(now)]

\* SetDeviceLastSeen: a plain SET of the point's second.
SetLastSeen(p) == [lastSeen EXCEPT ![p.dev] = Unix(p.time)]

\* The loop of InvalidateMetricCache starts every SCAN at cursor 0, so it ends
\* only when one page holds everything or when a Redis call fails.
ScanReturns == ~paged \/ "redis" \in Faults

\* The first point of a device and metric in the batch invalidates its cache.
Invalidates(r, i) ==
  \A j \in 1..(i - 1) : \/ pts[r][j].dev # pts[r][i].dev
                        \/ pts[r][j].metric # pts[r][i].metric

\* Mutant: the loop stops one point early.
LastPointEarly(r, i) == i + 1 >= Len(pts[r])

LastPoint(r, i) == i = Len(pts[r])

\* The worker is in a loop of SCANs that does not end by itself.
Wedged ==
  worker.pc = "effects" /\ Invalidates(worker.job, worker.idx) /\ paged

\* One round of the loop after InsertMetricBatch, under the worker's context,
\* which has no deadline.
WorkerEffect ==
  /\ worker.pc = "effects"
  /\ LET r == worker.job
         i == worker.idx
     IN  /\ Invalidates(r, i) => ScanReturns
         /\ \/ lastSeen' = SetLastSeen(pts[r][i])
            \/ "redis" \in Faults /\ UNCHANGED lastSeen
         /\ evals' = evals \cup {<<r, i>>}
         /\ worker' = IF LastPoint(r, i) THEN IdleWorker
                                      ELSE Busy("effects", r, i + 1)
  /\ UNCHANGED <<now, pc, handler, ctxDone, queue, rows, dedup, lapsed, post,
                 paged, draining>>

-----------------------------------------------------------------------------
(* postMetricWrite, one goroutine per single-point job. *)

\* InvalidateMetricCache under the 5 s limit: it returns, or uses all of it.
PostInvalidate(r) ==
  /\ post[r] = "invalidate"
  /\ \/ ScanReturns /\ post' = [post EXCEPT ![r] = "mark"]
     \/ (paged \/ "redis" \in Faults) /\ post' = [post EXCEPT ![r] = "late"]
  /\ UNCHANGED <<now, pc, handler, ctxDone, queue, worker, rows, dedup, lapsed,
                 lastSeen, evals, paged, draining>>

\* markLastSeen under what is left of the limit, then evaluateAsync.
PostMark(r) ==
  /\ post[r] \in {"mark", "late"}
  /\ \/ post[r] = "mark" /\ lastSeen' = SetLastSeen(pts[r][1])
     \/ (post[r] = "late" \/ "redis" \in Faults) /\ UNCHANGED lastSeen
  /\ evals' = evals \cup {<<r, 1>>}
  /\ post' = [post EXCEPT ![r] = "none"]
  /\ UNCHANGED <<now, pc, handler, ctxDone, queue, worker, rows, dedup, lapsed,
                 paged, draining>>

-----------------------------------------------------------------------------
(* The environment. *)

\* The client cancels or the deadline passes.
ContextEnds(r) ==
  /\ "ctx" \in Faults
  /\ pc[r] \notin {"idle", "done"} /\ ~ctxDone[r]
  /\ ctxDone' = [ctxDone EXCEPT ![r] = TRUE]
  /\ UNCHANGED <<pc, handler, dedup, lapsed, Outside>>

\* A dedup key reaches dedupTTL.
Expire(k) ==
  /\ "ttl" \in Faults
  /\ k \in dedup
  /\ dedup' = dedup \ {k}
  /\ lapsed' = lapsed \cup {k}
  /\ UNCHANGED <<pc, handler, ctxDone, Outside>>

Tick ==
  /\ now < MaxTime
  /\ now' = now + 1
  /\ UNCHANGED <<pc, handler, ctxDone, queue, worker, rows, dedup, lapsed, post,
                 lastSeen, evals, paged, draining>>

\* The Redis keyspace grows or shrinks past one page.
Resize ==
  /\ paged' \in ScanModes \ {paged}
  /\ UNCHANGED <<now, pc, handler, ctxDone, queue, worker, rows, dedup, lapsed,
                 post, lastSeen, evals, draining>>

\* The process ends and starts again: every RPC still running fails, its
\* context ends with it, and the memory is fresh; Redis and the database stay.
Restart ==
  /\ pc' = [r \in Request |-> IF Running(r) THEN "done" ELSE pc[r]]
  /\ reply' = [r \in Request |-> IF Running(r) THEN "unavailable" ELSE reply[r]]
  /\ ctxDone' = [r \in Request |-> ctxDone[r] \/ Running(r)]
  /\ done' = [r \in Request |-> "empty"]
  /\ queue' = <<>> /\ worker' = IdleWorker /\ post' = NoPost /\ draining' = FALSE
  /\ UNCHANGED <<now, call, next, pts, rows, dedup, lapsed, lastSeen, evals, paged>>

Crash ==
  /\ "crash" \in Faults
  /\ Restart

\* SIGTERM: the subscriber disconnects and GracefulStop admits no new RPC ...
Drain ==
  /\ "stop" \in Faults
  /\ ~draining
  /\ draining' = TRUE
  /\ UNCHANGED <<now, pc, handler, ctxDone, queue, worker, rows, dedup, lapsed,
                 post, lastSeen, evals, paged>>

\* ... returns once every gRPC handler has, and main ends: StopWriteWorker runs
\* and the process exits without waiting for the worker, the goroutines of
\* postMetricWrite or a handler called by the MQTT client.
Exit ==
  /\ draining
  /\ \A r \in Request : Running(r) => call[r].src = "mqtt"
  /\ Restart

-----------------------------------------------------------------------------
HandlerStep(r) ==
  \/ RejectItem(r) \/ DuplicateItem(r) \/ MarkItem(r) \/ BypassItem(r)
  \/ NothingLeft(r)
  \/ Enqueue(r) \/ EnqueueCanceled(r) \/ EnqueueFull(r)
  \/ AwaitDone(r) \/ AwaitCtx(r)

WorkerStep == WorkerTake \/ WorkerStored \/ WorkerFailed \/ WorkerEffect

PostStep(r) == PostInvalidate(r) \/ PostMark(r)

Environment ==
  \/ \E r \in Request : Arrive(r) \/ ContextEnds(r)
  \/ \E k \in dedup : Expire(k)
  \/ Tick \/ Resize \/ Crash \/ Drain \/ Exit

\* Every RPC has been answered and no work is left: the model ends here.
Quiesced ==
  /\ \A r \in Request : pc[r] = "done" /\ post[r] = "none"
  /\ queue = <<>> /\ worker.pc = "idle"
  /\ UNCHANGED vars

Next ==
  \/ \E r \in Request : HandlerStep(r) \/ PostStep(r)
  \/ WorkerStep
  \/ Environment
  \/ Quiesced

\* What the worker does by itself: nothing obliges Redis to fail, so a loop of
\* SCANs that only a failure would end goes on.
WorkerRuns ==
  WorkerTake \/ WorkerStored \/ WorkerFailed \/ (~Wedged /\ WorkerEffect)

\* The goroutines run; clients, clocks, the keyspace and faults owe nothing.
Fairness ==
  /\ \A r \in Request : WF_vars(HandlerStep(r)) /\ WF_vars(PostStep(r))
  /\ WF_vars(WorkerRuns)

Spec == Init /\ [][Next]_vars

FairSpec == Spec /\ Fairness

-----------------------------------------------------------------------------
(* Properties. *)

\* Every variable has its type; writeCh never holds more than its capacity.
TypeOK ==
  /\ now \in StartTime..MaxTime
  /\ pc \in [Request -> {"idle", "admit", "await", "done"}]
  /\ call \in [Request -> Calls \cup {NoCall}]
  /\ next \in [Request -> Nat \ {0}]
  /\ pts \in [Request -> Seq(Point)]
  /\ reply \in [Request -> Replies]
  /\ ctxDone \in [Request -> BOOLEAN]
  /\ done \in [Request -> {"empty", "nil"} \cup InsertErrors]
  /\ queue \in Seq(Request) /\ Len(queue) <= QueueCap
  /\ worker \in [pc : {"idle", "insert", "effects"},
                 job : Request \cup {NoRequest}, idx : Nat]
  /\ rows \subseteq Row
  /\ dedup \subseteq Key /\ lapsed \subseteq Key
  /\ post \in [Request -> {"none", "invalidate", "mark", "late"}]
  /\ lastSeen \in [Device -> Nat]
  /\ evals \subseteq Request \X Nat
  /\ paged \in BOOLEAN /\ draining \in BOOLEAN

Wrote(r) == \E row \in rows : row.by = r

Queued(r) == \E i \in DOMAIN queue : queue[i] = r

\* However requests, retries and crashes interleave, a second of a device is
\* written at most once, as long as its dedup key neither expired nor was
\* bypassed by a Redis failure: TryMarkDedup guards every path to the insert.
OneWritePerSecond ==
  \A x, y \in rows :
    DedupKey(x.pt) = DedupKey(y.pt) => x = y \/ DedupKey(x.pt) \in lapsed

\* Every point of r is in the table.
Durable(r) ==
  /\ pts[r] # <<>>
  /\ \A p \in PointsOf(r) :
       \/ [by |-> r, pt |-> p] \in rows
       \/ Single(r) /\ Taken(p) /\ DedupKey(p) \in lapsed

\* An RPC answered "metric stored successfully" or "accepted n metrics" has a
\* row for every point it admitted, and the row is its own (not one that was
\* there before, kept by ON CONFLICT DO NOTHING) unless the point went alone
\* and its dedup guard had lapsed.
AckedIsDurable == \A r \in Request : reply[r] = "stored" => Durable(r)

\* An RPC that was refused (invalid, duplicate, queue full, cancelled before
\* the send) wrote nothing, and never will: its job is not in the channel.
RefusedWritesNothing ==
  \A r \in Request : reply[r] \in Refusals =>
    ~Wrote(r) /\ ~Queued(r) /\ worker.job # r

\* The side effects of an insert follow a row: the evaluator only sees points
\* that are stored, and last_seen is the second of some stored point.
EffectsFollowRows ==
  /\ \A e \in evals : Taken(pts[e[1]][e[2]])
  /\ \A d \in Device : lastSeen[d] # 0 =>
       \E row \in rows : row.pt.dev = d /\ Unix(row.pt.time) = lastSeen[d]

\* A job whose RPC gave up while it was still in the channel is never written
\* afterwards: the worker inserts under the RPC's own context.
AbandonedNeverWritten ==
  \A r \in Request : [](Queued(r) /\ ctxDone[r] => []~Wrote(r))

\* The RPC waits, without a deadline that has passed, while the worker is
\* caught in a loop of SCANs.
HeldUp(r) == pc[r] = "await" /\ ~ctxDone[r] /\ Wedged

\* An RPC whose context ends is answered, whatever the queue, Redis, the
\* database and the worker do.  One that no deadline ends is answered unless
\* the worker is caught, for ever or again and again, in InvalidateMetricCache
\* after a batch: whenever it is not, the RPC gets its answer or is held up by
\* the next such loop.
EveryCallAnswered ==
  \A r \in Request : Running(r) ~> pc[r] = "done" \/ HeldUp(r)

\* The worker reported the insert as successful.
ToldStored(r) == done[r] = "nil" \/ reply[r] = "stored"

\* While the process runs, a single point reported as stored reaches the alert
\* evaluator even when its invalidation fails or uses up the whole 5 s limit
\* of postMetricWrite.  The points of a batch all reach it too, one after the
\* other, unless the worker is caught in the invalidation before one of them,
\* which has no limit there.
StoredIsEvaluated ==
  \A r \in Request :
    ToldStored(r) ~> \/ \A i \in DOMAIN pts[r] : <<r, i>> \in evals
                     \/ ~Single(r) /\ Wedged /\ worker.job = r

\* An RPC told "duplicate ignored" with success = true, for a second its
\* client chose: some row holds that second, now or later.
DuplicateIsPersisted ==
  \A r \in Request :
    reply[r] = "duplicate" ~>
      \E row \in rows, i \in DOMAIN call[r].items :
        DedupKey(row.pt) = <<call[r].items[i].dev, call[r].items[i].stamp>>

\* The work after a batch insert ends and the worker takes the next job.
WorkerComesBack == worker.pc = "effects" ~> worker.pc = "idle"

-----------------------------------------------------------------------------
(* What callers see of all this. *)

VerdictOf(a) ==
  IF a = "none" THEN "open"
  ELSE IF a = "stored" THEN "stored"
  ELSE IF a \in Refusals THEN "refused" ELSE "failed"

Log == INSTANCE MetricLog WITH
         log <- {[by |-> row.by, key |-> DedupKey(row.pt)] : row \in rows},
         verdict <- [r \in Request |-> VerdictOf(reply[r])],
         excused <- lapsed

\* The handlers, the channel, the worker and the two kinds of insert together
\* implement the log of MetricLog: the points of an RPC appear all at once, a
\* key is written once, and what a caller was told stays true.
ImplementsLog == Log!Spec

-----------------------------------------------------------------------------
(* The inductive invariant behind the safety properties. *)

Inserting(r) == worker.pc = "insert" /\ worker.job = r

\* The RPC may still have its points inserted.
Open(r) ==
  \/ pc[r] = "admit" /\ ~ctxDone[r]
  \/ Queued(r) /\ ~ctxDone[r]
  \/ Inserting(r)

\* The i-th point of the RPC is in the table, or may still get there.
Claims(r, i) ==
  /\ i \in DOMAIN pts[r]
  /\ Open(r) \/ [by |-> r, pt |-> pts[r][i]] \in rows

\* A point on its way to the table holds the dedup key of its second ...
ClaimsAreGuarded ==
  \A r \in Request : \A i \in DOMAIN pts[r] :
    Claims(r, i) => DedupKey(pts[r][i]) \in dedup \cup lapsed

\* ... and holds it alone.
ClaimsAreUnique ==
  \A r, s \in Request : \A i \in DOMAIN pts[r], j \in DOMAIN pts[s] :
    /\ Claims(r, i) /\ Claims(s, j)
    /\ DedupKey(pts[r][i]) = DedupKey(pts[s][j])
    /\ DedupKey(pts[r][i]) \notin lapsed
    => r = s /\ i = j

\* What goes with each stage of a request's life.
Life(r) ==
  /\ pc[r] = "idle" => pts[r] = <<>>
  /\ pc[r] # "done" => reply[r] = "none"
  /\ pc[r] \in {"idle", "admit"} =>
       /\ ~Queued(r) /\ worker.job # r /\ ~Wrote(r)
       /\ done[r] = "empty" /\ post[r] = "none"
  /\ Queued(r) => worker.job # r /\ ~Wrote(r) /\ pts[r] # <<>>
  /\ Inserting(r) => ~Wrote(r)
  /\ worker.job = r => pts[r] # <<>>
  /\ reply[r] \in Refusals => ~Wrote(r) /\ ~Queued(r) /\ worker.job # r

\* A request is in the channel at most once.
QueueDistinct == \A i, j \in DOMAIN queue : queue[i] = queue[j] => i = j

Lifecycle ==
  /\ \A r \in Request : Life(r)
  /\ QueueDistinct
  /\ worker.pc = "idle" <=> worker.job = NoRequest

\* Every row is a point of the request that wrote it.
RowsAreAdmitted ==
  \A row \in rows : \E i \in DOMAIN pts[row.by] : row.pt = pts[row.by][i]

\* The points are in the table from the worker's "nil" on.
NilIsDurable ==
  \A r \in Request :
    \/ done[r] = "nil" \/ reply[r] = "stored" \/ post[r] # "none"
    \/ worker.job = r /\ worker.pc = "effects"
    => Durable(r) /\ pc[r] \in {"await", "done"}

EffectIndex == worker.pc = "effects" => worker.idx \in 1..Len(pts[worker.job])

EvalsInRange ==
  \A e \in evals : e[2] \in DOMAIN pts[e[1]] /\ pc[e[1]] \in {"await", "done"}

Safe ==
  /\ TypeOK /\ Lifecycle /\ RowsAreAdmitted
  /\ ClaimsAreGuarded /\ ClaimsAreUnique
  /\ NilIsDurable /\ EffectIndex /\ EvalsInRange /\ EffectsFollowRows
=============================================================================
