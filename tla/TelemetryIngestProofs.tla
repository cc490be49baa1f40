------------------------ MODULE TelemetryIngestProofs ------------------------
(***************************************************************************)
(* Proofs about TelemetryIngest, for every set of requests, every set of   *)
(* calls, every queue capacity and every combination of faults.            *)
(***************************************************************************)
EXTENDS TelemetryIngest, TLAPS

USE DEF TryMark, Room, PoolRefuses, Tell, LastPoint

-----------------------------------------------------------------------------
(* Lemmas about the operators. *)

\* Truncating an instant to its second gives a second.
LEMMA UnixType ==
  ASSUME NEW t \in Nat PROVE Unix(t) \in Nat
BY SizeAssumption DEF Unix

\* A request's item becomes a well-formed point.
LEMMA PointOfType ==
  ASSUME NEW it \in Item, now \in Nat
  PROVE  PointOf(it) \in Point
<1>1. it.stamp * TicksPerSecond \in Nat
  BY SizeAssumption DEF Item
<1> QED BY <1>1 DEF PointOf, Resolve, Point, Item

\* The dedup key of a point is a key.
LEMMA KeyType ==
  ASSUME NEW p \in Point PROVE DedupKey(p) \in Key
BY UnixType DEF DedupKey, Key, Point

\* Points with the same primary key have the same dedup key.
LEMMA ClashKey ==
  ASSUME NEW p \in Point, NEW q \in Point, Clash(p, q)
  PROVE  DedupKey(p) = DedupKey(q)
BY DEF Clash, DedupKey

LEMMA NowType == TypeOK => now \in Nat
BY SizeAssumption DEF TypeOK

\* The item a handler looks at is one of its call.
LEMMA CurrentType ==
  ASSUME TypeOK, NEW r \in Request, Looking(r)
  PROVE  Current(r) \in Item
<1>1. call[r] \in Calls \cup {NoCall} /\ next[r] \in Nat \ {0}
  BY DEF TypeOK
<1>2. call[r] # NoCall
  BY <1>1 DEF Looking, NoCall
<1>3. call[r].items \in Seq(Item)
  BY <1>1, <1>2, CallsAssumption DEF Call
<1> QED BY <1>1, <1>3 DEF Looking, Current

LEMMA CurrentPoint ==
  ASSUME TypeOK, NEW r \in Request, Looking(r)
  PROVE  /\ PointOf(Current(r)) \in Point
         /\ DedupKey(PointOf(Current(r))) \in Key
BY CurrentType, NowType, PointOfType, KeyType

-----------------------------------------------------------------------------
(* Type correctness. *)

LEMMA NextIndexType ==
  ASSUME TypeOK, NEW r \in Request
  PROVE  [next EXCEPT ![r] = @ + 1] \in [Request -> Nat \ {0}]
<1>1. next \in [Request -> Nat \ {0}] BY DEF TypeOK
<1>2. next[r] + 1 \in Nat \ {0} BY <1>1
<1> QED BY <1>1, <1>2

LEMMA HandlerTypes ==
  ASSUME TypeOK, NEW r \in Request, HandlerStep(r)
  PROVE  TypeOK'
<1>1. ASSUME NEW a \in Replies, Skip(r, a), UNCHANGED <<dedup, lapsed>>
      PROVE  TypeOK'
  <2>1. CASE call[r].kind = "metric"
    <3>1. /\ pc' = [pc EXCEPT ![r] = "done"] /\ reply' = [reply EXCEPT ![r] = a]
          /\ UNCHANGED <<next, call, pts, ctxDone, done, Outside>>
      BY <1>1, <2>1 DEF Skip, Answer
    <3> QED BY <1>1, <3>1 DEF TypeOK, Outside
  <2>2. CASE call[r].kind # "metric"
    <3>1. /\ next' = [next EXCEPT ![r] = @ + 1]
          /\ UNCHANGED <<pc, reply, call, pts, ctxDone, done, Outside>>
      BY <1>1, <2>2 DEF Skip
    <3> QED BY <1>1, <3>1, NextIndexType DEF TypeOK, Outside
  <2> QED BY <2>1, <2>2
<1>2. ASSUME Admit(r), Looking(r), dedup' \subseteq Key, lapsed' \subseteq Key
      PROVE  TypeOK'
  <2> DEFINE p == PointOf(Current(r))
  <2>1. p \in Point BY <1>2, CurrentPoint
  <2> HIDE DEF p
  <2>2. pts' = [pts EXCEPT ![r] = Append(@, p)] BY <1>2 DEF Admit, p
  <2>3. pts' \in [Request -> Seq(Point)] BY <2>1, <2>2 DEF TypeOK
  <2> QED BY <1>2, <2>3, NextIndexType DEF Admit, TypeOK, Outside
<1> USE DEF TypeOK, Outside, handler
<1>3. CASE RejectItem(r)
  BY <1>1, <1>3 DEF RejectItem, Replies, Refusals
<1>4. CASE DuplicateItem(r)
  BY <1>1, <1>4 DEF DuplicateItem, Replies, Refusals
<1>5. CASE MarkItem(r)
  BY <1>2, <1>5, CurrentPoint DEF MarkItem
<1>6. CASE BypassItem(r)
  BY <1>2, <1>6, CurrentPoint DEF BypassItem
<1>7. CASE NothingLeft(r)
  BY <1>7 DEF NothingLeft, Answer, Replies, Refusals
<1>8. CASE Enqueue(r)
  BY <1>8, SizeAssumption DEF Enqueue
<1>9. CASE EnqueueCanceled(r)
  BY <1>9 DEF EnqueueCanceled, Answer, Replies, Refusals
<1>10. CASE EnqueueFull(r)
  BY <1>10 DEF EnqueueFull, Answer, Replies, Refusals
<1>11. CASE AwaitDone(r)
  BY <1>11 DEF AwaitDone, Answer, Replies, FailureStatus
<1>12. CASE AwaitCtx(r)
  BY <1>12 DEF AwaitCtx, Answer, Replies
<1> QED BY <1>3, <1>4, <1>5, <1>6, <1>7, <1>8, <1>9, <1>10, <1>11, <1>12
        DEF HandlerStep

LEMMA WorkerJob ==
  ASSUME TypeOK, Lifecycle, worker.pc # "idle"
  PROVE  worker.job \in Request
BY DEF TypeOK, Lifecycle

WorkerState == [pc : {"idle", "insert", "effects"},
                job : Request \cup {NoRequest}, idx : Nat]

LEMMA IdleWorkerType == IdleWorker \in WorkerState
BY DEF IdleWorker, WorkerState

LEMMA BusyType ==
  ASSUME NEW r \in Request, NEW i \in Nat, NEW stage \in {"insert", "effects"}
  PROVE  Busy(stage, r, i) \in WorkerState
BY DEF Busy, WorkerState

LEMMA CommitType ==
  ASSUME TypeOK, NEW r \in Request, Commit(r), pts[r] # <<>>
  PROVE  rows' \subseteq Row
<1>1. pts[r] \in Seq(Point) BY DEF TypeOK
<1>2. \A p \in PointsOf(r) : [by |-> r, pt |-> p] \in Row
  BY <1>1 DEF PointsOf, Row
<1>3. 1 \in DOMAIN pts[r] BY <1>1
<1> QED BY <1>2, <1>3 DEF Commit, InsertMetric, InsertMetricBatch, PointsOf, TypeOK

LEMMA SetLastSeenType ==
  ASSUME TypeOK, NEW p \in Point
  PROVE  SetLastSeen(p) \in [Device -> Nat]
<1>1. Unix(p.time) \in Nat BY UnixType DEF Point
<1> QED BY <1>1 DEF TypeOK, SetLastSeen

LEMMA WorkerTypes ==
  ASSUME TypeOK, Lifecycle, EffectIndex, WorkerStep
  PROVE  TypeOK'
<1>1. CASE WorkerTake
  <2> DEFINE r == Head(queue)
  <2>1. r \in Request /\ queue' \in Seq(Request) /\ Len(queue') <= QueueCap
    BY <1>1, SizeAssumption DEF WorkerTake, TypeOK
  <2>2. CASE ctxDone[r]
    BY <1>1, <2>1, <2>2 DEF WorkerTake, TypeOK, InsertErrors
  <2>3. CASE ~ctxDone[r]
    <3>1. worker' \in WorkerState
      BY <1>1, <2>1, <2>3, BusyType DEF WorkerTake
    <3> QED BY <1>1, <2>1, <2>3, <3>1 DEF WorkerTake, TypeOK, WorkerState
  <2> QED BY <2>2, <2>3
<1>2. CASE WorkerStored
  <2> DEFINE r == worker.job
  <2>1. r \in Request /\ pts[r] # <<>>
    BY <1>2, WorkerJob DEF WorkerStored, Lifecycle, Life
  <2>2. rows' \subseteq Row
    BY <1>2, <2>1, CommitType DEF WorkerStored
  <2>3. worker' \in WorkerState
    BY <1>2, <2>1, IdleWorkerType, BusyType DEF WorkerStored
  <2>4. post' \in [Request -> {"none", "invalidate", "mark", "late"}]
    BY <1>2, <2>1 DEF WorkerStored, TypeOK
  <2> QED BY <1>2, <2>1, <2>2, <2>3, <2>4 DEF WorkerStored, TypeOK, WorkerState
<1>3. CASE WorkerFailed
  <2> DEFINE r == worker.job
  <2>1. r \in Request /\ pts[r] # <<>>
    BY <1>3, WorkerJob DEF WorkerFailed, Lifecycle, Life
  <2>2. rows' \subseteq Row
    BY <1>3, <2>1, CommitType DEF WorkerFailed, TypeOK
  <2> QED BY <1>3, <2>1, <2>2, IdleWorkerType DEF WorkerFailed, TypeOK, WorkerState
<1>4. CASE WorkerEffect
  <2> DEFINE r == worker.job
             i == worker.idx
  <2>1. r \in Request /\ i \in Nat /\ i \in 1..Len(pts[r])
    BY <1>4, WorkerJob DEF WorkerEffect, TypeOK, EffectIndex
  <2>2. pts[r][i] \in Point BY <2>1 DEF TypeOK
  <2>3. lastSeen' \in [Device -> Nat]
    BY <1>4, <2>2, SetLastSeenType DEF WorkerEffect, TypeOK
  <2>4. evals' \subseteq Request \X Nat
    BY <1>4, <2>1 DEF WorkerEffect, TypeOK
  <2>5. worker' \in WorkerState
    BY <1>4, <2>1, IdleWorkerType, BusyType DEF WorkerEffect
  <2> QED BY <1>4, <2>3, <2>4, <2>5 DEF WorkerEffect, TypeOK, WorkerState, handler
<1> QED BY <1>1, <1>2, <1>3, <1>4 DEF WorkerStep

LEMMA PostTypes ==
  ASSUME TypeOK, NilIsDurable, NEW r \in Request, PostStep(r)
  PROVE  TypeOK'
<1>1. CASE PostInvalidate(r)
  BY <1>1 DEF PostInvalidate, TypeOK, handler
<1>2. CASE PostMark(r)
  <2>1. pts[r] # <<>> /\ pts[r] \in Seq(Point)
    BY <1>2 DEF PostMark, NilIsDurable, Durable, TypeOK
  <2>2. pts[r][1] \in Point BY <2>1
  <2>3. lastSeen' \in [Device -> Nat]
    BY <1>2, <2>2, SetLastSeenType DEF PostMark, TypeOK
  <2> QED BY <1>2, <2>3 DEF PostMark, TypeOK, handler
<1> QED BY <1>1, <1>2 DEF PostStep

LEMMA RestartTypes ==
  ASSUME TypeOK, Restart PROVE TypeOK'
<1>1. queue' \in Seq(Request) /\ Len(queue') <= QueueCap
  BY SizeAssumption DEF Restart
<1>2. ctxDone' \in [Request -> BOOLEAN] BY DEF Restart, TypeOK, Running
<1>3. worker' \in WorkerState BY IdleWorkerType DEF Restart
<1>4. /\ pc' \in [Request -> {"idle", "admit", "await", "done"}]
      /\ reply' \in [Request -> Replies]
  BY DEF Restart, TypeOK, Running, Replies
<1> QED BY <1>1, <1>2, <1>3, <1>4 DEF Restart, TypeOK, NoPost, WorkerState

LEMMA EnvironmentTypes ==
  ASSUME TypeOK, Environment PROVE TypeOK'
<1>1. ASSUME NEW r \in Request, Arrive(r) PROVE TypeOK'
  <2>1. PICK c \in Calls :
          /\ call' = [call EXCEPT ![r] = c]
          /\ IF c.kind = "batch" /\ Len(c.items) \notin 1..MaxBatch
               THEN Answer(r, "invalid")
               ELSE pc' = [pc EXCEPT ![r] = "admit"] /\ UNCHANGED reply
    BY <1>1 DEF Arrive
  <2>2. /\ pc' \in [Request -> {"idle", "admit", "await", "done"}]
        /\ reply' \in [Request -> Replies]
    BY <2>1 DEF Answer, TypeOK, Replies, Refusals
  <2> QED BY <1>1, <2>1, <2>2 DEF Arrive, TypeOK, Outside
<1>2. ASSUME NEW r \in Request, ContextEnds(r) PROVE TypeOK'
  BY <1>2 DEF ContextEnds, TypeOK, handler, Outside
<1>3. ASSUME NEW k \in dedup, Expire(k) PROVE TypeOK'
  BY <1>3 DEF Expire, TypeOK, handler, Outside
<1>4. CASE Tick
  <2>1. now' \in StartTime..MaxTime BY <1>4, SizeAssumption DEF Tick, TypeOK
  <2> QED BY <1>4, <2>1 DEF Tick, TypeOK, handler
<1>5. CASE Resize
  BY <1>5, ModeAssumption DEF Resize, TypeOK, handler
<1>6. CASE Crash
  BY <1>6, RestartTypes DEF Crash
<1>7. CASE Drain
  BY <1>7 DEF Drain, TypeOK, handler
<1>8. CASE Exit
  BY <1>8, RestartTypes DEF Exit
<1> QED BY <1>1, <1>2, <1>3, <1>4, <1>5, <1>6, <1>7, <1>8 DEF Environment

LEMMA InitTypes == Init => TypeOK
<1> SUFFICES ASSUME Init PROVE TypeOK OBVIOUS
<1>1. now \in StartTime..MaxTime BY SizeAssumption DEF Init
<1>2. paged \in BOOLEAN BY ModeAssumption DEF Init
<1>3. queue \in Seq(Request) /\ Len(queue) <= QueueCap BY SizeAssumption DEF Init
<1>4. worker \in WorkerState BY IdleWorkerType DEF Init
<1>5. pts \in [Request -> Seq(Point)] BY DEF Init
<1>6. /\ pc \in [Request -> {"idle", "admit", "await", "done"}]
      /\ call \in [Request -> Calls \cup {NoCall}]
      /\ next \in [Request -> Nat \ {0}]
      /\ reply \in [Request -> Replies]
      /\ ctxDone \in [Request -> BOOLEAN]
      /\ done \in [Request -> {"empty", "nil"} \cup InsertErrors]
  BY DEF Init, Replies
<1>7. /\ rows \subseteq Row /\ dedup \subseteq Key /\ lapsed \subseteq Key
      /\ post \in [Request -> {"none", "invalidate", "mark", "late"}]
      /\ lastSeen \in [Device -> Nat]
      /\ evals \subseteq Request \X Nat
      /\ draining \in BOOLEAN
  BY DEF Init, NoPost
<1> QED BY <1>1, <1>2, <1>3, <1>4, <1>5, <1>6, <1>7 DEF TypeOK, WorkerState

LEMMA NextTypes ==
  ASSUME TypeOK, Lifecycle, EffectIndex, NilIsDurable, [Next]_vars
  PROVE  TypeOK'
<1>1. CASE UNCHANGED vars
  BY <1>1 DEF TypeOK, vars
<1>2. CASE Quiesced
  BY <1>1, <1>2 DEF Quiesced
<1> QED BY <1>1, <1>2, HandlerTypes, WorkerTypes, PostTypes, EnvironmentTypes DEF Next

-----------------------------------------------------------------------------
(* The life of a request. *)

LEMMA AppendQueued ==
  ASSUME TypeOK, NEW r \in Request, queue' = Append(queue, r)
  PROVE  /\ \A s \in Request : Queued(s)' <=> Queued(s) \/ s = r
         /\ QueueDistinct /\ ~Queued(r) => QueueDistinct'
<1>1. queue \in Seq(Request) BY DEF TypeOK
<1>2. /\ DOMAIN queue' = 1..(Len(queue) + 1) /\ DOMAIN queue = 1..Len(queue)
      /\ \A i \in DOMAIN queue : queue'[i] = queue[i]
      /\ queue'[Len(queue) + 1] = r
  BY <1>1
<1>3. Len(queue) \in Nat BY <1>1
<1>4. \A s \in Request : Queued(s)' <=> Queued(s) \/ s = r
  BY <1>2, <1>3 DEF Queued
<1>5. QueueDistinct /\ ~Queued(r) => QueueDistinct'
  BY <1>2, <1>3 DEF Queued, QueueDistinct
<1> QED BY <1>4, <1>5

LEMMA TailQueued ==
  ASSUME TypeOK, QueueDistinct, queue # <<>>, queue' = Tail(queue)
  PROVE  /\ Head(queue) \in Request /\ Queued(Head(queue))
         /\ \A s \in Request : Queued(s)' <=> Queued(s) /\ s # Head(queue)
         /\ QueueDistinct'
<1>1. queue \in Seq(Request) BY DEF TypeOK
<1>2. /\ DOMAIN queue = 1..Len(queue) /\ DOMAIN queue' = 1..(Len(queue) - 1)
      /\ \A i \in DOMAIN queue' : queue'[i] = queue[i + 1]
      /\ Head(queue) = queue[1] /\ Len(queue) \in Nat \ {0}
  BY <1>1
<1>3. Head(queue) \in Request /\ Queued(Head(queue)) BY <1>1, <1>2 DEF Queued
<1>4. ASSUME NEW s \in Request
      PROVE  Queued(s)' <=> Queued(s) /\ s # Head(queue)
  <2>1. ASSUME Queued(s)' PROVE Queued(s) /\ s # Head(queue)
    <3>1. PICK i \in DOMAIN queue' : queue'[i] = s BY <2>1 DEF Queued
    <3>2. i + 1 \in DOMAIN queue /\ queue[i + 1] = s /\ i + 1 # 1 /\ 1 \in DOMAIN queue
      BY <3>1, <1>2
    <3> QED BY <3>2, <1>2 DEF Queued, QueueDistinct
  <2>2. ASSUME Queued(s), s # Head(queue) PROVE Queued(s)'
    <3>1. PICK i \in DOMAIN queue : queue[i] = s BY <2>2 DEF Queued
    <3>2. i # 1 BY <3>1, <2>2, <1>2
    <3>3. i - 1 \in DOMAIN queue' /\ queue'[i - 1] = s BY <3>1, <3>2, <1>2
    <3> QED BY <3>3 DEF Queued
  <2> QED BY <2>1, <2>2
<1>5. QueueDistinct'
  <2> SUFFICES ASSUME NEW i \in DOMAIN queue', NEW j \in DOMAIN queue',
                      queue'[i] = queue'[j]
               PROVE  i = j
    BY DEF QueueDistinct
  <2>1. /\ i + 1 \in DOMAIN queue /\ j + 1 \in DOMAIN queue
        /\ queue[i + 1] = queue[j + 1]
    BY <1>2
  <2>2. i + 1 = j + 1 BY <2>1 DEF QueueDistinct
  <2> QED BY <2>2, <1>2
<1> QED BY <1>3, <1>4, <1>5

\* An insert adds rows of its own request only.
LEMMA CommitRows ==
  ASSUME TypeOK, NEW r \in Request, Commit(r), pts[r] # <<>>
  PROVE  /\ rows \subseteq rows'
         /\ \A row \in rows' : row \in rows \/ (row.by = r /\ row.pt \in PointsOf(r))
         /\ \A s \in Request : s # r => (Wrote(s)' <=> Wrote(s))
<1>1. pts[r] \in Seq(Point) /\ 1 \in DOMAIN pts[r] BY DEF TypeOK
<1>2. /\ rows \subseteq rows'
      /\ \A row \in rows' : row \in rows \/ (row.by = r /\ row.pt \in PointsOf(r))
  BY <1>1 DEF Commit, InsertMetric, InsertMetricBatch, PointsOf
<1> QED BY <1>2 DEF Wrote

LEMMA LifeFrame ==
  ASSUME NEW s \in Request, Life(s),
         pc'[s] = pc[s], pts'[s] = pts[s], reply'[s] = reply[s],
         done'[s] = done[s], post'[s] = post[s],
         Queued(s)' <=> Queued(s), Wrote(s)' <=> Wrote(s), UNCHANGED worker
  PROVE  Life(s)'
BY DEF Life, Inserting

\* A handler that returns without sending its job leaves nothing behind.
LEMMA AnswerLife ==
  ASSUME TypeOK, Lifecycle, NEW r \in Request, pc[r] \in {"admit", "await"},
         NEW a \in Replies, Answer(r, a),
         pc[r] = "await" => a \notin Refusals,
         \A s \in Request : s # r => done'[s] = done[s],
         UNCHANGED <<pts, post, queue, worker, rows>>
  PROVE  Lifecycle'
<1>1. UNCHANGED QueueDistinct BY DEF QueueDistinct
<1>2. \A s \in Request : (Queued(s)' <=> Queued(s)) /\ (Wrote(s)' <=> Wrote(s))
  BY DEF Queued, Wrote
<1>3. ASSUME NEW s \in Request, s # r PROVE Life(s)'
  <2>1. pc'[s] = pc[s] /\ reply'[s] = reply[s] BY <1>3 DEF Answer, TypeOK
  <2> QED BY <1>2, <1>3, <2>1, LifeFrame DEF Lifecycle
<1>4. Life(r)'
  <2>1. pc'[r] = "done" /\ reply'[r] = a BY DEF Answer, TypeOK
  <2>2. Life(r) BY DEF Lifecycle
  <2> QED BY <1>2, <2>1, <2>2 DEF Life, Inserting
<1> QED BY <1>1, <1>3, <1>4 DEF Lifecycle

LEMMA HandlerLife ==
  ASSUME TypeOK, Lifecycle, NEW r \in Request, HandlerStep(r)
  PROVE  Lifecycle'
<1>1. ASSUME NEW a \in Refusals, Skip(r, a), Looking(r)
      PROVE  Lifecycle'
  <2>1. CASE call[r].kind = "metric"
    <3>1. Answer(r, a) /\ UNCHANGED <<pts, done, post, queue, worker, rows>>
      BY <1>1, <2>1 DEF Skip, Outside
    <3> QED BY <1>1, <3>1, AnswerLife DEF Looking, Replies
  <2>2. CASE call[r].kind # "metric"
    <3>1. UNCHANGED <<pc, reply, pts, done, post, queue, worker, rows>>
      BY <1>1, <2>2 DEF Skip, Outside
    <3> QED BY <3>1, LifeFrame DEF Lifecycle, QueueDistinct, Queued, Wrote
  <2> QED BY <2>1, <2>2
<1>2. ASSUME Admit(r), Looking(r) PROVE Lifecycle'
  <2>1. UNCHANGED <<pc, reply, done, post, queue, worker, rows>>
    BY <1>2 DEF Admit, Outside
  <2>2. \A s \in Request : (Queued(s)' <=> Queued(s)) /\ (Wrote(s)' <=> Wrote(s))
    BY <2>1 DEF Queued, Wrote
  <2>3. ASSUME NEW s \in Request, s # r PROVE Life(s)'
    <3>1. pts'[s] = pts[s] BY <1>2, <2>3 DEF Admit, TypeOK
    <3> QED BY <2>1, <2>2, <3>1, LifeFrame DEF Lifecycle
  <2>4. Life(r)'
    BY <1>2, <2>1, <2>2 DEF Lifecycle, Life, Inserting, Looking
  <2> QED BY <2>1, <2>3, <2>4 DEF Lifecycle, QueueDistinct
<1>3. CASE RejectItem(r)
  BY <1>1, <1>3 DEF RejectItem, Refusals
<1>4. CASE DuplicateItem(r)
  BY <1>1, <1>4 DEF DuplicateItem, Refusals
<1>5. CASE MarkItem(r)
  BY <1>2, <1>5 DEF MarkItem
<1>6. CASE BypassItem(r)
  BY <1>2, <1>6 DEF BypassItem
<1>7. CASE NothingLeft(r)
  BY <1>7, AnswerLife DEF NothingLeft, Looked, Outside, Replies, Refusals
<1>8. CASE Enqueue(r)
  <2>1. /\ pc[r] = "admit" /\ pc' = [pc EXCEPT ![r] = "await"] /\ pts[r] # <<>>
        /\ queue' = Append(queue, r)
        /\ UNCHANGED <<reply, pts, done, post, worker, rows>>
    BY <1>8 DEF Enqueue, Looked, handler
  <2>2. \A s \in Request : Wrote(s)' <=> Wrote(s) BY <2>1 DEF Wrote
  <2>3. ASSUME NEW s \in Request, s # r PROVE Life(s)'
    <3>1. pc'[s] = pc[s] BY <2>1, <2>3 DEF TypeOK
    <3>2. Queued(s)' <=> Queued(s) BY <2>1, <2>3, AppendQueued
    <3> QED BY <2>1, <2>2, <3>1, <3>2, LifeFrame DEF Lifecycle
  <2>4. Life(r)'
    <3>1. pc'[r] = "await" BY <2>1 DEF TypeOK
    <3>2. Life(r) BY DEF Lifecycle
    <3> QED BY <2>1, <2>2, <3>1, <3>2 DEF Life, Inserting, Refusals
  <2>5. QueueDistinct'
    BY <2>1, AppendQueued DEF Lifecycle, Life
  <2> QED BY <2>1, <2>3, <2>4, <2>5 DEF Lifecycle
<1>9. CASE EnqueueCanceled(r)
  BY <1>9, AnswerLife DEF EnqueueCanceled, Looked, Outside, Replies, Refusals
<1>10. CASE EnqueueFull(r)
  BY <1>10, AnswerLife DEF EnqueueFull, Looked, Outside, Replies, Refusals
<1>11. CASE AwaitDone(r)
  <2> DEFINE a == IF done[r] = "nil" THEN "stored" ELSE FailureStatus(done[r])
  <2>1. a \in Replies /\ a \notin Refusals
    BY DEF FailureStatus, Replies, Refusals
  <2>2. \A s \in Request : s # r => done'[s] = done[s]
    BY <1>11 DEF AwaitDone, TypeOK
  <2>3. /\ pc[r] = "await" /\ Answer(r, a)
        /\ UNCHANGED <<pts, post, queue, worker, rows>>
    BY <1>11 DEF AwaitDone, Outside
  <2> HIDE DEF a
  <2> QED BY <2>1, <2>2, <2>3, AnswerLife
<1>12. CASE AwaitCtx(r)
  BY <1>12, AnswerLife DEF AwaitCtx, Outside, Replies, Refusals
<1> QED BY <1>3, <1>4, <1>5, <1>6, <1>7, <1>8, <1>9, <1>10, <1>11, <1>12
        DEF HandlerStep

LEMMA WorkerLife ==
  ASSUME TypeOK, Lifecycle, EffectIndex, WorkerStep
  PROVE  Lifecycle'
<1>1. CASE WorkerTake
  <2>0. PICK r \in Request : r = Head(queue)
    BY <1>1, TailQueued DEF WorkerTake, Lifecycle
  <2>1. /\ worker.pc = "idle" /\ worker.job = NoRequest
        /\ queue # <<>> /\ queue' = Tail(queue)
        /\ UNCHANGED <<pc, pts, reply, rows, post>>
    BY <1>1 DEF WorkerTake, Lifecycle
  <2>2. /\ r \in Request /\ Queued(r) /\ QueueDistinct'
        /\ \A s \in Request : Queued(s)' <=> Queued(s) /\ s # r
    BY <2>0, <2>1, TailQueued DEF Lifecycle
  <2>3. \A s \in Request : Wrote(s)' <=> Wrote(s) BY <2>1 DEF Wrote
  <2>4. /\ worker' = worker \/ worker' = Busy("insert", r, 1)
        /\ \A s \in Request : s # r => done'[s] = done[s]
    BY <1>1, <2>0 DEF WorkerTake, TypeOK
  <2>5. ASSUME NEW s \in Request, s # r PROVE Life(s)'
    <3>1. worker'.job # s BY <2>1, <2>4, <2>5, RequestAssumption DEF Busy
    <3>2. Life(s) BY DEF Lifecycle
    <3> QED BY <2>1, <2>2, <2>3, <2>4, <2>5, <3>1, <3>2 DEF Life, Inserting
  <2>6. Life(r)'
    <3>1. Life(r) BY <2>2 DEF Lifecycle
    <3>2. pc[r] \notin {"idle", "admit"} /\ ~Wrote(r) /\ pts[r] # <<>>
            /\ reply[r] \notin Refusals
      BY <2>2, <3>1 DEF Life
    <3> QED BY <2>1, <2>2, <2>3, <3>1, <3>2 DEF Life, Inserting
  <2>7. worker'.pc = "idle" <=> worker'.job = NoRequest
    BY <2>1, <2>2, <2>4, RequestAssumption DEF Busy
  <2> QED BY <2>2, <2>5, <2>6, <2>7 DEF Lifecycle
<1>2. ASSUME worker.pc = "insert", UNCHANGED <<pc, pts, reply, queue>>,
             UNCHANGED rows \/ Commit(worker.job),
             worker' \in {IdleWorker, Busy("effects", worker.job, 1)},
             \A s \in Request : s # worker.job => done'[s] = done[s] /\ post'[s] = post[s]
      PROVE  Lifecycle'
  <2>0. PICK r \in Request : r = worker.job BY <1>2, WorkerJob
  <2>1. r = worker.job /\ Life(r) BY <2>0 DEF Lifecycle
  <2>2. pc[r] \notin {"idle", "admit"} /\ pts[r] # <<>> /\ ~Queued(r)
          /\ reply[r] \notin Refusals
    BY <2>1 DEF Life
  <2>3. \A s \in Request : s # r => (Wrote(s)' <=> Wrote(s))
    BY <1>2, <2>1, <2>2, CommitRows DEF Wrote
  <2>4. \A s \in Request : Queued(s)' <=> Queued(s) BY <1>2 DEF Queued
  <2>5. /\ worker'.pc # "insert" /\ worker'.job \in {NoRequest, r}
        /\ worker'.pc = "idle" <=> worker'.job = NoRequest
    BY <1>2, <2>1, RequestAssumption DEF IdleWorker, Busy
  <2>6. ASSUME NEW s \in Request, s # r PROVE Life(s)'
    <3>1. Life(s) /\ worker'.job # s BY <2>5, <2>6, RequestAssumption DEF Lifecycle
    <3> QED BY <1>2, <2>1, <2>3, <2>4, <2>5, <2>6, <3>1 DEF Life, Inserting
  <2>7. Life(r)'
    BY <1>2, <2>1, <2>2, <2>4, <2>5 DEF Life, Inserting
  <2> QED BY <1>2, <2>1, <2>5, <2>6, <2>7 DEF Lifecycle, QueueDistinct
<1>3. CASE WorkerStored
  <2>1. worker.job \in Request BY <1>3, WorkerJob DEF WorkerStored
  <2> QED BY <1>2, <1>3, <2>1 DEF WorkerStored, TypeOK
<1>4. CASE WorkerFailed
  <2>1. worker.job \in Request BY <1>4, WorkerJob DEF WorkerFailed
  <2> QED BY <1>2, <1>4, <2>1 DEF WorkerFailed, TypeOK
<1>5. CASE WorkerEffect
  <2> DEFINE r == worker.job
  <2>1. r \in Request BY <1>5, WorkerJob DEF WorkerEffect
  <2>2. /\ UNCHANGED <<pc, pts, reply, done, post, queue, rows>>
        /\ worker.pc = "effects"
        /\ worker' \in {IdleWorker, Busy("effects", r, worker.idx + 1)}
    BY <1>5 DEF WorkerEffect, handler
  <2>3. /\ worker'.pc # "insert" /\ worker'.job \in {NoRequest, r}
        /\ worker'.pc = "idle" <=> worker'.job = NoRequest
    BY <2>1, <2>2, RequestAssumption DEF IdleWorker, Busy
  <2>4. \A s \in Request : (Queued(s)' <=> Queued(s)) /\ (Wrote(s)' <=> Wrote(s))
    BY <2>2 DEF Queued, Wrote
  <2>5. ASSUME NEW s \in Request PROVE Life(s)'
    <3>1. Life(s) /\ (worker'.job = s => worker.job = s)
      BY <2>3, RequestAssumption DEF Lifecycle
    <3> QED BY <2>2, <2>3, <2>4, <3>1 DEF Life, Inserting
  <2> QED BY <2>2, <2>3, <2>5 DEF Lifecycle, QueueDistinct
<1> QED BY <1>1, <1>3, <1>4, <1>5 DEF WorkerStep

LEMMA LifecycleFrame ==
  ASSUME Lifecycle, UNCHANGED <<pc, pts, reply, done, post, queue, worker, rows>>
  PROVE  Lifecycle'
BY LifeFrame DEF Lifecycle, QueueDistinct, Queued, Wrote

LEMMA PostLife ==
  ASSUME TypeOK, Lifecycle, NilIsDurable, NEW r \in Request, PostStep(r)
  PROVE  Lifecycle'
<1>1. /\ UNCHANGED <<pc, pts, reply, done, queue, worker, rows>>
      /\ post[r] # "none"
      /\ \A s \in Request : s # r => post'[s] = post[s]
  BY DEF PostStep, PostInvalidate, PostMark, handler, TypeOK
<1>2. \A s \in Request : (Queued(s)' <=> Queued(s)) /\ (Wrote(s)' <=> Wrote(s))
  BY <1>1 DEF Queued, Wrote
<1>3. \A s \in Request : s # r => Life(s)'
  BY <1>1, <1>2, LifeFrame DEF Lifecycle
<1>4. Life(r)'
  BY <1>1, <1>2 DEF Lifecycle, Life, Inserting
<1> QED BY <1>1, <1>3, <1>4 DEF Lifecycle, QueueDistinct

LEMMA RestartLife ==
  ASSUME TypeOK, Lifecycle, Restart PROVE Lifecycle'
<1>1. \A s \in Request : ~Queued(s)' /\ (Wrote(s)' <=> Wrote(s))
  BY DEF Restart, Queued, Wrote
<1>2. worker'.pc = "idle" /\ worker'.job = NoRequest BY DEF Restart, IdleWorker
<1>3. ASSUME NEW s \in Request PROVE Life(s)'
  <2>1. Life(s) BY DEF Lifecycle
  <2>2. /\ pts'[s] = pts[s] /\ done'[s] = "empty" /\ post'[s] = "none"
        /\ pc'[s] = IF Running(s) THEN "done" ELSE pc[s]
        /\ reply'[s] = IF Running(s) THEN "unavailable" ELSE reply[s]
    BY DEF Restart, NoPost
  <2>3. worker'.job # s BY <1>2, RequestAssumption
  <2> QED BY <1>1, <1>2, <2>1, <2>2, <2>3 DEF Life, Inserting, Running, Refusals
<1>4. QueueDistinct' BY DEF QueueDistinct, Restart
<1> QED BY <1>2, <1>3, <1>4 DEF Lifecycle

LEMMA EnvironmentLife ==
  ASSUME TypeOK, Lifecycle, Environment PROVE Lifecycle'
<1>1. ASSUME NEW r \in Request, Arrive(r) PROVE Lifecycle'
  <2>1. /\ pc[r] = "idle"
        /\ \/ pc' = [pc EXCEPT ![r] = "admit"] /\ UNCHANGED reply
           \/ pc' = [pc EXCEPT ![r] = "done"] /\ reply' = [reply EXCEPT ![r] = "invalid"]
        /\ UNCHANGED <<pts, done, post, queue, worker, rows>>
    BY <1>1 DEF Arrive, Answer, Outside
  <2>2. \A s \in Request : (Queued(s)' <=> Queued(s)) /\ (Wrote(s)' <=> Wrote(s))
    BY <2>1 DEF Queued, Wrote
  <2>3. ASSUME NEW s \in Request, s # r PROVE Life(s)'
    <3>1. pc'[s] = pc[s] /\ reply'[s] = reply[s] BY <2>1, <2>3 DEF TypeOK
    <3> QED BY <2>1, <2>2, <3>1, LifeFrame DEF Lifecycle
  <2>4. Life(r)'
    <3>1. Life(r) BY DEF Lifecycle
    <3>2. \/ pc'[r] = "admit" /\ reply'[r] = reply[r]
          \/ pc'[r] = "done" /\ reply'[r] = "invalid"
      BY <2>1 DEF TypeOK
    <3> QED BY <2>1, <2>2, <3>1, <3>2 DEF Life, Inserting
  <2> QED BY <2>1, <2>3, <2>4 DEF Lifecycle, QueueDistinct
<1>2. ASSUME NEW r \in Request, ContextEnds(r) PROVE Lifecycle'
  BY <1>2, LifecycleFrame DEF ContextEnds, handler, Outside
<1>3. ASSUME NEW k \in dedup, Expire(k) PROVE Lifecycle'
  BY <1>3, LifecycleFrame DEF Expire, handler, Outside
<1>4. CASE Tick BY <1>4, LifecycleFrame DEF Tick, handler
<1>5. CASE Resize BY <1>5, LifecycleFrame DEF Resize, handler
<1>6. CASE Crash BY <1>6, RestartLife DEF Crash
<1>7. CASE Drain BY <1>7, LifecycleFrame DEF Drain, handler
<1>8. CASE Exit BY <1>8, RestartLife DEF Exit
<1> QED BY <1>1, <1>2, <1>3, <1>4, <1>5, <1>6, <1>7, <1>8 DEF Environment

LEMMA NextLife ==
  ASSUME TypeOK, Lifecycle, EffectIndex, NilIsDurable, [Next]_vars
  PROVE  Lifecycle'
<1>1. CASE UNCHANGED vars
  BY <1>1, LifecycleFrame DEF vars
<1>2. CASE Quiesced
  BY <1>1, <1>2 DEF Quiesced
<1> QED BY <1>1, <1>2, HandlerLife, WorkerLife, PostLife, EnvironmentLife DEF Next

-----------------------------------------------------------------------------
(* What no step undoes. *)

\* Rows and lapsed keys are kept, the points of a request are settled once it
\* has left the admission loop, it never goes back, and contexts stay done.
Settled(s) ==
  /\ pc[s] # "admit" => pts'[s] = pts[s]
  /\ pc[s] \in {"await", "done"} => pc'[s] \in {"await", "done"}
  /\ ctxDone[s] => ctxDone'[s]

Monotone ==
  /\ rows \subseteq rows' /\ lapsed \subseteq lapsed'
  /\ dedup \cup lapsed \subseteq dedup' \cup lapsed'
  /\ \A s \in Request : Settled(s)

LEMMA MonotoneFrame ==
  ASSUME TypeOK, UNCHANGED <<pc, pts, ctxDone, dedup, lapsed>>, rows \subseteq rows'
  PROVE  Monotone
BY DEF Monotone, Settled

LEMMA HandlerMonotone ==
  ASSUME TypeOK, NEW r \in Request, HandlerStep(r)
  PROVE  Monotone
<1>1. UNCHANGED <<rows, ctxDone>>
  BY DEF HandlerStep, RejectItem, DuplicateItem, MarkItem, BypassItem, Skip, Admit,
         NothingLeft, Enqueue, EnqueueCanceled, EnqueueFull, AwaitDone, AwaitCtx, Outside
<1>2. \A s \in Request : pc'[s] = pc[s] \/ pc'[s] \in {"await", "done"}
  BY DEF HandlerStep, RejectItem, DuplicateItem, MarkItem, BypassItem, Skip, Admit, Answer,
         NothingLeft, Enqueue, EnqueueCanceled, EnqueueFull, AwaitDone, AwaitCtx, TypeOK
<1>3. \A s \in Request : pts'[s] = pts[s] \/ pc[s] = "admit"
  BY DEF HandlerStep, RejectItem, DuplicateItem, MarkItem, BypassItem, Skip, Admit, Looking,
         NothingLeft, Enqueue, EnqueueCanceled, EnqueueFull, AwaitDone, AwaitCtx, handler,
         TypeOK
<1>4. dedup \subseteq dedup' /\ lapsed \subseteq lapsed'
  BY DEF HandlerStep, RejectItem, DuplicateItem, MarkItem, BypassItem,
         NothingLeft, Enqueue, EnqueueCanceled, EnqueueFull, AwaitDone, AwaitCtx
<1> QED BY <1>1, <1>2, <1>3, <1>4 DEF Monotone, Settled

LEMMA WorkerMonotone ==
  ASSUME TypeOK, Lifecycle, WorkerStep PROVE Monotone
<1>1. UNCHANGED <<pc, pts, ctxDone, dedup, lapsed>>
  BY DEF WorkerStep, WorkerTake, WorkerStored, WorkerFailed, WorkerEffect, handler
<1>2. rows \subseteq rows'
  <2>1. CASE worker.pc = "insert"
    <3>1. worker.job \in Request /\ pts[worker.job] # <<>>
      BY <2>1, WorkerJob DEF Lifecycle, Life
    <3> QED BY <2>1, <3>1, CommitRows
            DEF WorkerStep, WorkerTake, WorkerStored, WorkerFailed, WorkerEffect
  <2>2. CASE worker.pc # "insert"
    BY <2>2 DEF WorkerStep, WorkerTake, WorkerStored, WorkerFailed, WorkerEffect
  <2> QED BY <2>1, <2>2
<1> QED BY <1>1, <1>2, MonotoneFrame

LEMMA EnvironmentMonotone ==
  ASSUME TypeOK, Environment PROVE Monotone
<1>1. ASSUME NEW r \in Request, Arrive(r) PROVE Monotone
  <2>1. /\ pc[r] = "idle" /\ \A s \in Request : s # r => pc'[s] = pc[s]
        /\ UNCHANGED <<pts, ctxDone, dedup, lapsed, rows>>
    BY <1>1 DEF Arrive, Answer, Outside, TypeOK
  <2> QED BY <2>1 DEF Monotone, Settled
<1>2. ASSUME NEW r \in Request, ContextEnds(r) PROVE Monotone
  <2>1. /\ \A s \in Request : ctxDone[s] => ctxDone'[s]
        /\ UNCHANGED <<pc, pts, dedup, lapsed, rows>>
    BY <1>2 DEF ContextEnds, handler, Outside, TypeOK
  <2> QED BY <2>1 DEF Monotone, Settled
<1>3. ASSUME NEW k \in dedup, Expire(k) PROVE Monotone
  BY <1>3 DEF Expire, handler, Outside, Monotone, Settled
<1>4. CASE Tick BY <1>4, MonotoneFrame DEF Tick, handler
<1>5. CASE Resize BY <1>5, MonotoneFrame DEF Resize, handler
<1>6. ASSUME Restart PROVE Monotone
  <2>1. \A s \in Request : /\ pc'[s] = IF Running(s) THEN "done" ELSE pc[s]
                           /\ ctxDone[s] => ctxDone'[s]
    BY <1>6 DEF Restart, TypeOK
  <2> QED BY <1>6, <2>1 DEF Restart, Monotone, Settled, Running
<1>7. CASE Drain BY <1>7, MonotoneFrame DEF Drain, handler
<1> QED BY <1>1, <1>2, <1>3, <1>4, <1>5, <1>6, <1>7 DEF Environment, Crash, Exit

LEMMA NextMonotone ==
  ASSUME TypeOK, Lifecycle, [Next]_vars PROVE Monotone
<1>1. CASE UNCHANGED vars
  BY <1>1, MonotoneFrame DEF vars
<1>2. CASE Quiesced
  BY <1>1, <1>2 DEF Quiesced
<1>3. ASSUME NEW r \in Request, PostStep(r) PROVE Monotone
  BY <1>3, MonotoneFrame DEF PostStep, PostInvalidate, PostMark, handler
<1> QED BY <1>1, <1>2, <1>3, HandlerMonotone, WorkerMonotone, EnvironmentMonotone DEF Next

-----------------------------------------------------------------------------
(* Claims: only admission makes one, and it takes the key first. *)

\* Every step but an admission leaves no claim that was not there.
NoNewClaim ==
  \A s \in Request : \A i \in DOMAIN pts'[s] :
    Claims(s, i)' => Claims(s, i) /\ pts'[s][i] = pts[s][i]

LEMMA ClaimsFrame ==
  ASSUME ClaimsAreGuarded, ClaimsAreUnique, Monotone, NoNewClaim
  PROVE  ClaimsAreGuarded' /\ ClaimsAreUnique'
<1>1. ClaimsAreGuarded'
  <2> SUFFICES ASSUME NEW s \in Request, NEW i \in DOMAIN pts'[s], Claims(s, i)'
               PROVE  DedupKey(pts[s][i])' \in dedup' \cup lapsed'
    BY DEF ClaimsAreGuarded
  <2>1. Claims(s, i) /\ pts'[s][i] = pts[s][i] BY DEF NoNewClaim
  <2>2. DedupKey(pts[s][i]) \in dedup \cup lapsed
    BY <2>1 DEF ClaimsAreGuarded, Claims
  <2>3. DedupKey(pts[s][i])' = DedupKey(pts[s][i]) BY <2>1 DEF DedupKey, Unix
  <2> QED BY <2>2, <2>3 DEF Monotone
<1>2. ClaimsAreUnique'
  <2> SUFFICES ASSUME NEW r \in Request, NEW s \in Request,
                      NEW i \in DOMAIN pts'[r], NEW j \in DOMAIN pts'[s],
                      Claims(r, i)', Claims(s, j)',
                      DedupKey(pts[r][i])' = DedupKey(pts[s][j])',
                      DedupKey(pts[r][i])' \notin lapsed'
               PROVE  r = s /\ i = j
    BY DEF ClaimsAreUnique
  <2>1. /\ Claims(r, i) /\ pts'[r][i] = pts[r][i]
        /\ Claims(s, j) /\ pts'[s][j] = pts[s][j]
    BY DEF NoNewClaim
  <2>2. /\ DedupKey(pts[r][i])' = DedupKey(pts[r][i])
        /\ DedupKey(pts[s][j])' = DedupKey(pts[s][j])
    BY <2>1 DEF DedupKey, Unix
  <2> QED BY <2>1, <2>2 DEF ClaimsAreUnique, Claims, Monotone
<1> QED BY <1>1, <1>2

\* Nothing is claimed anew when no request opens and no row appears.
LEMMA OpenFrame ==
  ASSUME UNCHANGED <<pts, rows>>, \A s \in Request : Open(s)' => Open(s)
  PROVE  NoNewClaim
BY DEF NoNewClaim, Claims

\* Every row is the claim of one point of its writer.
LEMMA RowPoint ==
  ASSUME RowsAreAdmitted, TypeOK, NEW row \in rows
  PROVE  /\ row.by \in Request
         /\ \E i \in DOMAIN pts[row.by] : row.pt = pts[row.by][i] /\ Claims(row.by, i)
<1>1. PICK i \in DOMAIN pts[row.by] : row.pt = pts[row.by][i] BY DEF RowsAreAdmitted
<1>2. row = [by |-> row.by, pt |-> row.pt] /\ row.by \in Request BY DEF TypeOK, Row
<1> QED BY <1>1, <1>2 DEF Claims

LEMMA AdmissionClaims ==
  ASSUME TypeOK, Lifecycle, ClaimsAreGuarded, ClaimsAreUnique,
         NEW r \in Request, MarkItem(r) \/ BypassItem(r)
  PROVE  ClaimsAreGuarded' /\ ClaimsAreUnique'
<1> DEFINE p == PointOf(Current(r))
           k == DedupKey(p)
           n == Len(pts[r]) + 1
<1>1. /\ Looking(r) /\ Admit(r)
      /\ dedup \subseteq dedup' /\ lapsed \subseteq lapsed'
      /\ ~ctxDone[r] => \/ k \in dedup' \ dedup /\ lapsed' = lapsed
                        \/ k \in lapsed'
  BY DEF MarkItem, BypassItem
<1>2. p \in Point BY <1>1, CurrentPoint
<1>3. UNCHANGED <<pc, ctxDone, queue, worker, rows>> BY <1>1 DEF Admit, Outside
<1> HIDE DEF p
<1>4. /\ \A s \in Request : s # r => pts'[s] = pts[s]
      /\ DOMAIN pts'[r] = 1..n /\ DOMAIN pts[r] = 1..Len(pts[r]) /\ Len(pts[r]) \in Nat
      /\ \A i \in DOMAIN pts[r] : pts'[r][i] = pts[r][i]
      /\ pts'[r][n] = p
  BY <1>1, <1>2 DEF Admit, TypeOK, p
<1>5. \A s \in Request : Open(s)' <=> Open(s)
  BY <1>3 DEF Open, Queued, Inserting
<1>6. pc[r] = "admit" /\ ~Queued(r) /\ ~Inserting(r) /\ ~Wrote(r)
  BY <1>1 DEF Looking, Lifecycle, Life, Inserting
\* A claim after the step is an old one or the new point of r, whose context
\* is not done.
<1>7. ASSUME NEW s \in Request, NEW i \in DOMAIN pts'[s], Claims(s, i)'
      PROVE  \/ Claims(s, i) /\ pts'[s][i] = pts[s][i] /\ i \in DOMAIN pts[s]
             \/ s = r /\ i = n /\ ~ctxDone[r] /\ pts'[s][i] = p
  <2>1. CASE s # r
    BY <1>3, <1>4, <1>5, <1>7, <2>1 DEF Claims
  <2>2. CASE s = r
    <3>1. ~ctxDone[r] /\ Open(r)
      BY <1>3, <1>5, <1>6, <1>7, <2>2 DEF Claims, Open, Wrote
    <3>2. i \in DOMAIN pts[r] \/ i = n BY <1>4, <1>7, <2>2
    <3> QED BY <1>4, <2>2, <3>1, <3>2 DEF Claims
  <2> QED BY <2>1, <2>2
<1>8. \A x : DedupKey(x)' = DedupKey(x) BY DEF DedupKey, Unix
<1>9. ClaimsAreGuarded'
  <2> SUFFICES ASSUME NEW s \in Request, NEW i \in DOMAIN pts'[s], Claims(s, i)'
               PROVE  DedupKey(pts'[s][i]) \in dedup' \cup lapsed'
    BY DEF ClaimsAreGuarded, DedupKey, Unix
  <2> QED BY <1>1, <1>7 DEF ClaimsAreGuarded
<1>10. ClaimsAreUnique'
  <2> SUFFICES ASSUME NEW q \in Request, NEW s \in Request,
                      NEW i \in DOMAIN pts'[q], NEW j \in DOMAIN pts'[s],
                      Claims(q, i)', Claims(s, j)',
                      DedupKey(pts'[q][i]) = DedupKey(pts'[s][j]),
                      DedupKey(pts'[q][i]) \notin lapsed'
               PROVE  q = s /\ i = j
    BY DEF ClaimsAreUnique, DedupKey, Unix
  <2>1. ASSUME NEW t \in Request, NEW m \in DOMAIN pts[t], Claims(t, m),
               k = DedupKey(pts[t][m]), ~ctxDone[r], k \notin lapsed'
        PROVE  FALSE
    <3>1. k \in dedup \cup lapsed BY <2>1 DEF ClaimsAreGuarded
    <3> QED BY <1>1, <2>1, <3>1
  <2>2. \/ Claims(q, i) /\ pts'[q][i] = pts[q][i] /\ i \in DOMAIN pts[q]
        \/ q = r /\ i = n /\ ~ctxDone[r] /\ pts'[q][i] = p
    BY <1>7
  <2>3. \/ Claims(s, j) /\ pts'[s][j] = pts[s][j] /\ j \in DOMAIN pts[s]
        \/ s = r /\ j = n /\ ~ctxDone[r] /\ pts'[s][j] = p
    BY <1>7
  <2>4. CASE Claims(q, i) /\ Claims(s, j) /\ pts'[q][i] = pts[q][i]
               /\ pts'[s][j] = pts[s][j] /\ i \in DOMAIN pts[q] /\ j \in DOMAIN pts[s]
    BY <1>1, <2>4 DEF ClaimsAreUnique
  <2> QED BY <2>1, <2>2, <2>3, <2>4
<1> QED BY <1>9, <1>10

LEMMA HandlerClaims ==
  ASSUME TypeOK, Lifecycle, ClaimsAreGuarded, ClaimsAreUnique,
         NEW r \in Request, HandlerStep(r)
  PROVE  ClaimsAreGuarded' /\ ClaimsAreUnique'
<1>1. CASE MarkItem(r) \/ BypassItem(r)
  BY <1>1, AdmissionClaims
<1>2. CASE ~(MarkItem(r) \/ BypassItem(r))
  <2>1. UNCHANGED <<pts, rows, worker, ctxDone>>
    BY <1>2 DEF HandlerStep, RejectItem, DuplicateItem, Skip, NothingLeft, Enqueue,
         EnqueueCanceled, EnqueueFull, AwaitDone, AwaitCtx, Outside, handler
  <2>2. CASE Enqueue(r)
    <3>1. \A s \in Request : Queued(s)' <=> Queued(s) \/ s = r
      BY <2>2, AppendQueued DEF Enqueue
    <3>2. /\ pc[r] = "admit"
          /\ \A s \in Request : pc'[s] = "admit" => pc[s] = "admit"
      BY <2>2 DEF Enqueue, Looked, TypeOK
    <3>3. \A s \in Request : Open(s)' => Open(s)
      BY <2>1, <3>1, <3>2 DEF Open, Inserting
    <3> QED BY <2>1, <3>3, OpenFrame, HandlerMonotone, ClaimsFrame
  <2>3. CASE ~Enqueue(r)
    <3>1. UNCHANGED queue
      BY <1>2, <2>3 DEF HandlerStep, RejectItem, DuplicateItem, Skip, NothingLeft,
           EnqueueCanceled, EnqueueFull, AwaitDone, AwaitCtx, Outside
    <3>2. \A s \in Request : pc'[s] = "admit" => pc[s] = "admit"
      BY <1>2, <2>3 DEF HandlerStep, RejectItem, DuplicateItem, Skip, Answer, NothingLeft,
           EnqueueCanceled, EnqueueFull, AwaitDone, AwaitCtx, TypeOK
    <3>3. \A s \in Request : Open(s)' => Open(s)
      BY <2>1, <3>1, <3>2 DEF Open, Inserting, Queued
    <3> QED BY <2>1, <3>3, OpenFrame, HandlerMonotone, ClaimsFrame
  <2> QED BY <2>2, <2>3
<1> QED BY <1>1, <1>2

LEMMA WorkerClaims ==
  ASSUME TypeOK, Lifecycle, ClaimsAreGuarded, ClaimsAreUnique, WorkerStep
  PROVE  NoNewClaim
<1>1. UNCHANGED <<pts, pc, ctxDone>>
  BY DEF WorkerStep, WorkerTake, WorkerStored, WorkerFailed, WorkerEffect, handler
<1>2. CASE WorkerTake
  <2>1. /\ Head(queue) \in Request /\ Queued(Head(queue))
        /\ \A s \in Request : Queued(s)' => Queued(s)
    BY <1>2, TailQueued DEF WorkerTake, Lifecycle
  <2>2. worker' = worker \/ (worker' = Busy("insert", Head(queue), 1) /\ ~ctxDone[Head(queue)])
    BY <1>2 DEF WorkerTake
  <2>3. \A s \in Request : Open(s)' => Open(s)
    BY <1>1, <2>1, <2>2 DEF Open, Inserting, Busy
  <2> QED BY <1>1, <1>2, <2>3, OpenFrame DEF WorkerTake
<1>3. CASE WorkerStored \/ WorkerFailed
  <2>1. PICK r \in Request : r = worker.job /\ Inserting(r) /\ pts[r] # <<>>
    BY <1>3, WorkerJob DEF WorkerStored, WorkerFailed, Inserting, Lifecycle, Life
  <2>2. worker' \in {IdleWorker, Busy("effects", r, 1)} /\ UNCHANGED queue
    BY <1>3, <2>1 DEF WorkerStored, WorkerFailed
  <2>3. \A s \in Request : Open(s)' => Open(s)
    BY <1>1, <2>2 DEF Open, Inserting, Queued, IdleWorker, Busy
  <2>4. \A row \in rows' : row \in rows \/ row.by = r
    BY <1>3, <2>1, CommitRows DEF WorkerStored, WorkerFailed
  <2> SUFFICES ASSUME NEW s \in Request, NEW i \in DOMAIN pts[s], Claims(s, i)'
               PROVE  Claims(s, i)
    BY <1>1 DEF NoNewClaim
  <2>5. CASE Open(s)'
    BY <2>3, <2>5 DEF Claims
  <2>6. CASE [by |-> s, pt |-> pts[s][i]] \in rows'
    <3>1. [by |-> s, pt |-> pts[s][i]] \in rows \/ s = r BY <2>4, <2>6
    <3> QED BY <2>1, <3>1 DEF Claims, Open
  <2> QED BY <1>1, <2>5, <2>6 DEF Claims
<1>4. CASE WorkerEffect
  <2>1. /\ worker' \in {IdleWorker, Busy("effects", worker.job, worker.idx + 1)}
        /\ UNCHANGED <<queue, rows>>
    BY <1>4 DEF WorkerEffect
  <2>2. \A s \in Request : Open(s)' => Open(s)
    BY <1>1, <2>1 DEF Open, Inserting, Queued, IdleWorker, Busy
  <2> QED BY <1>1, <2>1, <2>2, OpenFrame
<1> QED BY <1>2, <1>3, <1>4 DEF WorkerStep

LEMMA EnvironmentClaims ==
  ASSUME TypeOK, Lifecycle, Environment PROVE NoNewClaim
<1>0. ASSUME UNCHANGED <<pc, pts, rows, queue, worker>>,
             \A s \in Request : ctxDone[s] => ctxDone'[s]
      PROVE  NoNewClaim
  BY <1>0, OpenFrame DEF Open, Queued, Inserting
<1>1. ASSUME NEW r \in Request, Arrive(r) PROVE NoNewClaim
  <2>1. /\ UNCHANGED <<pts, rows, ctxDone, queue, worker>> /\ pts[r] = <<>>
        /\ \A s \in Request : s # r => pc'[s] = pc[s]
    BY <1>1 DEF Arrive, Answer, Outside, TypeOK, Lifecycle, Life
  <2>2. \A s \in Request : s # r => (Open(s)' <=> Open(s))
    BY <2>1 DEF Open, Queued, Inserting
  <2>3. \A i \in DOMAIN pts[r] : FALSE BY <2>1
  <2> QED BY <2>1, <2>2, <2>3 DEF NoNewClaim, Claims
<1>2. ASSUME NEW r \in Request, ContextEnds(r) PROVE NoNewClaim
  BY <1>0, <1>2 DEF ContextEnds, handler, Outside, TypeOK
<1>3. ASSUME NEW k \in dedup, Expire(k) PROVE NoNewClaim
  BY <1>0, <1>3 DEF Expire, handler, Outside
<1>4. CASE Tick BY <1>0, <1>4 DEF Tick, handler
<1>5. CASE Resize BY <1>0, <1>5 DEF Resize, handler
<1>6. ASSUME Restart PROVE NoNewClaim
  <2>1. \A s \in Request : ~Open(s)'
    BY <1>6, RequestAssumption DEF Restart, Open, Queued, Inserting, IdleWorker, Running
  <2> QED BY <1>6, <2>1, OpenFrame DEF Restart
<1>7. CASE Drain BY <1>0, <1>7 DEF Drain, handler
<1> QED BY <1>1, <1>2, <1>3, <1>4, <1>5, <1>6, <1>7 DEF Environment, Crash, Exit

LEMMA NextClaims ==
  ASSUME TypeOK, Lifecycle, ClaimsAreGuarded, ClaimsAreUnique, [Next]_vars
  PROVE  ClaimsAreGuarded' /\ ClaimsAreUnique'
<1>1. ASSUME UNCHANGED <<pc, pts, ctxDone, rows, queue, worker>> PROVE NoNewClaim
  BY <1>1, OpenFrame DEF Open, Queued, Inserting
<1>2. CASE UNCHANGED vars \/ Quiesced
  BY <1>1, <1>2, NextMonotone, ClaimsFrame DEF vars, Quiesced
<1>3. ASSUME NEW r \in Request, PostStep(r)
      PROVE  ClaimsAreGuarded' /\ ClaimsAreUnique'
  BY <1>1, <1>3, NextMonotone, ClaimsFrame
     DEF PostStep, PostInvalidate, PostMark, handler
<1>4. CASE WorkerStep BY <1>4, WorkerClaims, NextMonotone, ClaimsFrame
<1>5. CASE Environment BY <1>5, EnvironmentClaims, NextMonotone, ClaimsFrame
<1> QED BY <1>2, <1>3, <1>4, <1>5, HandlerClaims DEF Next

-----------------------------------------------------------------------------
(* Rows, acknowledgements and side effects. *)

LEMMA NextRows ==
  ASSUME TypeOK, Lifecycle, RowsAreAdmitted, [Next]_vars
  PROVE  RowsAreAdmitted'
<1>1. Monotone BY NextMonotone
<1>2. ASSUME NEW row \in rows PROVE \E i \in DOMAIN pts'[row.by] : row.pt = pts'[row.by][i]
  <2>1. row.by \in Request /\ Wrote(row.by) BY DEF TypeOK, Row, Wrote
  <2>2. pts'[row.by] = pts[row.by] BY <1>1, <2>1 DEF Monotone, Settled, Lifecycle, Life
  <2> QED BY <2>2 DEF RowsAreAdmitted
<1>3. CASE UNCHANGED rows
  BY <1>2, <1>3 DEF RowsAreAdmitted
<1>4. CASE WorkerStored \/ WorkerFailed
  <2>1. PICK r \in Request : r = worker.job /\ pts[r] # <<>>
    BY <1>4, WorkerJob DEF WorkerStored, WorkerFailed, Lifecycle, Life
  <2>2. \A row \in rows' : row \in rows \/ (row.by = r /\ row.pt \in PointsOf(r))
    BY <1>4, <2>1, CommitRows DEF WorkerStored, WorkerFailed
  <2>3. UNCHANGED pts BY <1>4 DEF WorkerStored, WorkerFailed
  <2> QED BY <1>2, <2>2, <2>3 DEF RowsAreAdmitted, PointsOf
<1>5. UNCHANGED rows \/ WorkerStored \/ WorkerFailed
  <2>1. ASSUME NEW r \in Request, HandlerStep(r) PROVE UNCHANGED rows
    BY <2>1 DEF HandlerStep, RejectItem, DuplicateItem, MarkItem, BypassItem, Skip, Admit,
         NothingLeft, Enqueue, EnqueueCanceled, EnqueueFull, AwaitDone, AwaitCtx, Outside
  <2>2. ASSUME NEW r \in Request, PostStep(r) PROVE UNCHANGED rows
    BY <2>2 DEF PostStep, PostInvalidate, PostMark
  <2>3. CASE WorkerStep BY <2>3 DEF WorkerStep, WorkerTake, WorkerEffect
  <2>4. CASE Environment
    BY <2>4 DEF Environment, Arrive, ContextEnds, Expire, Tick, Resize, Crash, Drain,
                Exit, Restart, Outside
  <2> QED BY <2>1, <2>2, <2>3, <2>4 DEF Next, Quiesced, vars
<1> QED BY <1>3, <1>4, <1>5

\* What makes NilIsDurable speak about a request.
Nil(s) ==
  \/ done[s] = "nil" \/ reply[s] = "stored" \/ post[s] # "none"
  \/ worker.job = s /\ worker.pc = "effects"

LEMMA DurableKept ==
  ASSUME Monotone, NEW s \in Request, Durable(s), pc[s] \in {"await", "done"}
  PROVE  Durable(s)' /\ pc'[s] \in {"await", "done"}
<1>1. pts'[s] = pts[s] /\ pc'[s] \in {"await", "done"} BY DEF Monotone, Settled
<1>2. \A p : Taken(p) => Taken(p)' BY DEF Monotone, Taken, Clash
<1>3. \A p : DedupKey(p) \in lapsed => DedupKey(p)' \in lapsed'
  BY DEF Monotone, DedupKey, Unix
<1> QED BY <1>1, <1>2, <1>3 DEF Durable, PointsOf, Single, Monotone

LEMMA NilFrame ==
  ASSUME NilIsDurable, Monotone, \A s \in Request : Nil(s)' => Nil(s)
  PROVE  NilIsDurable'
BY DurableKept DEF NilIsDurable, Nil

\* A successful insert leaves every point of its job in the table.  A lone
\* point that meets a row of its primary key meets a claim on its own second,
\* so its guard must have lapsed.
LEMMA StoredIsDurable ==
  ASSUME TypeOK, Lifecycle, RowsAreAdmitted, ClaimsAreUnique,
         NEW r \in Request, Inserting(r), Commit(r), UNCHANGED <<pts, lapsed>>
  PROVE  Durable(r)'
<1>1. pts[r] # <<>> /\ pts[r] \in Seq(Point) /\ ~Wrote(r)
  BY DEF Lifecycle, Life, Inserting, TypeOK
<1>2. CASE ~Single(r)
  BY <1>1, <1>2 DEF Commit, InsertMetricBatch, Durable, PointsOf
<1>3. CASE Single(r)
  <2> DEFINE p == pts[r][1]
  <2>1. PointsOf(r) = {p} /\ p \in Point /\ 1 \in DOMAIN pts[r]
    BY <1>1, <1>3 DEF PointsOf, Single
  <2>2. CASE ~Taken(p)
    BY <1>1, <1>3, <2>1, <2>2 DEF Commit, InsertMetric, Durable, PointsOf
  <2>3. CASE Taken(p)
    <3>1. PICK row \in rows : Clash(row.pt, p) BY <2>3 DEF Taken
    <3>2. /\ row.by \in Request /\ row.by # r
          /\ \E i \in DOMAIN pts[row.by] : row.pt = pts[row.by][i] /\ Claims(row.by, i)
      BY <1>1, RowPoint DEF Wrote
    <3>3. DedupKey(row.pt) = DedupKey(p)
      BY <2>1, <3>1, ClashKey DEF TypeOK, Row
    <3>4. Claims(r, 1) BY <2>1 DEF Claims, Open
    <3>5. DedupKey(p) \in lapsed BY <2>1, <3>2, <3>3, <3>4 DEF ClaimsAreUnique
    <3>6. rows' = rows BY <1>3, <2>3 DEF Commit, InsertMetric
    <3>7. Taken(p)' /\ DedupKey(p)' \in lapsed'
      BY <2>3, <3>5, <3>6 DEF Taken, Clash, DedupKey, Unix
    <3>8. PointsOf(r)' = {p} /\ Single(r)' /\ p' = p
      BY <1>3, <2>1 DEF PointsOf, Single
    <3> QED BY <1>1, <3>7, <3>8 DEF Durable
  <2> QED BY <2>2, <2>3
<1> QED BY <1>2, <1>3

LEMMA NextNil ==
  ASSUME TypeOK, Lifecycle, RowsAreAdmitted, ClaimsAreUnique, NilIsDurable, [Next]_vars
  PROVE  NilIsDurable'
<1>0. Monotone BY NextMonotone
<1>1. ASSUME NEW r \in Request, HandlerStep(r) PROVE NilIsDurable'
  <2>1. UNCHANGED <<worker, post>>
    BY <1>1 DEF HandlerStep, RejectItem, DuplicateItem, MarkItem, BypassItem, Skip, Admit,
         NothingLeft, Enqueue, EnqueueCanceled, EnqueueFull, AwaitDone, AwaitCtx, Outside
  <2>2. CASE AwaitDone(r)
    <3>1. \A s \in Request :
            /\ done'[s] = "nil" => done[s] = "nil"
            /\ reply'[s] = "stored" => reply[s] = "stored" \/ done[s] = "nil"
      BY <2>2 DEF AwaitDone, Answer, FailureStatus, TypeOK
    <3> QED BY <1>0, <2>1, <3>1, NilFrame DEF Nil
  <2>3. CASE ~AwaitDone(r)
    <3>1. UNCHANGED done
      BY <1>1, <2>3 DEF HandlerStep, RejectItem, DuplicateItem, MarkItem, BypassItem, Skip,
           Admit, NothingLeft, Enqueue, EnqueueCanceled, EnqueueFull, AwaitCtx, handler
    <3>2. \A s \in Request : reply'[s] = "stored" => reply[s] = "stored"
      BY <1>1, <2>3 DEF HandlerStep, RejectItem, DuplicateItem, MarkItem, BypassItem, Skip,
           Admit, Answer, NothingLeft, Enqueue, EnqueueCanceled, EnqueueFull, AwaitCtx,
           handler, TypeOK
    <3> QED BY <1>0, <2>1, <3>1, <3>2, NilFrame DEF Nil
  <2> QED BY <2>2, <2>3
<1>2. CASE WorkerStored
  <2>1. PICK r \in Request : r = worker.job /\ Inserting(r)
    BY <1>2, WorkerJob DEF WorkerStored, Inserting
  <2>2. Commit(r) /\ UNCHANGED <<pts, lapsed, reply, pc>> BY <1>2, <2>1 DEF WorkerStored
  <2>3. Durable(r)' BY <2>1, <2>2, StoredIsDurable
  <2>4. pc'[r] \in {"await", "done"}
    BY <2>1, <2>2 DEF Lifecycle, Life, TypeOK
  <2>5. ASSUME NEW s \in Request, s # r, Nil(s)' PROVE Nil(s)
    <3>1. done'[s] = done[s] /\ post'[s] = post[s]
      BY <1>2, <2>1, <2>5 DEF WorkerStored, TypeOK
    <3>2. worker'.job # s
      BY <1>2, <2>1, <2>5, RequestAssumption DEF WorkerStored, IdleWorker, Busy
    <3> QED BY <2>2, <2>5, <3>1, <3>2 DEF Nil
  <2> QED BY <1>0, <2>3, <2>4, <2>5, DurableKept DEF NilIsDurable, Nil
<1>3. CASE WorkerTake \/ WorkerFailed \/ WorkerEffect
  <2>1. \A s \in Request : done'[s] = "nil" => done[s] = "nil"
    <3>1. CASE WorkerTake
      <4>1. Head(queue) \in Request BY <3>1 DEF WorkerTake, TypeOK
      <4> QED BY <3>1, <4>1 DEF WorkerTake, TypeOK
    <3>2. CASE WorkerFailed
      <4>1. worker.job \in Request BY <3>2, WorkerJob DEF WorkerFailed
      <4> QED BY <3>2, <4>1 DEF WorkerFailed, TypeOK, InsertErrors
    <3>3. CASE WorkerEffect BY <3>3 DEF WorkerEffect, handler
    <3> QED BY <1>3, <3>1, <3>2, <3>3
  <2>2. UNCHANGED <<reply, post>>
    BY <1>3 DEF WorkerTake, WorkerFailed, WorkerEffect, handler
  <2>3. worker'.pc = "effects" => worker.pc = "effects" /\ worker'.job = worker.job
    BY <1>3 DEF WorkerTake, WorkerFailed, WorkerEffect, IdleWorker, Busy
  <2> QED BY <1>0, <2>1, <2>2, <2>3, NilFrame DEF Nil
<1>4. ASSUME NEW r \in Request, PostStep(r) PROVE NilIsDurable'
  <2>1. /\ UNCHANGED <<done, reply, worker>>
        /\ \A s \in Request : post'[s] # "none" => post[s] # "none"
    BY <1>4 DEF PostStep, PostInvalidate, PostMark, handler, TypeOK
  <2> QED BY <1>0, <2>1, NilFrame DEF Nil
<1>5. CASE Environment
  <2>1. ASSUME NEW r \in Request, Arrive(r) PROVE NilIsDurable'
    <3>1. /\ \A s \in Request : reply'[s] = "stored" => reply[s] = "stored"
          /\ UNCHANGED <<done, post, worker>>
      BY <2>1 DEF Arrive, Answer, Outside, TypeOK
    <3> QED BY <1>0, <3>1, NilFrame DEF Nil
  <2>2. ASSUME Restart PROVE NilIsDurable'
    <3>1. \A s \in Request : Nil(s)' => Nil(s)
      BY <2>2 DEF Restart, Nil, NoPost, IdleWorker
    <3> QED BY <1>0, <3>1, NilFrame
  <2>3. ASSUME UNCHANGED <<done, reply, post, worker>> PROVE NilIsDurable'
    BY <1>0, <2>3, NilFrame DEF Nil
  <2> QED BY <1>5, <2>1, <2>2, <2>3
          DEF Environment, ContextEnds, Expire, Tick, Resize, Crash, Drain, Exit,
              handler, Outside
<1>6. CASE UNCHANGED vars \/ Quiesced
  BY <1>0, <1>6, NilFrame DEF vars, Quiesced, Nil
<1> QED BY <1>1, <1>2, <1>3, <1>4, <1>5, <1>6 DEF Next, WorkerStep

\* The points whose side effects run are the ones NilIsDurable speaks about.
LEMMA EffectPoint ==
  ASSUME TypeOK, NilIsDurable, NEW r \in Request, NEW i \in DOMAIN pts[r], Nil(r)
  PROVE  pts[r][i] \in Point /\ Taken(pts[r][i])
<1>1. Durable(r) /\ pts[r] \in Seq(Point) BY DEF NilIsDurable, Nil, TypeOK
<1>2. pts[r][i] \in PointsOf(r) /\ pts[r][i] \in Point BY <1>1 DEF PointsOf
<1>3. [by |-> r, pt |-> pts[r][i]].pt = pts[r][i] OBVIOUS
<1> QED BY <1>1, <1>2, <1>3 DEF Durable, Taken, Clash

LEMMA EffectsFrame ==
  ASSUME EvalsInRange, EffectsFollowRows, TypeOK, Monotone, UNCHANGED <<lastSeen, evals>>
  PROVE  EvalsInRange' /\ EffectsFollowRows'
<1>1. \A e \in evals : /\ e[1] \in Request /\ pts'[e[1]] = pts[e[1]]
                       /\ pc'[e[1]] \in {"await", "done"}
  BY DEF EvalsInRange, Monotone, Settled, TypeOK
<1>2. \A p : Taken(p) => Taken(p)' BY DEF Monotone, Taken, Clash
<1>3. \A e \in evals : Taken(pts[e[1]][e[2]])'
  BY <1>1, <1>2 DEF EffectsFollowRows, Taken, Clash, Monotone
<1>4. \A d \in Device : lastSeen'[d] # 0 =>
        \E row \in rows' : row.pt.dev = d /\ Unix(row.pt.time)' = lastSeen'[d]
  BY DEF EffectsFollowRows, Monotone, Unix
<1> QED BY <1>1, <1>3, <1>4 DEF EvalsInRange, EffectsFollowRows, Unix

\* Marking last_seen and launching the evaluation of a stored point.
LEMMA EffectStep ==
  ASSUME EvalsInRange, EffectsFollowRows, TypeOK, NilIsDurable,
         NEW r \in Request, NEW i \in DOMAIN pts[r], Nil(r),
         lastSeen' = SetLastSeen(pts[r][i]) \/ UNCHANGED lastSeen,
         evals' = evals \cup {<<r, i>>}, UNCHANGED <<pc, pts, rows>>
  PROVE  EvalsInRange' /\ EffectsFollowRows'
<1> DEFINE p == pts[r][i]
<1>1. p \in Point /\ Taken(p) BY EffectPoint
<1>2. pc[r] \in {"await", "done"} BY DEF NilIsDurable, Nil
<1>3. EvalsInRange' BY <1>2 DEF EvalsInRange
<1>4. \A e \in evals' : Taken(pts[e[1]][e[2]])
  BY <1>1 DEF EffectsFollowRows
<1>5. ASSUME NEW d \in Device, lastSeen'[d] # 0
      PROVE  \E row \in rows : row.pt.dev = d /\ Unix(row.pt.time) = lastSeen'[d]
  <2>1. CASE lastSeen'[d] = lastSeen[d]
    BY <1>5, <2>1 DEF EffectsFollowRows
  <2>2. CASE lastSeen'[d] # lastSeen[d]
    <3>1. lastSeen' = SetLastSeen(p) /\ d = p.dev /\ lastSeen'[d] = Unix(p.time)
      BY <1>1, <1>5, <2>2 DEF SetLastSeen, TypeOK, Point
    <3>2. PICK row \in rows : Clash(row.pt, p) BY <1>1 DEF Taken
    <3> QED BY <3>1, <3>2 DEF Clash
  <2> QED BY <2>1, <2>2
<1>6. (\A e \in evals : Taken(pts[e[1]][e[2]]))'
  BY <1>4 DEF Taken, Clash
<1> QED BY <1>3, <1>5, <1>6 DEF EffectsFollowRows, Unix

LEMMA NextEffects ==
  ASSUME TypeOK, Lifecycle, NilIsDurable, EffectIndex, EvalsInRange, EffectsFollowRows,
         [Next]_vars
  PROVE  EvalsInRange' /\ EffectsFollowRows'
<1>1. CASE WorkerEffect
  <2>1. PICK r \in Request : r = worker.job BY <1>1, WorkerJob DEF WorkerEffect
  <2>2. worker.idx \in DOMAIN pts[r] /\ Nil(r)
    BY <1>1, <2>1 DEF WorkerEffect, EffectIndex, TypeOK, Nil
  <2>3. /\ lastSeen' = SetLastSeen(pts[r][worker.idx]) \/ UNCHANGED lastSeen
        /\ evals' = evals \cup {<<r, worker.idx>>}
        /\ UNCHANGED <<pc, pts, rows>>
    BY <1>1, <2>1 DEF WorkerEffect, handler
  <2>4. \A i \in DOMAIN pts[r] : i = worker.idx => EvalsInRange' /\ EffectsFollowRows'
    BY <2>2, <2>3, EffectStep
  <2> QED BY <2>2, <2>4
<1>2. ASSUME NEW r \in Request, PostMark(r) PROVE EvalsInRange' /\ EffectsFollowRows'
  <2>1. Nil(r) BY <1>2 DEF PostMark, Nil
  <2>2. 1 \in DOMAIN pts[r] BY <2>1 DEF NilIsDurable, Nil, Durable, TypeOK
  <2> QED BY <1>2, <2>1, <2>2, EffectStep DEF PostMark, handler
<1>3. ASSUME UNCHANGED <<lastSeen, evals>> PROVE EvalsInRange' /\ EffectsFollowRows'
  BY <1>3, NextMonotone, EffectsFrame
<1>4. ASSUME NEW r \in Request, HandlerStep(r) PROVE UNCHANGED <<lastSeen, evals>>
  BY <1>4 DEF HandlerStep, RejectItem, DuplicateItem, MarkItem, BypassItem, Skip, Admit,
       NothingLeft, Enqueue, EnqueueCanceled, EnqueueFull, AwaitDone, AwaitCtx, Outside
<1>5. ASSUME NEW r \in Request, PostInvalidate(r) PROVE UNCHANGED <<lastSeen, evals>>
  BY <1>5 DEF PostInvalidate
<1>6. CASE WorkerTake \/ WorkerStored \/ WorkerFailed
  BY <1>3, <1>6 DEF WorkerTake, WorkerStored, WorkerFailed
<1>7. CASE Environment
  <2>1. UNCHANGED <<lastSeen, evals>>
    BY <1>7 DEF Environment, Arrive, ContextEnds, Expire, Tick, Resize, Crash, Drain,
                Exit, Restart, Outside
  <2> QED BY <1>3, <2>1
<1>8. CASE UNCHANGED vars \/ Quiesced
  BY <1>3, <1>8 DEF vars, Quiesced
<1> QED BY <1>1, <1>2, <1>3, <1>4, <1>5, <1>6, <1>7, <1>8 DEF Next, WorkerStep, PostStep

LEMMA NextEffectIndex ==
  ASSUME TypeOK, Lifecycle, NilIsDurable, EffectIndex, [Next]_vars
  PROVE  EffectIndex'
<1>1. ASSUME UNCHANGED worker PROVE EffectIndex'
  <2>1. CASE worker.pc = "effects"
    <3>1. PICK r \in Request : r = worker.job BY <2>1, WorkerJob
    <3>2. pc[r] # "admit" BY <2>1, <3>1 DEF NilIsDurable
    <3>3. pts'[r] = pts[r] BY <3>2, NextMonotone DEF Monotone, Settled
    <3> QED BY <1>1, <2>1, <3>1, <3>3 DEF EffectIndex
  <2> QED BY <1>1, <2>1 DEF EffectIndex
<1>2. CASE WorkerStored
  <2>1. PICK r \in Request : r = worker.job /\ pts[r] # <<>>
    BY <1>2, WorkerJob DEF WorkerStored, Lifecycle, Life
  <2>2. pts[r] \in Seq(Point) BY DEF TypeOK
  <2>3. 1 \in 1..Len(pts[r]) BY <2>1, <2>2
  <2>4. worker' \in {IdleWorker, Busy("effects", r, 1)} /\ UNCHANGED pts
    BY <1>2, <2>1 DEF WorkerStored
  <2> QED BY <2>3, <2>4 DEF EffectIndex, IdleWorker, Busy
<1>3. CASE WorkerEffect
  <2>1. PICK r \in Request : r = worker.job BY <1>3, WorkerJob DEF WorkerEffect
  <2>2. worker.idx \in 1..Len(pts[r]) /\ Len(pts[r]) \in Nat /\ worker.idx \in Nat
    BY <1>3, <2>1 DEF WorkerEffect, EffectIndex, TypeOK
  <2>3. /\ \/ worker' = IdleWorker
           \/ worker.idx # Len(pts[r]) /\ worker' = Busy("effects", r, worker.idx + 1)
        /\ UNCHANGED pts
    BY <1>3, <2>1 DEF WorkerEffect, handler
  <2>4. worker.idx # Len(pts[r]) => worker.idx + 1 \in 1..Len(pts[r]) BY <2>2
  <2> QED BY <2>3, <2>4 DEF EffectIndex, IdleWorker, Busy
<1>4. ASSUME worker'.pc # "effects" PROVE EffectIndex'
  BY <1>4 DEF EffectIndex
<1>5. CASE WorkerTake \/ WorkerFailed
  BY <1>1, <1>4, <1>5 DEF WorkerTake, WorkerFailed, IdleWorker, Busy
<1>6. ASSUME NEW r \in Request, HandlerStep(r) \/ PostStep(r) PROVE UNCHANGED worker
  BY <1>6 DEF HandlerStep, RejectItem, DuplicateItem, MarkItem, BypassItem, Skip, Admit,
       NothingLeft, Enqueue, EnqueueCanceled, EnqueueFull, AwaitDone, AwaitCtx, Outside,
       PostStep, PostInvalidate, PostMark
<1>7. CASE Environment
  BY <1>1, <1>4, <1>7 DEF Environment, Arrive, ContextEnds, Expire, Tick, Resize, Crash,
       Drain, Exit, Restart, Outside, IdleWorker
<1>8. CASE UNCHANGED vars \/ Quiesced
  BY <1>1, <1>8 DEF vars, Quiesced
<1> QED BY <1>1, <1>2, <1>3, <1>5, <1>6, <1>7, <1>8 DEF Next, WorkerStep

-----------------------------------------------------------------------------
(* The theorems. *)

LEMMA InitSafe == Init => Safe
<1> SUFFICES ASSUME Init PROVE Safe OBVIOUS
<1>1. TypeOK BY InitTypes
<1>2. \A r \in Request : ~Queued(r) /\ ~Wrote(r) /\ worker.job # r
  BY RequestAssumption DEF Init, Queued, Wrote, IdleWorker
<1>3. \A r \in Request : Life(r)
  BY <1>2 DEF Init, Life, Inserting, Refusals, NoPost, IdleWorker
<1>4. Lifecycle BY <1>3 DEF Init, Lifecycle, QueueDistinct, IdleWorker
<1>5. \A r \in Request : \A i \in DOMAIN pts[r] : FALSE BY DEF Init
<1>6. RowsAreAdmitted /\ ClaimsAreGuarded /\ ClaimsAreUnique
  BY <1>5 DEF RowsAreAdmitted, ClaimsAreGuarded, ClaimsAreUnique, Init
<1>7. NilIsDurable
  BY <1>2 DEF Init, NilIsDurable, NoPost
<1>8. EffectIndex BY DEF Init, EffectIndex, IdleWorker
<1>9. EvalsInRange /\ EffectsFollowRows BY DEF Init, EvalsInRange, EffectsFollowRows
<1> QED BY <1>1, <1>4, <1>6, <1>7, <1>8, <1>9 DEF Safe

LEMMA NextSafe == Safe /\ [Next]_vars => Safe'
BY NextTypes, NextLife, NextRows, NextClaims, NextNil, NextEffectIndex, NextEffects
   DEF Safe

\* The inductive invariant holds in every reachable state.
THEOREM SafeInvariant == Spec => []Safe
BY InitSafe, NextSafe, PTL DEF Spec

\* Every variable keeps its type and writeCh never exceeds its capacity.
THEOREM TypeCorrect == Spec => []TypeOK
<1>1. Safe => TypeOK BY DEF Safe
<1> QED BY <1>1, SafeInvariant, PTL

\* Deduplication: a second of a device is written at most once, unless its
\* dedup key expired or was bypassed by a Redis failure.
THEOREM Deduplication == Spec => []OneWritePerSecond
<1>1. Safe => OneWritePerSecond
  <2> SUFFICES ASSUME Safe, NEW x \in rows, NEW y \in rows,
                      DedupKey(x.pt) = DedupKey(y.pt), DedupKey(x.pt) \notin lapsed
               PROVE  x = y
    BY DEF OneWritePerSecond
  <2>1. PICK i \in DOMAIN pts[x.by] : x.pt = pts[x.by][i] /\ Claims(x.by, i)
    BY RowPoint DEF Safe
  <2>2. PICK j \in DOMAIN pts[y.by] : y.pt = pts[y.by][j] /\ Claims(y.by, j)
    BY RowPoint DEF Safe
  <2>3. x.by \in Request /\ y.by \in Request BY RowPoint DEF Safe
  <2>4. x.by = y.by /\ i = j BY <2>1, <2>2, <2>3 DEF Safe, ClaimsAreUnique
  <2>5. x = [by |-> x.by, pt |-> x.pt] /\ y = [by |-> y.by, pt |-> y.pt]
    BY DEF Safe, TypeOK, Row
  <2> QED BY <2>1, <2>2, <2>4, <2>5
<1> QED BY <1>1, SafeInvariant, PTL

\* Acknowledged means durable, and durable as its own row unless the point
\* went alone after its guard lapsed.
THEOREM Durability == Spec => []AckedIsDurable
<1>1. Safe => AckedIsDurable BY DEF Safe, NilIsDurable, AckedIsDurable
<1> QED BY <1>1, SafeInvariant, PTL

\* A refused RPC wrote nothing and has no job left that could.
THEOREM Refusal == Spec => []RefusedWritesNothing
<1>1. Safe => RefusedWritesNothing BY DEF Safe, Lifecycle, Life, RefusedWritesNothing
<1> QED BY <1>1, SafeInvariant, PTL

\* The evaluator and last_seen only ever see stored points.
THEOREM Effects == Spec => []EffectsFollowRows
<1>1. Safe => EffectsFollowRows BY DEF Safe
<1> QED BY <1>1, SafeInvariant, PTL

\* A request whose context ended before its job was taken stays unwritten.
GivenUp(r) == ctxDone[r] /\ ~Wrote(r) /\ ~Inserting(r)

LEMMA GivenUpStays ==
  ASSUME Safe, [Next]_vars, NEW r \in Request, GivenUp(r)
  PROVE  GivenUp(r)'
<1>1. TypeOK /\ Lifecycle BY DEF Safe
<1>2. ctxDone'[r] BY <1>1, NextMonotone DEF GivenUp, Monotone, Settled
<1>3. ASSUME UNCHANGED rows PROVE ~Wrote(r)'
  BY <1>3 DEF GivenUp, Wrote
<1>4. ASSUME worker' = worker \/ worker'.pc # "insert" PROVE ~Inserting(r)'
  BY <1>4 DEF GivenUp, Inserting
<1>5. CASE WorkerTake
  <2>1. worker' = worker \/ (worker'.job = Head(queue) /\ ~ctxDone[Head(queue)])
    BY <1>5 DEF WorkerTake, Busy
  <2>2. ~Inserting(r)' BY <2>1 DEF GivenUp, Inserting
  <2> QED BY <1>2, <1>3, <1>5, <2>2 DEF WorkerTake, GivenUp
<1>6. CASE WorkerStored \/ WorkerFailed
  <2>1. PICK s \in Request : s = worker.job /\ pts[s] # <<>> /\ Inserting(s)
    BY <1>1, <1>6, WorkerJob DEF WorkerStored, WorkerFailed, Inserting, Lifecycle, Life
  <2>2. s # r BY <2>1 DEF GivenUp
  <2>3. UNCHANGED rows \/ (\A q \in Request : q # s => (Wrote(q)' <=> Wrote(q)))
    BY <1>1, <1>6, <2>1, CommitRows DEF WorkerStored, WorkerFailed
  <2>4. ~Wrote(r)' BY <1>3, <2>2, <2>3 DEF GivenUp
  <2>5. worker'.pc # "insert" BY <1>6 DEF WorkerStored, WorkerFailed, IdleWorker, Busy
  <2> QED BY <1>2, <1>4, <2>4, <2>5 DEF GivenUp
<1>7. CASE WorkerEffect
  BY <1>2, <1>3, <1>4, <1>7 DEF WorkerEffect, GivenUp, IdleWorker, Busy
<1>8. ASSUME NEW s \in Request, HandlerStep(s) \/ PostStep(s)
      PROVE  UNCHANGED <<worker, rows>>
  BY <1>8 DEF HandlerStep, RejectItem, DuplicateItem, MarkItem, BypassItem, Skip, Admit,
       NothingLeft, Enqueue, EnqueueCanceled, EnqueueFull, AwaitDone, AwaitCtx, Outside,
       PostStep, PostInvalidate, PostMark
<1>9. CASE Environment
  <2>1. UNCHANGED rows /\ (worker' = worker \/ worker'.pc # "insert")
    BY <1>9 DEF Environment, Arrive, ContextEnds, Expire, Tick, Resize, Crash, Drain,
         Exit, Restart, Outside, IdleWorker
  <2> QED BY <1>2, <1>3, <1>4, <2>1 DEF GivenUp
<1>10. CASE UNCHANGED vars \/ Quiesced
  BY <1>2, <1>3, <1>4, <1>10 DEF vars, Quiesced, GivenUp
<1> QED BY <1>2, <1>3, <1>4, <1>5, <1>6, <1>7, <1>8, <1>9, <1>10
        DEF Next, WorkerStep, GivenUp

\* A job whose RPC gave up while it waited in writeCh is never written.
THEOREM Abandonment == Spec => AbandonedNeverWritten
<1> SUFFICES ASSUME NEW r \in Request
             PROVE  Spec => [](Queued(r) /\ ctxDone[r] => []~Wrote(r))
  BY DEF AbandonedNeverWritten
<1>1. Safe /\ [Next]_vars /\ GivenUp(r) => GivenUp(r)' BY GivenUpStays
<1>2. Safe /\ Queued(r) /\ ctxDone[r] => GivenUp(r)
  BY DEF Safe, Lifecycle, Life, GivenUp, Inserting
<1>3. GivenUp(r) => ~Wrote(r) BY DEF GivenUp
<1>4. Spec => [][Next]_vars BY PTL DEF Spec
<1> QED BY <1>1, <1>2, <1>3, <1>4, SafeInvariant, PTL
-----------------------------------------------------------------------------
(* The refinement: the ingest path implements MetricLog. *)

\* A step that leaves rows, answers and lapsed keys alone is a stutter.
LEMMA LogStutter ==
  ASSUME UNCHANGED <<rows, reply, lapsed>>
  PROVE  UNCHANGED Log!logVars
BY DEF Log!logVars, DedupKey, Unix, VerdictOf

LEMMA LogWrote ==
  ASSUME NEW r \in Request
  PROVE  Log!Wrote(r) <=> Wrote(r)
<1> DEFINE L == {[by |-> row.by, key |-> DedupKey(row.pt)] : row \in rows}
<1>1. Log!Wrote(r) <=> \E e \in L : e.by = r BY DEF Log!Wrote
<1>2. ASSUME NEW row \in rows, row.by = r PROVE \E e \in L : e.by = r
  <2>1. [by |-> row.by, key |-> DedupKey(row.pt)] \in L OBVIOUS
  <2> QED BY <1>2, <2>1
<1>3. ASSUME NEW e \in L, e.by = r PROVE Wrote(r)
  <2>1. PICK row \in rows : e = [by |-> row.by, key |-> DedupKey(row.pt)] OBVIOUS
  <2> QED BY <1>3, <2>1 DEF Wrote
<1> QED BY <1>1, <1>2, <1>3 DEF Wrote

LEMMA LogInit == Init => Log!Init
<1> SUFFICES ASSUME Init PROVE Log!Init OBVIOUS
<1>1. {[by |-> row.by, key |-> DedupKey(row.pt)] : row \in rows} = {}
  BY DEF Init
<1>2. [r \in Request |-> VerdictOf(reply[r])] = [r \in Request |-> "open"]
  BY DEF Init, VerdictOf
<1>3. lapsed = {} BY DEF Init
<1> QED BY <1>1, <1>2, <1>3 DEF Log!Init

\* What an answer does to the verdicts.
LEMMA LogAnswer ==
  ASSUME TypeOK, NEW r \in Request, NEW a \in Replies, reply' = [reply EXCEPT ![r] = a]
  PROVE  [q \in Request |-> VerdictOf(reply[q])]'
           = [[q \in Request |-> VerdictOf(reply[q])] EXCEPT ![r] = VerdictOf(a)]
BY DEF TypeOK, VerdictOf

\* A refusal is told to an RPC that wrote nothing.
LEMMA LogRefusal ==
  ASSUME TypeOK, Lifecycle, NEW r \in Request, pc[r] \in {"idle", "admit"},
         NEW a \in Refusals, Answer(r, a), UNCHANGED <<rows, lapsed>>
  PROVE  Log!Next
<1>1. Life(r) BY DEF Lifecycle
<1>2. VerdictOf(reply[r]) = "open" /\ VerdictOf(a) = "refused" /\ a \in Replies
  BY <1>1 DEF Life, VerdictOf, Refusals, Replies
<1>3. ~Log!Wrote(r) BY <1>1, LogWrote DEF Life
<1>4. [q \in Request |-> VerdictOf(reply[q])]'
        = [[q \in Request |-> VerdictOf(reply[q])] EXCEPT ![r] = "refused"]
  BY <1>2, LogAnswer DEF Answer
<1>5. UNCHANGED {[by |-> row.by, key |-> DedupKey(row.pt)] : row \in rows}
  BY DEF DedupKey, Unix
<1>6. Log!Refuse(r) BY <1>2, <1>3, <1>4, <1>5 DEF Log!Refuse
<1> QED BY <1>6 DEF Log!Next

\* A call that ends without a result promises nothing.
LEMMA LogFailure ==
  ASSUME TypeOK, Lifecycle, NEW R \in SUBSET Request,
         \A r \in R : pc[r] # "done",
         \A r \in Request : VerdictOf(reply'[r]) = IF r \in R THEN "failed" ELSE VerdictOf(reply[r]),
         UNCHANGED <<rows, lapsed>>
  PROVE  Log!Next
<1>1. \A r \in R : VerdictOf(reply[r]) = "open" BY DEF Lifecycle, Life, VerdictOf
<1>2. UNCHANGED {[by |-> row.by, key |-> DedupKey(row.pt)] : row \in rows}
  BY DEF DedupKey, Unix
<1>3. [q \in Request |-> VerdictOf(reply[q])]'
        = [q \in Request |-> IF q \in R THEN "failed" ELSE VerdictOf(reply[q])]
  BY DEF VerdictOf
<1>4. Log!Fail(R) BY <1>1, <1>2, <1>3 DEF Log!Fail
<1> QED BY <1>4 DEF Log!Next

\* A guard that lapses is excused.
LEMMA LogExcuse ==
  ASSUME TypeOK', lapsed \subseteq lapsed', UNCHANGED <<rows, reply>>
  PROVE  Log!Next
<1>1. UNCHANGED {[by |-> row.by, key |-> DedupKey(row.pt)] : row \in rows}
  BY DEF DedupKey, Unix
<1>2. UNCHANGED [q \in Request |-> VerdictOf(reply[q])] BY DEF VerdictOf
<1>3. Log!Excuse BY <1>1, <1>2 DEF Log!Excuse, TypeOK
<1> QED BY <1>3 DEF Log!Next

\* The points of a job appear together, under keys that are free or excused.
LEMMA LogCommit ==
  ASSUME Safe, NEW r \in Request, Inserting(r), Commit(r), UNCHANGED <<reply, lapsed>>
  PROVE  Log!Next \/ UNCHANGED Log!logVars
<1>1. TypeOK /\ Life(r) /\ pts[r] # <<>>
  BY DEF Safe, Lifecycle, Life, Inserting
<1>2. rows \subseteq rows' /\ \A row \in rows' \ rows :
        row.by = r /\ \E i \in DOMAIN pts[r] : row.pt = pts[r][i]
  BY <1>1 DEF Commit, InsertMetric, InsertMetricBatch, PointsOf, Single, TypeOK
<1>3. ~Wrote(r) BY <1>1 DEF Life
<1>4. CASE rows' = rows BY <1>4, LogStutter
<1>5. CASE rows' # rows
  <2> DEFINE L == {[by |-> row.by, key |-> DedupKey(row.pt)] : row \in rows}
             M == {[by |-> row.by, key |-> DedupKey(row.pt)] : row \in rows'}
  <2>1. L \subseteq M BY <1>2
  <2>2. PICK new \in rows' : new \notin rows BY <1>2, <1>5
  <2>3. [by |-> new.by, key |-> DedupKey(new.pt)] \in M \ L
    BY <1>2, <1>3, <2>2 DEF Wrote
  <2>4. ASSUME NEW e \in M \ L
        PROVE  e.by = r /\ e.key \in Key /\ (e.key \in lapsed \/ ~\E f \in L : f.key = e.key)
    <3>1. PICK row \in rows' \ rows : e = [by |-> row.by, key |-> DedupKey(row.pt)]
      BY <2>4
    <3>2. PICK i \in DOMAIN pts[r] : row.pt = pts[r][i] BY <1>2
    <3>3. pts[r][i] \in Point BY <1>1 DEF TypeOK
    <3>4. DedupKey(row.pt) \in Key BY <3>2, <3>3, KeyType
    <3>5. ASSUME NEW x \in rows, DedupKey(x.pt) = DedupKey(row.pt)
          PROVE  DedupKey(row.pt) \in lapsed
      <4>1. PICK j \in DOMAIN pts[x.by] : x.pt = pts[x.by][j] /\ Claims(x.by, j)
        BY RowPoint DEF Safe
      <4>2. x.by \in Request /\ x.by # r BY <1>3, RowPoint DEF Safe, Wrote
      <4>3. Claims(r, i) BY DEF Claims, Open
      <4> QED BY <3>2, <3>5, <4>1, <4>2, <4>3 DEF Safe, ClaimsAreUnique
    <3>6. e.by = r /\ e.key = DedupKey(row.pt) BY <1>2, <3>1
    <3> QED BY <3>4, <3>5, <3>6
  <2>5. M = {[by |-> row.by, key |-> DedupKey(row.pt)] : row \in rows}'
    BY DEF DedupKey, Unix
  <2>6. [q \in Request |-> VerdictOf(reply[q])]' = [q \in Request |-> VerdictOf(reply[q])]
    BY DEF VerdictOf
  <2>7. VerdictOf(reply[r]) # "refused"
    BY <1>1 DEF Life, Inserting, VerdictOf
  <2>8. ~Log!Wrote(r) BY <1>3, LogWrote
  <2> HIDE DEF M
  <2>9. Log!Write(r)
    BY <2>1, <2>3, <2>4, <2>5, <2>6, <2>7, <2>8 DEF Log!Write, Log!Holds
  <2> QED BY <2>9 DEF Log!Next
<1> QED BY <1>4, <1>5

\* "stored" is said of what is in the log.
LEMMA LogConfirm ==
  ASSUME Safe, NEW r \in Request, pc[r] = "await", done[r] = "nil",
         Answer(r, "stored"), UNCHANGED <<rows, lapsed>>
  PROVE  Log!Next
<1>1. TypeOK /\ Life(r) /\ Durable(r)
  BY DEF Safe, Lifecycle, NilIsDurable
<1>2. VerdictOf(reply[r]) = "open" BY <1>1 DEF Life, VerdictOf
<1>3. pts[r][1] \in PointsOf(r) /\ pts[r][1] \in Point
  BY <1>1 DEF Durable, PointsOf, TypeOK
<1>4. Log!Wrote(r) \/ \E k \in lapsed : Log!Holds(k)
  <2>1. CASE [by |-> r, pt |-> pts[r][1]] \in rows
    BY <2>1, LogWrote DEF Wrote
  <2>2. CASE Taken(pts[r][1]) /\ DedupKey(pts[r][1]) \in lapsed
    <3>1. PICK row \in rows : Clash(row.pt, pts[r][1]) BY <2>2 DEF Taken
    <3>2. row.pt \in Point BY <1>1 DEF TypeOK, Row
    <3>3. DedupKey(row.pt) = DedupKey(pts[r][1]) BY <1>3, <3>1, <3>2, ClashKey
    <3>4. [by |-> row.by, key |-> DedupKey(row.pt)]
            \in {[by |-> x.by, key |-> DedupKey(x.pt)] : x \in rows}
      OBVIOUS
    <3>5. Log!Holds(DedupKey(pts[r][1])) BY <3>3, <3>4 DEF Log!Holds
    <3> QED BY <2>2, <3>5
  <2> QED BY <1>1, <1>3, <2>1, <2>2 DEF Durable
<1>5. [q \in Request |-> VerdictOf(reply[q])]'
        = [[q \in Request |-> VerdictOf(reply[q])] EXCEPT ![r] = "stored"]
  BY <1>1, LogAnswer DEF Answer, Replies, VerdictOf
<1>6. UNCHANGED {[by |-> row.by, key |-> DedupKey(row.pt)] : row \in rows}
  BY DEF DedupKey, Unix
<1>7. Log!Confirm(r) BY <1>2, <1>4, <1>5, <1>6 DEF Log!Confirm
<1> QED BY <1>7 DEF Log!Next

\* One RPC ends without a result.
LEMMA LogFailed ==
  ASSUME TypeOK, Lifecycle, NEW r \in Request, pc[r] = "await",
         NEW a \in {"ctx", "notfound", "internal"}, Answer(r, a), UNCHANGED <<rows, lapsed>>
  PROVE  Log!Next
<1>1. \A q \in Request : VerdictOf(reply'[q]) = IF q \in {r} THEN "failed" ELSE VerdictOf(reply[q])
  BY DEF Answer, TypeOK, VerdictOf, Refusals
<1> QED BY <1>1, LogFailure

LEMMA LogHandler ==
  ASSUME Safe, TypeOK', NEW r \in Request, HandlerStep(r)
  PROVE  Log!Next \/ UNCHANGED Log!logVars
<1>1. TypeOK /\ Lifecycle BY DEF Safe
<1>2. CASE RejectItem(r) \/ DuplicateItem(r)
  <2>1. UNCHANGED <<rows, lapsed>> /\ pc[r] = "admit"
    BY <1>2 DEF RejectItem, DuplicateItem, Skip, Outside, Looking
  <2>2. UNCHANGED reply \/ Answer(r, "invalid") \/ Answer(r, "duplicate")
    BY <1>2 DEF RejectItem, DuplicateItem, Skip
  <2> QED BY <1>1, <2>1, <2>2, LogStutter, LogRefusal DEF Refusals
<1>3. CASE MarkItem(r) \/ Enqueue(r)
  BY <1>3, LogStutter DEF MarkItem, Enqueue, Admit, Outside, handler
<1>4. CASE BypassItem(r)
  BY <1>4, LogExcuse DEF BypassItem, Admit, Outside
<1>5. CASE NothingLeft(r) \/ EnqueueCanceled(r) \/ EnqueueFull(r)
  <2>1. UNCHANGED <<rows, lapsed>> /\ pc[r] = "admit"
    BY <1>5 DEF NothingLeft, EnqueueCanceled, EnqueueFull, Looked, Outside
  <2>2. Answer(r, "invalid") \/ Answer(r, "canceled") \/ Answer(r, "full")
    BY <1>5 DEF NothingLeft, EnqueueCanceled, EnqueueFull
  <2> QED BY <1>1, <2>1, <2>2, LogRefusal DEF Refusals
<1>6. CASE AwaitDone(r)
  <2>1. UNCHANGED <<rows, lapsed>> BY <1>6 DEF AwaitDone, Outside
  <2>2. CASE done[r] = "nil" BY <1>6, <2>1, <2>2, LogConfirm DEF AwaitDone
  <2>3. CASE done[r] # "nil"
    BY <1>1, <1>6, <2>1, <2>3, LogFailed DEF AwaitDone, FailureStatus
  <2> QED BY <2>2, <2>3
<1>7. CASE AwaitCtx(r)
  BY <1>1, <1>7, LogFailed DEF AwaitCtx, Outside
<1> QED BY <1>2, <1>3, <1>4, <1>5, <1>6, <1>7 DEF HandlerStep

LEMMA LogWorker ==
  ASSUME Safe, WorkerStep
  PROVE  Log!Next \/ UNCHANGED Log!logVars
<1>1. CASE WorkerTake \/ WorkerEffect
  BY <1>1, LogStutter DEF WorkerTake, WorkerEffect, handler
<1>2. CASE WorkerStored \/ WorkerFailed
  <2>1. PICK r \in Request : r = worker.job /\ Inserting(r)
    BY <1>2, WorkerJob DEF Safe, WorkerStored, WorkerFailed, Inserting
  <2>2. UNCHANGED <<reply, lapsed>> /\ (UNCHANGED rows \/ Commit(r))
    BY <1>2, <2>1 DEF WorkerStored, WorkerFailed
  <2> QED BY <2>1, <2>2, LogStutter, LogCommit
<1> QED BY <1>1, <1>2 DEF WorkerStep

LEMMA LogEnvironment ==
  ASSUME Safe, TypeOK', Environment
  PROVE  Log!Next \/ UNCHANGED Log!logVars
<1>1. TypeOK /\ Lifecycle BY DEF Safe
<1>2. ASSUME NEW r \in Request, Arrive(r) PROVE Log!Next \/ UNCHANGED Log!logVars
  <2>1. UNCHANGED <<rows, lapsed>> /\ pc[r] = "idle" BY <1>2 DEF Arrive, Outside
  <2>2. UNCHANGED reply \/ Answer(r, "invalid") BY <1>2 DEF Arrive
  <2> QED BY <1>1, <2>1, <2>2, LogStutter, LogRefusal DEF Refusals
<1>3. ASSUME NEW k \in dedup, Expire(k) PROVE Log!Next
  BY <1>3, LogExcuse DEF Expire, handler, Outside
<1>4. CASE Restart
  <2> DEFINE R == {r \in Request : Running(r)}
  <2>1. \A r \in R : pc[r] # "done" BY DEF Running
  <2>2. \A r \in Request : VerdictOf(reply'[r]) = IF r \in R THEN "failed" ELSE VerdictOf(reply[r])
    BY <1>4 DEF Restart, VerdictOf, Refusals
  <2>3. UNCHANGED <<rows, lapsed>> BY <1>4 DEF Restart
  <2> HIDE DEF R
  <2>4. R \in SUBSET Request BY DEF R
  <2> QED BY <1>1, <2>1, <2>2, <2>3, <2>4, LogFailure
<1>5. ASSUME (\E r \in Request : ContextEnds(r)) \/ Tick \/ Resize \/ Drain
      PROVE  UNCHANGED Log!logVars
  BY <1>5, LogStutter DEF ContextEnds, Tick, Resize, Drain, handler, Outside
<1> QED BY <1>2, <1>3, <1>4, <1>5 DEF Environment, Crash, Exit

LEMMA LogStep ==
  ASSUME Safe, Safe', [Next]_vars
  PROVE  [Log!Next]_(Log!logVars)
<1>1. TypeOK' BY DEF Safe
<1>2. ASSUME NEW r \in Request, PostStep(r) PROVE UNCHANGED Log!logVars
  BY <1>2, LogStutter DEF PostStep, PostInvalidate, PostMark, handler
<1>3. CASE UNCHANGED vars \/ Quiesced
  BY <1>3, LogStutter DEF vars, Quiesced
<1> QED BY <1>1, <1>2, <1>3, LogHandler, LogWorker, LogEnvironment DEF Next

\* The ingest path implements the log: rows of an RPC appear at one instant,
\* each key once, and no verdict is ever taken back or made false.
THEOREM Refinement == Spec => ImplementsLog
<1>1. Safe /\ Safe' /\ [Next]_vars => [Log!Next]_(Log!logVars) BY LogStep
<1>2. Spec => [][Next]_vars BY PTL DEF Spec
<1>3. Spec => Log!Init BY LogInit DEF Spec
<1> QED BY <1>1, <1>2, <1>3, SafeInvariant, PTL DEF ImplementsLog, Log!Spec
=============================================================================
