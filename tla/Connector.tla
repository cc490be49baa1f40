------------------------------ MODULE Connector ------------------------------
(***************************************************************************)
(* The connector process: for each configured remote broker an MQTT client *)
(* whose callback puts readings into a bounded channel (dropping the       *)
(* oldest), a goroutine that takes them out and submits them to the        *)
(* telemetry service, and main, which starts the workers one after the     *)
(* other and stops them on a signal.                                       *)
(*                                                                         *)
(* A reading is named by its number of arrival at its broker.              *)
(***************************************************************************)
EXTENDS Integers, Sequences

CONSTANTS
  NumBrokers,    \* len(cfg.Brokers), started in this order
  BufferSize,    \* buffer_size of each broker, as configured
  DefaultBuffer, \* what loadConfig puts in place of a size that is not positive
  Unreachable,   \* brokers that never accept a connection
  Misconfigured, \* brokers whose client refuses to connect at all
  Names,         \* topic segments, device ids and metric names
  NoName,        \* the empty string
  External,      \* the metric name "external_metric"
  Inputs,        \* what a message may be: subscription, topic and payload
  MaxRecv,       \* bound on the messages of one broker
  MaxTime        \* bound on the clock

Broker == 1..NumBrokers

Subscription == [path : {"none", "segment", "bad"}, pathIdx : Int,
                 segment : Int, metric : Names \cup {NoName}]
Input == [sub : Subscription, topic : Seq(Names \cup {NoName}),
          ok : BOOLEAN, metric : Names \cup {NoName}, stamp : Nat]

ASSUME BrokerAssumption ==
  /\ NumBrokers \in Nat \ {0}
  /\ BufferSize \in [Broker -> Int]
  /\ DefaultBuffer \in Nat \ {0}
  /\ Unreachable \subseteq Broker /\ Misconfigured \subseteq Broker
ASSUME InputAssumption ==
  /\ Inputs \subseteq Input /\ NoName \notin Names /\ External \in Names
  /\ MaxRecv \in Nat /\ MaxTime \in Nat

VARIABLES
  now,      \* time.Now in seconds, never 0
  main,     \* "start", "run", "stop" or "exit"
  cur,      \* the broker main is starting or stopping
  link,     \* the MQTT connection: "new" until the first one is up; "deaf" is up
            \* without its subscription
  body,     \* what each broker delivered so far: the input and its arrival time
  handler,  \* where the callback of each client is in enqueue
  queue,    \* the channel of each worker, arrival numbers
  loop,     \* where processLoop is
  inflight, \* the arrival number processLoop took last
  cancelled,\* w.ctx is cancelled
  fwd,      \* the counters of the worker ...
  dropped,
  failed,   \* ... and the readings that were only logged
  sent      \* history: the requests submitted

vars == <<now, main, cur, link, body, handler, queue, loop, inflight, cancelled,
          fwd, dropped, failed, sent>>

-----------------------------------------------------------------------------
(* Pure parts of forward. *)

\* extractTopicSegment: parts[idx], which must exist and not be empty.
HasSegment(topic, idx) == idx \in 0..(Len(topic) - 1) /\ topic[idx + 1] # NoName

Segment(topic, idx) == topic[idx + 1]

\* extractDeviceID: device_id_path wins, then a positive device_id_segment,
\* then the second segment.
SegmentIndex(sub) ==
  IF sub.path = "segment" THEN sub.pathIdx
  ELSE IF sub.segment > 0 THEN sub.segment ELSE 1

Identified(in) == in.sub.path # "bad" /\ HasSegment(in.topic, SegmentIndex(in.sub))

\* Mutant: the subscription's name has no default.
MetricNameBare(in) == IF in.metric # NoName THEN in.metric ELSE in.sub.metric

MetricName(in) ==
  IF in.metric # NoName THEN in.metric
  ELSE IF in.sub.metric # NoName THEN in.sub.metric ELSE External

\* A payload without a time gets the time of arrival.
Timestamp(m) == IF m.in.stamp = 0 THEN m.at ELSE m.in.stamp

RequestOf(m) == [dev    |-> Segment(m.in.topic, SegmentIndex(m.in.sub)),
                 metric |-> MetricName(m.in),
                 stamp  |-> Timestamp(m)]

\* Mutant: the configured size is used as it is.
CapacityRaw(b) == BufferSize[b]

\* The capacity of a worker's channel, after loadConfig.
Capacity(b) == IF BufferSize[b] <= 0 THEN DefaultBuffer ELSE BufferSize[b]

Received(b) == Len(body[b])

-----------------------------------------------------------------------------
Init ==
  /\ now = 1
  /\ main = "start" /\ cur = 1
  /\ link = [b \in Broker |-> "new"]
  /\ body = [b \in Broker |-> <<>>]
  /\ handler = [b \in Broker |-> "idle"]
  /\ queue = [b \in Broker |-> <<>>]
  /\ loop = [b \in Broker |-> "none"]
  /\ inflight = [b \in Broker |-> 0]
  /\ cancelled = [b \in Broker |-> FALSE]
  /\ fwd = [b \in Broker |-> 0]
  /\ dropped = [b \in Broker |-> 0]
  /\ failed = [b \in Broker |-> 0]
  /\ sent = [b \in Broker |-> <<>>]

counters == <<fwd, dropped, failed, sent>>

(* main. *)

\* token.Wait returns once the client was connected, be it up still or not:
\* ConnectRetry keeps trying.
Started ==
  /\ main = "start" /\ cur <= NumBrokers
  /\ link[cur] # "new"
  /\ loop' = [loop EXCEPT ![cur] = "select"]
  /\ cur' = cur + 1
  /\ UNCHANGED <<now, main, link, body, handler, queue, inflight, cancelled, counters>>

\* The client has no server to connect to: start returns an error, main goes on.
StartFails ==
  /\ main = "start" /\ cur \in Misconfigured
  /\ cur' = cur + 1
  /\ UNCHANGED <<now, main, link, body, handler, queue, loop, inflight, cancelled,
                 counters>>

\* No worker at all is fatal; else main waits for its ticker and for signals.
AllStarted ==
  /\ main = "start" /\ cur > NumBrokers
  /\ main' = IF \A b \in Broker : loop[b] = "none" THEN "exit" ELSE "run"
  /\ UNCHANGED <<now, cur, link, body, handler, queue, loop, inflight, cancelled,
                 counters>>

Signal ==
  /\ main = "run"
  /\ main' = "stop" /\ cur' = 1
  /\ UNCHANGED <<now, link, body, handler, queue, loop, inflight, cancelled, counters>>

\* Mutant: the context is left alone.
CancelNothing(b) == UNCHANGED cancelled

Cancel(b) == cancelled' = [cancelled EXCEPT ![b] = TRUE]

\* stop: cancel the context of the worker ...
StopCancel ==
  /\ main = "stop" /\ cur <= NumBrokers
  /\ loop[cur] # "none" /\ ~cancelled[cur]
  /\ Cancel(cur)
  /\ UNCHANGED <<now, main, cur, link, body, handler, queue, loop, inflight, counters>>

\* ... wait for its goroutine, then disconnect.  Only started workers are
\* stopped.
StopWait ==
  /\ main = "stop" /\ cur <= NumBrokers
  /\ loop[cur] \in {"none", "exited"}
  /\ link' = IF loop[cur] = "exited" THEN [link EXCEPT ![cur] = "off"] ELSE link
  /\ cur' = cur + 1
  /\ UNCHANGED <<now, main, body, handler, queue, loop, inflight, cancelled, counters>>

Stopped ==
  /\ main = "stop" /\ cur > NumBrokers
  /\ main' = "exit"
  /\ UNCHANGED <<now, cur, link, body, handler, queue, loop, inflight, cancelled,
                 counters>>

-----------------------------------------------------------------------------
(* The MQTT client of broker b, and its callback. *)

\* start was called and stop has not disconnected the client.
Dialing(b) ==
  \/ main = "start" /\ b <= cur
  \/ main = "run"
  \/ main = "stop" /\ (b >= cur \/ loop[b] = "none")

\* The client connects, at first or again, and subscribes, which may fail.
Connect(b) ==
  /\ Dialing(b) /\ link[b] \in {"new", "off"}
  /\ b \notin Unreachable \cup Misconfigured
  /\ \E l \in {"on", "deaf"} : link' = [link EXCEPT ![b] = l]
  /\ UNCHANGED <<now, main, cur, body, handler, queue, loop, inflight, cancelled,
                 counters>>

LoseLink(b) ==
  /\ main # "exit" /\ link[b] \in {"on", "deaf"}
  /\ link' = [link EXCEPT ![b] = "off"]
  /\ UNCHANGED <<now, main, cur, body, handler, queue, loop, inflight, cancelled,
                 counters>>

\* The callback counts the message and calls enqueue.
Receive(b) ==
  /\ main # "exit" /\ link[b] = "on" /\ handler[b] = "idle"
  /\ Received(b) < MaxRecv
  /\ \E in \in Inputs :
       body' = [body EXCEPT ![b] = Append(@, [in |-> in, at |-> now])]
  /\ handler' = [handler EXCEPT ![b] = "send"]
  /\ UNCHANGED <<now, main, cur, link, queue, loop, inflight, cancelled, counters>>

\* Mutant: the channel takes one reading too many.
RoomForOneMore(b) == Len(queue[b]) <= Capacity(b)

Room(b) == Len(queue[b]) < Capacity(b)

Push(b) == queue' = [queue EXCEPT ![b] = Append(@, Received(b))]

\* The first select of enqueue.
EnqueueSend(b) ==
  /\ main # "exit" /\ handler[b] = "send"
  /\ IF Room(b)
       THEN Push(b) /\ handler' = [handler EXCEPT ![b] = "idle"]
       ELSE UNCHANGED queue /\ handler' = [handler EXCEPT ![b] = "evict"]
  /\ UNCHANGED <<now, main, cur, link, body, loop, inflight, cancelled, counters>>

\* Mutant: the channel is drained, and one reading is counted.
EvictAll(q) == <<>>

\* Mutant: the newest reading gives way.
EvictNewest(q) == SubSeq(q, 1, Len(q) - 1)

Evict(q) == Tail(q)

\* The second select takes the oldest reading out, if processLoop left one.
EnqueueEvict(b) ==
  /\ main # "exit" /\ handler[b] = "evict"
  /\ IF queue[b] # <<>>
       THEN /\ queue' = [queue EXCEPT ![b] = Evict(@)]
            /\ dropped' = [dropped EXCEPT ![b] = @ + 1]
       ELSE UNCHANGED <<queue, dropped>>
  /\ handler' = [handler EXCEPT ![b] = "resend"]
  /\ UNCHANGED <<now, main, cur, link, body, loop, inflight, cancelled, fwd, failed,
                 sent>>

\* The third select sends, or gives the new reading up.
EnqueueResend(b) ==
  /\ main # "exit" /\ handler[b] = "resend"
  /\ IF Room(b)
       THEN Push(b) /\ UNCHANGED dropped
       ELSE UNCHANGED queue /\ dropped' = [dropped EXCEPT ![b] = @ + 1]
  /\ handler' = [handler EXCEPT ![b] = "idle"]
  /\ UNCHANGED <<now, main, cur, link, body, loop, inflight, cancelled, fwd, failed,
                 sent>>

-----------------------------------------------------------------------------
(* processLoop of broker b. *)

\* When the context is cancelled and the channel is not empty, the select may
\* choose either.
LoopExit(b) ==
  /\ main # "exit" /\ loop[b] = "select" /\ cancelled[b]
  /\ loop' = [loop EXCEPT ![b] = "exited"]
  /\ UNCHANGED <<now, main, cur, link, body, handler, queue, inflight, cancelled,
                 counters>>

LoopTake(b) ==
  /\ main # "exit" /\ loop[b] = "select" /\ queue[b] # <<>>
  /\ inflight' = [inflight EXCEPT ![b] = Head(queue[b])]
  /\ queue' = [queue EXCEPT ![b] = Tail(@)]
  /\ loop' = [loop EXCEPT ![b] = "forward"]
  /\ UNCHANGED <<now, main, cur, link, body, handler, cancelled, counters>>

Taken(b) == body[b][inflight[b]]

\* Mutant: an error ends the goroutine.
AfterFailureExit == "exited"

\* An error is logged and the loop goes on.
AfterFailure == "select"

Fails(b) ==
  /\ failed' = [failed EXCEPT ![b] = @ + 1]
  /\ loop' = [loop EXCEPT ![b] = AfterFailure]

\* forward drops what names no device and what does not parse ...
ForwardReject(b) ==
  /\ main # "exit" /\ loop[b] = "forward"
  /\ ~(Identified(Taken(b).in) /\ Taken(b).in.ok)
  /\ Fails(b)
  /\ UNCHANGED <<now, main, cur, link, body, handler, queue, inflight, cancelled, fwd,
                 dropped, sent>>

\* ... and submits the rest.
ForwardSubmit(b) ==
  /\ main # "exit" /\ loop[b] = "forward"
  /\ Identified(Taken(b).in) /\ Taken(b).in.ok
  /\ sent' = [sent EXCEPT ![b] = Append(@, RequestOf(Taken(b)))]
  /\ loop' = [loop EXCEPT ![b] = "rpc"]
  /\ UNCHANGED <<now, main, cur, link, body, handler, queue, inflight, cancelled, fwd,
                 dropped, failed>>

\* SubmitMetric returns: with success, or with the service's error, the
\* timeout or the cancellation of the worker.
RpcSucceeds(b) ==
  /\ main # "exit" /\ loop[b] = "rpc"
  /\ fwd' = [fwd EXCEPT ![b] = @ + 1]
  /\ loop' = [loop EXCEPT ![b] = "select"]
  /\ UNCHANGED <<now, main, cur, link, body, handler, queue, inflight, cancelled,
                 dropped, failed, sent>>

RpcFails(b) ==
  /\ main # "exit" /\ loop[b] = "rpc"
  /\ Fails(b)
  /\ UNCHANGED <<now, main, cur, link, body, handler, queue, inflight, cancelled, fwd,
                 dropped, sent>>

Tick ==
  /\ main # "exit" /\ now < MaxTime
  /\ now' = now + 1
  /\ UNCHANGED <<main, cur, link, body, handler, queue, loop, inflight, cancelled,
                 counters>>

\* The process has ended.
Exited == main = "exit" /\ UNCHANGED vars

-----------------------------------------------------------------------------
MainStep == Started \/ StartFails \/ AllStarted \/ StopCancel \/ StopWait \/ Stopped

CallbackStep(b) == EnqueueSend(b) \/ EnqueueEvict(b) \/ EnqueueResend(b)

ForwardStep(b) == ForwardReject(b) \/ ForwardSubmit(b) \/ RpcSucceeds(b) \/ RpcFails(b)

LoopStep(b) == LoopTake(b) \/ ForwardStep(b) \/ LoopExit(b)

Next ==
  \/ MainStep \/ Signal \/ Tick \/ Exited
  \/ \E b \in Broker :
       Connect(b) \/ LoseLink(b) \/ Receive(b) \/ CallbackStep(b) \/ LoopStep(b)

\* The goroutines run, a reachable broker is reached in the end, and a select
\* that finds the cancelled context ready again and again does choose it.
Fairness ==
  /\ WF_vars(MainStep)
  /\ \A b \in Broker :
       /\ WF_vars(Connect(b)) /\ WF_vars(CallbackStep(b)) /\ WF_vars(LoopStep(b))
       /\ SF_vars(LoopExit(b))

Spec == Init /\ [][Next]_vars

FairSpec == Spec /\ Fairness

-----------------------------------------------------------------------------
(* Properties. *)

Message == [in : Inputs, at : Nat \ {0}]

\* Every variable has its type; no channel holds more than its capacity.
TypeOK ==
  /\ now \in Nat \ {0}
  /\ main \in {"start", "run", "stop", "exit"}
  /\ cur \in 1..(NumBrokers + 1)
  /\ link \in [Broker -> {"new", "off", "deaf", "on"}]
  /\ body \in [Broker -> Seq(Message)]
  /\ handler \in [Broker -> {"idle", "send", "evict", "resend"}]
  /\ queue \in [Broker -> Seq(Nat)]
  /\ \A b \in Broker : Len(queue[b]) <= Capacity(b)
  /\ loop \in [Broker -> {"none", "select", "forward", "rpc", "exited"}]
  /\ inflight \in [Broker -> Nat]
  /\ cancelled \in [Broker -> BOOLEAN]
  /\ fwd \in [Broker -> Nat] /\ dropped \in [Broker -> Nat] /\ failed \in [Broker -> Nat]
  /\ sent \in [Broker -> Seq([dev : Names \cup {NoName},
                              metric : Names \cup {NoName}, stamp : Nat])]

InHand(b) == IF handler[b] = "idle" THEN 0 ELSE 1

\* Arrivals that enqueue has dealt with.
Settled(b) == Received(b) - InHand(b)

HoldsLatest(b) ==
  /\ \A i \in 1..Len(queue[b]) : queue[b][i] = Settled(b) - Len(queue[b]) + i
  /\ inflight[b] <= Settled(b) - Len(queue[b])
  /\ Len(queue[b]) = 0 /\ handler[b] # "resend" => inflight[b] = Settled(b)

\* "Drop oldest to keep freshest telemetry": whatever the callback and
\* processLoop do between the three selects of enqueue, the channel holds
\* exactly the latest arrivals, in order and without a gap, the reading being
\* forwarded is older than all of them, and an empty channel means that the
\* latest arrival was taken, not dropped.
KeepsFreshest == \A b \in Broker : HoldsLatest(b)

Busy(b) == IF loop[b] \in {"forward", "rpc"} THEN 1 ELSE 0

Accounted(b) ==
  Received(b) = InHand(b) + Len(queue[b]) + Busy(b) + fwd[b] + failed[b] + dropped[b]

\* The counters account for every arrival: it is in the callback's hand, in
\* the channel, being forwarded, or counted exactly once.
NothingUnaccounted == \A b \in Broker : Accounted(b)

\* Backpressure costs no more than it must: a worker that received n readings
\* has dropped at most n - capacity of them, although enqueue may evict a
\* reading when processLoop has just made room.
DropsBounded ==
  \A b \in Broker : dropped[b] > 0 => dropped[b] + Capacity(b) <= Received(b)

\* The request is about the message: a device, a metric, and the time of the
\* payload or of the arrival.
Describes(q, m) ==
  /\ q.dev # NoName /\ q.metric # NoName
  /\ q.stamp \in {m.in.stamp, m.at} \ {0}

Complete(b) ==
  \A i \in DOMAIN sent[b] : \E j \in DOMAIN body[b] : Describes(sent[b][i], body[b][j])

\* The telemetry service can attribute every request: it names a device and a
\* metric, and its time is the payload's or the one of a message's arrival,
\* however long that message waited in the channel.
RequestsAreComplete == \A b \in Broker : Complete(b)

\* An arrival is in the abstract queue from the moment it has evicted another.
Outside(b) == IF handler[b] \in {"send", "evict"} THEN 1 ELSE 0

Queue == INSTANCE FreshestQueue WITH
  Worker  <- Broker,
  Size    <- [b \in Broker |-> Capacity(b)],
  arrived <- [b \in Broker |-> Received(b)],
  let     <- [b \in Broker |-> Received(b) - Outside(b)],
  taken   <- [b \in Broker |-> fwd[b] + failed[b] + Busy(b)],
  lost    <- dropped,
  last    <- inflight,
  pressed <- [b \in Broker |-> handler[b] = "evict"]

\* The three selects of enqueue, with processLoop receiving in between, work as
\* one atomic step on a queue that drops its oldest entry: each reading that
\* processLoop takes is the oldest that is left, a reading is dropped only for
\* a newer one that found the channel full, and the new reading always gets in.
ImplementsQueue == Queue!Spec

\* The i-th arrival of b is still in the channel or in somebody's hand.
Pending(b, i) ==
  \/ handler[b] # "idle" /\ i = Received(b)
  \/ \E j \in DOMAIN queue[b] : queue[b][j] = i
  \/ loop[b] \in {"forward", "rpc"} /\ inflight[b] = i

\* A reading that arrived is forwarded, counted as dropped or logged as failed
\* in the end, unless the worker is stopped first.
EveryReadingSettles ==
  \A b \in Broker, i \in 1..MaxRecv :
    Pending(b, i) /\ loop[b] # "none" ~> ~Pending(b, i) \/ cancelled[b]

\* After a signal the process ends, whatever is in the channels and in flight.
StopCompletes == main = "stop" ~> main = "exit"

-----------------------------------------------------------------------------
(* The inductive invariant behind the safety properties. *)

\* What is known between the three selects of enqueue: after the eviction there
\* is room, because the callback is the only sender.
EnqueueKnows(b) ==
  /\ handler[b] # "idle" => Received(b) > 0
  /\ handler[b] = "evict" => Received(b) > Capacity(b)
  /\ handler[b] = "resend" => Len(queue[b]) < Capacity(b)

\* An arrival that has not evicted anything yet has still its turn to do so.
DropQuota(b) ==
  dropped[b] > 0 => dropped[b] + Capacity(b) + Outside(b) <= Received(b)

ForwardKnows(b) == loop[b] \in {"forward", "rpc"} => inflight[b] \in 1..Received(b)

WorkerSafe(b) ==
  /\ HoldsLatest(b) /\ Accounted(b) /\ Complete(b)
  /\ EnqueueKnows(b) /\ DropQuota(b) /\ ForwardKnows(b)

\* main starts the workers in order.
StartedInOrder == main = "start" => \A b \in Broker : b >= cur => loop[b] = "none"

Safe == TypeOK /\ StartedInOrder /\ \A b \in Broker : WorkerSafe(b)
=============================================================================
