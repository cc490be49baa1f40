--------------------------- MODULE ConnectorProofs ---------------------------
(***************************************************************************)
(* Proofs about Connector: Safe is an inductive invariant, for any number  *)
(* of brokers, any buffer sizes and any inputs, and the channels implement *)
(* FreshestQueue.                                                          *)
(***************************************************************************)
EXTENDS Connector, TLAPS

USE DEF counters, Cancel

\* Every channel has room for at least one reading: loadConfig replaces sizes
\* that are not positive.
LEMMA CapacityPositive ==
  \A b \in Broker : Capacity(b) \in Nat \ {0}
BY BrokerAssumption DEF Capacity

\* A shift of both ends changes nothing.
LEMMA ShiftOne == \A t, n, i \in Int : t - n + i = (t + 1) - (n + 1) + i
OBVIOUS

\* Sending to and receiving from a channel.
LEMMA AppendFacts ==
  ASSUME NEW S, NEW q \in Seq(S), NEW e \in S
  PROVE  /\ Append(q, e) \in Seq(S) /\ Len(Append(q, e)) = Len(q) + 1
         /\ \A i \in 1..Len(q) : Append(q, e)[i] = q[i]
         /\ Append(q, e)[Len(q) + 1] = e
OBVIOUS

LEMMA TailFacts ==
  ASSUME NEW S, NEW q \in Seq(S), q # <<>>
  PROVE  /\ Tail(q) \in Seq(S) /\ Len(Tail(q)) = Len(q) - 1
         /\ \A i \in 1..(Len(q) - 1) : Tail(q)[i] = q[i + 1]
         /\ Head(q) = q[1] /\ Len(q) > 0
OBVIOUS

\* What the parts of forward return for the inputs there are.
LEMMA InputType ==
  ASSUME NEW in \in Inputs
  PROVE  /\ in \in Input
         /\ MetricName(in) \in Names
         /\ Identified(in) => Segment(in.topic, SegmentIndex(in.sub)) \in Names
<1>1. in \in Input
  BY InputAssumption
<1>2. MetricName(in) \in Names
  BY <1>1, InputAssumption DEF MetricName, Input, Subscription
<1>3. SegmentIndex(in.sub) \in Int
  BY <1>1 DEF SegmentIndex, Input, Subscription
<1>4. ASSUME Identified(in) PROVE Segment(in.topic, SegmentIndex(in.sub)) \in Names
  <2>1. /\ in.topic \in Seq(Names \cup {NoName})
        /\ SegmentIndex(in.sub) + 1 \in 1..Len(in.topic)
        /\ in.topic[SegmentIndex(in.sub) + 1] # NoName
    BY <1>1, <1>3, <1>4 DEF Identified, HasSegment, Input
  <2> QED
    BY <2>1 DEF Segment
<1> QED
  BY <1>1, <1>2, <1>4

\* The request forward builds from a message that names its device.
LEMMA RequestType ==
  ASSUME NEW m \in Message, Identified(m.in)
  PROVE  /\ RequestOf(m) \in [dev : Names \cup {NoName}, metric : Names \cup {NoName},
                              stamp : Nat]
         /\ Describes(RequestOf(m), m)
<1>1. m.in \in Inputs /\ m.at \in Nat \ {0}
  BY DEF Message
<1>2. /\ m.in \in Input
      /\ MetricName(m.in) \in Names
      /\ Segment(m.in.topic, SegmentIndex(m.in.sub)) \in Names
  BY <1>1, InputType
<1>3. m.in.stamp \in Nat
  BY <1>2 DEF Input
<1> QED
  BY <1>1, <1>2, <1>3, InputAssumption DEF RequestOf, Timestamp, Describes

LEMMA InitSafe == Init => Safe
<1> SUFFICES ASSUME Init PROVE Safe
  OBVIOUS
<1>1. TypeOK
  BY CapacityPositive, BrokerAssumption DEF Init, TypeOK
<1>2. \A b \in Broker : WorkerSafe(b)
  BY DEF Init, WorkerSafe, HoldsLatest, Accounted, Complete, EnqueueKnows, DropQuota,
     ForwardKnows, Settled, InHand, Busy, Received
<1>3. StartedInOrder
  BY DEF Init, StartedInOrder
<1> QED
  BY <1>1, <1>2, <1>3 DEF Safe

-----------------------------------------------------------------------------
\* What WorkerSafe depends on.
View(b) == <<body[b], handler[b], queue[b], loop[b], inflight[b], fwd[b], dropped[b],
             failed[b], sent[b]>>

\* A step that changes nothing of a worker keeps its invariant.
LEMMA WorkerFrame ==
  ASSUME NEW b \in Broker, WorkerSafe(b), UNCHANGED View(b)
  PROVE  WorkerSafe(b)'
BY DEF View, WorkerSafe, HoldsLatest, Accounted, Complete, EnqueueKnows, DropQuota,
       ForwardKnows, Settled, InHand, Busy, Received, Capacity, Outside

\* processLoop going idle or away changes nothing else.
LEMMA LoopFrame ==
  ASSUME NEW b \in Broker, WorkerSafe(b),
         loop[b] \notin {"forward", "rpc"}, loop'[b] \notin {"forward", "rpc"},
         UNCHANGED <<body[b], handler[b], queue[b], inflight[b], fwd[b], dropped[b],
                     failed[b], sent[b]>>
  PROVE  WorkerSafe(b)'
BY DEF WorkerSafe, HoldsLatest, Accounted, Complete, EnqueueKnows, DropQuota,
       ForwardKnows, Settled, InHand, Busy, Received, Capacity, Outside

\* main, the connections and the clock.
LEMMA MainSafe ==
  ASSUME Safe,
         \/ Started \/ StartFails \/ AllStarted \/ StopCancel \/ StopWait \/ Stopped
         \/ Signal \/ Tick \/ \E b \in Broker : Connect(b) \/ LoseLink(b) \/ LoopExit(b)
  PROVE  Safe'
<1>t. TypeOK /\ StartedInOrder /\ \A b \in Broker : WorkerSafe(b)
  BY DEF Safe
<1>c. \A b \in Broker : Capacity(b)' = Capacity(b)
  BY DEF Capacity
<1>n. /\ NumBrokers \in Nat \ {0} /\ cur \in 1..(NumBrokers + 1)
      /\ now \in Nat \ {0} /\ main \in {"start", "run", "stop", "exit"}
  BY <1>t, BrokerAssumption DEF TypeOK
<1>b. \A b \in Int : b \in Broker <=> b >= 1 /\ b <= NumBrokers
  BY <1>n DEF Broker
<1>i. Broker \subseteq Int
  BY <1>n DEF Broker
<1>1. ASSUME Started PROVE Safe'
  <2>1. cur \in Broker /\ loop[cur] = "none"
    BY <1>t, <1>1, <1>n, <1>b DEF Started, StartedInOrder
  <2>0. cur' \in 1..(NumBrokers + 1)
    BY <1>1, <1>n DEF Started
  <2>2. TypeOK'
    BY <1>t, <1>c, <1>1, <2>0, <2>1 DEF Started, TypeOK
  <2>3. StartedInOrder'
    BY <1>t, <1>1, <1>n, <1>i, <2>1 DEF Started, StartedInOrder
  <2>4. \A b \in Broker : WorkerSafe(b)'
    <3> TAKE b \in Broker
    <3>1. CASE b = cur
      BY <3>1, <1>t, <1>1, <2>1, LoopFrame DEF Started, TypeOK
    <3>2. CASE b # cur
      BY <3>2, <1>t, <1>1, <2>1, WorkerFrame DEF Started, TypeOK, View
    <3> QED
      BY <3>1, <3>2
  <2> QED
    BY <2>2, <2>3, <2>4 DEF Safe
<1>2. ASSUME NEW b \in Broker, LoopExit(b) PROVE Safe'
  <2>1. TypeOK'
    BY <1>t, <1>c, <1>2 DEF LoopExit, TypeOK
  <2>2. StartedInOrder'
    BY <1>t, <1>2 DEF LoopExit, TypeOK, StartedInOrder
  <2>3. \A a \in Broker : WorkerSafe(a)'
    <3> TAKE a \in Broker
    <3>1. CASE a = b
      BY <3>1, <1>t, <1>2, LoopFrame DEF LoopExit, TypeOK
    <3>2. CASE a # b
      BY <3>2, <1>t, <1>2, WorkerFrame DEF LoopExit, TypeOK, View
    <3> QED
      BY <3>1, <3>2
  <2> QED
    BY <2>1, <2>2, <2>3 DEF Safe
<1>3. ASSUME UNCHANGED <<body, handler, queue, loop, inflight, counters>>,
             TypeOK', StartedInOrder'
      PROVE  Safe'
  BY <1>t, <1>3, WorkerFrame DEF View, Safe
<1>4. ASSUME \/ StartFails \/ AllStarted \/ StopCancel \/ StopWait \/ Stopped
             \/ Signal \/ Tick \/ \E b \in Broker : Connect(b) \/ LoseLink(b)
      PROVE  Safe'
  <2>1. UNCHANGED <<body, handler, queue, loop, inflight, counters>>
    BY <1>4 DEF StartFails, AllStarted, StopCancel, StopWait, Stopped, Signal, Tick,
                Connect, LoseLink
  <2>2. cur' \in 1..(NumBrokers + 1)
    BY <1>n, <1>b, <1>i, <1>4, BrokerAssumption
       DEF StartFails, AllStarted, StopCancel, StopWait, Stopped, Signal, Tick, Connect,
           LoseLink
  <2>3. link' \in [Broker -> {"new", "off", "deaf", "on"}]
    BY <1>t, <1>4, ZenonT(60) DEF TypeOK, StartFails, AllStarted, StopCancel, StopWait, Stopped,
                                Signal, Tick, Connect, LoseLink
  <2>4. cancelled' \in [Broker -> BOOLEAN]
    <3>1. CASE StopCancel
      BY <3>1, <1>t DEF TypeOK, StopCancel
    <3>2. CASE ~StopCancel
      <4>1. UNCHANGED cancelled
        BY <3>2, <1>4 DEF StartFails, AllStarted, StopWait, Stopped, Signal, Tick,
                          Connect, LoseLink
      <4> QED
        BY <4>1, <1>t DEF TypeOK
    <3> QED
      BY <3>1, <3>2
  <2>5. now' \in Nat \ {0} /\ main' \in {"start", "run", "stop", "exit"}
    <3>1. CASE AllStarted
      BY <3>1, <1>n DEF AllStarted
    <3>2. CASE ~AllStarted
      BY <3>2, <1>n, <1>4 DEF StartFails, StopCancel, StopWait, Stopped, Signal, Tick,
                              Connect, LoseLink
    <3> QED
      BY <3>1, <3>2
  <2>6. TypeOK'
    BY <1>t, <1>c, <2>1, <2>2, <2>3, <2>4, <2>5 DEF TypeOK
  <2>7. StartedInOrder'
    <3>1. main' = "start" => main = "start" /\ cur' >= cur
      <4>1. CASE AllStarted
        BY <4>1 DEF AllStarted
      <4>2. CASE ~AllStarted
        BY <4>2, <1>n, <1>4 DEF StartFails, StopCancel, StopWait, Stopped, Signal, Tick,
                                Connect, LoseLink
      <4> QED
        BY <4>1, <4>2
    <3> QED
      BY <3>1, <1>t, <1>n, <1>i, <2>1, <2>2 DEF StartedInOrder
  <2> QED
    BY <1>3, <2>1, <2>6, <2>7
<1> QED
  BY <1>1, <1>2, <1>4

\* A message arrives.
LEMMA ReceiveSafe ==
  ASSUME Safe, NEW b \in Broker, Receive(b)
  PROVE  Safe'
<1>t. TypeOK /\ StartedInOrder /\ \A a \in Broker : WorkerSafe(a)
  BY DEF Safe
<1>c. Capacity(b) \in Nat \ {0} /\ \A a \in Broker : Capacity(a)' = Capacity(a)
  BY CapacityPositive DEF Capacity
<1>s. /\ body[b] \in Seq(Message) /\ queue[b] \in Seq(Nat) /\ Len(queue[b]) <= Capacity(b)
      /\ Len(body[b]) \in Nat /\ Len(queue[b]) \in Nat
      /\ inflight[b] \in Nat /\ fwd[b] \in Nat /\ dropped[b] \in Nat /\ failed[b] \in Nat
  BY <1>t DEF TypeOK
<1>p. HoldsLatest(b) /\ Accounted(b) /\ Complete(b) /\ EnqueueKnows(b) /\ DropQuota(b) /\ ForwardKnows(b)
  BY <1>t DEF WorkerSafe
<1>1. PICK m \in Message : body' = [body EXCEPT ![b] = Append(@, m)]
  BY <1>t DEF Receive, TypeOK, Message
<1>2. /\ body'[b] = Append(body[b], m) /\ body'[b] \in Seq(Message)
      /\ Len(body'[b]) = Len(body[b]) + 1
      /\ DOMAIN body[b] \subseteq DOMAIN body'[b]
      /\ \A i \in DOMAIN body[b] : body'[b][i] = body[b][i]
  BY <1>1, <1>s, <1>t DEF TypeOK
<1>3. handler[b] = "idle" /\ handler'[b] = "send"
      /\ UNCHANGED <<queue, loop, inflight, fwd, dropped, failed, sent>>
  BY <1>t DEF Receive, TypeOK
<1>ty. TypeOK'
  BY <1>t, <1>c, <1>1, <1>2 DEF Receive, TypeOK
<1>so. StartedInOrder'
  BY <1>t DEF Receive, TypeOK, StartedInOrder
<1>w. WorkerSafe(b)'
  <2>1. Settled(b)' = Settled(b) /\ InHand(b)' = 1 /\ InHand(b) = 0 /\ Received(b)' = Received(b) + 1
    BY <1>s, <1>2, <1>3 DEF Settled, InHand, Received
  <2>3. HoldsLatest(b)'
    BY <1>p, <1>3, <2>1 DEF HoldsLatest
  <2>4. Accounted(b)'
    <3>1. Busy(b)' = Busy(b) /\ Busy(b) \in Int
      BY <1>3 DEF Busy
    <3>h. InHand(b) = 0 /\ InHand(b)' = 1
      BY <2>1 DEF InHand
    <3>s. Len(body[b]) \in Int /\ Len(queue[b]) \in Int /\ fwd[b] \in Int /\ failed[b] \in Int
          /\ dropped[b] \in Int
      BY <1>s
    <3>c. PICK n \in Int, q \in Int, k \in Int, f \in Int, l \in Int, d \in Int :
            /\ n = Len(body[b]) /\ q = Len(queue[b]) /\ k = Busy(b) /\ f = fwd[b]
            /\ l = failed[b] /\ d = dropped[b]
      BY <3>s, <3>1
    <3>2. n = 0 + q + k + f + l + d
      BY <1>p, <3>c, <3>h DEF Accounted, Received
    <3>3. n + 1 = 1 + q + k + f + l + d
      BY <3>2
    <3> QED
      BY <1>2, <1>3, <2>1, <3>1, <3>h, <3>c, <3>3 DEF Accounted, Received
  <2>5. EnqueueKnows(b)'
    BY <1>s, <1>3, <2>1 DEF EnqueueKnows, Received
  <2>6. DropQuota(b)'
    BY <1>c, <1>s, <1>p, <1>3, <2>1 DEF DropQuota, Outside, Received
  <2>7. ForwardKnows(b)'
    BY <1>s, <1>p, <1>3, <2>1 DEF ForwardKnows, Received
  <2>2. Complete(b)'
    BY <1>p, <1>2, <1>3 DEF Complete
  <2> QED
    BY <2>2, <2>3, <2>4, <2>5, <2>6, <2>7 DEF WorkerSafe
<1>o. ASSUME NEW a \in Broker, a # b PROVE WorkerSafe(a)'
  BY <1>t, <1>o, WorkerFrame DEF Receive, TypeOK, View
<1> QED
  BY <1>ty, <1>so, <1>w, <1>o DEF Safe

\* The first select of enqueue keeps the invariant.
LEMMA EnqueueSendSafe ==
  ASSUME Safe, NEW b \in Broker, EnqueueSend(b)
  PROVE  Safe'
<1>t. TypeOK /\ StartedInOrder /\ \A a \in Broker : WorkerSafe(a)
  BY DEF Safe
<1>c. Capacity(b) \in Nat \ {0} /\ \A a \in Broker : Capacity(a)' = Capacity(a)
  BY CapacityPositive DEF Capacity
<1>s. /\ body[b] \in Seq(Message) /\ queue[b] \in Seq(Nat) /\ Len(queue[b]) <= Capacity(b)
      /\ Len(body[b]) \in Nat /\ Len(queue[b]) \in Nat
      /\ inflight[b] \in Nat /\ fwd[b] \in Nat /\ dropped[b] \in Nat /\ failed[b] \in Nat
  BY <1>t DEF TypeOK
<1>p. HoldsLatest(b) /\ Accounted(b) /\ Complete(b) /\ EnqueueKnows(b) /\ DropQuota(b) /\ ForwardKnows(b)
  BY <1>t DEF WorkerSafe
<1>1. ASSUME Room(b) PROVE TypeOK' /\ WorkerSafe(b)'
  <2>q. queue' = [queue EXCEPT ![b] = Append(queue[b], Len(body[b]))] /\ queue'[b] = Append(queue[b], Len(body[b]))
    BY <1>t, <1>1 DEF EnqueueSend, Push, Received, TypeOK
  <2>a. /\ queue'[b] = Append(queue[b], Len(body[b])) /\ queue'[b] \in Seq(Nat)
        /\ Len(queue'[b]) = Len(queue[b]) + 1
        /\ \A i \in 1..Len(queue[b]) : queue'[b][i] = queue[b][i]
        /\ queue'[b][Len(queue[b]) + 1] = Len(body[b])
    BY <1>s, <2>q, AppendFacts
  <2>l. queue' \in [Broker -> Seq(Nat)] /\ \A a \in Broker : Len(queue'[a]) <= Capacity(a)
    BY <1>t, <1>c, <1>s, <1>1, <2>q, <2>a, SMTT(30) DEF Room, TypeOK
  <2>b. handler'[b] = "idle" /\ UNCHANGED <<body, loop, inflight, fwd, dropped, failed, sent>>
    BY <1>t, <1>1 DEF EnqueueSend, TypeOK
  <2>d. Settled(b)' = Settled(b) + 1 /\ InHand(b)' = 0 /\ InHand(b) = 1
        /\ Settled(b)' = Len(body[b]) /\ Settled(b) \in Int
    BY <1>s, <2>b DEF EnqueueSend, Settled, InHand, Received
  <2>1. HoldsLatest(b)'
    <3>1. \A i \in 1..(Len(queue[b]) + 1) :
            queue'[b][i] = Settled(b)' - (Len(queue[b]) + 1) + i
      <4> TAKE i \in 1..(Len(queue[b]) + 1)
      <4>1. CASE i = Len(queue[b]) + 1
        BY <4>1, <1>s, <2>a, <2>d
      <4>2. CASE i \in 1..Len(queue[b])
        <5>t. PICK t \in Int : Settled(b) = t
          BY <2>d
        <5>1. queue'[b][i] = t - Len(queue[b]) + i
          BY <4>2, <5>t, <1>p, <2>a DEF HoldsLatest
        <5>2. Settled(b)' = t + 1
          BY <5>t, <2>d
        <5>n. PICK n \in Int : Len(queue[b]) = n
          BY <1>s
        <5>3. t - n + i = (t + 1) - (n + 1) + i
          BY <4>2, <1>s, ShiftOne
        <5> QED
          BY <5>1, <5>2, <5>n, <5>3
      <4> QED
        BY <4>1, <4>2, <1>s
    <3>2. inflight'[b] <= Settled(b)' - (Len(queue[b]) + 1)
      <4>1. inflight[b] <= Settled(b) - Len(queue[b])
        BY <1>p DEF HoldsLatest
      <4> QED
        BY <4>1, <1>s, <2>b, <2>d
    <3>3. Len(queue'[b]) = Len(queue[b]) + 1 /\ Len(queue'[b]) # 0
      BY <2>a, <1>s
    <3> QED
      BY <3>1, <3>2, <3>3 DEF HoldsLatest
  <2>2. Accounted(b)'
    <3>1. Busy(b)' = Busy(b) /\ Busy(b) \in Int
      BY <2>b DEF Busy
    <3>h. InHand(b) = 1 /\ InHand(b)' = 0
      BY <2>d
    <3>s. Len(body[b]) \in Int /\ Len(queue[b]) \in Int /\ fwd[b] \in Int /\ failed[b] \in Int
          /\ dropped[b] \in Int
      BY <1>s
    <3>c. PICK n \in Int, q \in Int, k \in Int, f \in Int, l \in Int, d \in Int :
            /\ n = Len(body[b]) /\ q = Len(queue[b]) /\ k = Busy(b) /\ f = fwd[b]
            /\ l = failed[b] /\ d = dropped[b]
      BY <3>s, <3>1
    <3>2. n = 1 + q + k + f + l + d
      BY <1>p, <3>c, <3>h DEF Accounted, Received
    <3>3. n = 0 + (q + 1) + k + f + l + d
      BY <3>2
    <3> QED
      BY <2>a, <2>b, <3>1, <3>h, <3>c, <3>3 DEF Accounted, Received
  <2>3. Complete(b)'
    BY <1>p, <2>b DEF Complete
  <2>4. EnqueueKnows(b)'
    BY <2>b DEF EnqueueKnows
  <2>5. DropQuota(b)'
    BY <1>c, <1>s, <1>p, <2>b DEF EnqueueSend, DropQuota, Outside, Received
  <2>6. ForwardKnows(b)'
    BY <1>p, <2>b DEF ForwardKnows, Received
  <2>7. TypeOK'
    <3>1. handler' \in [Broker -> {"idle", "send", "evict", "resend"}]
      <4>1. handler' = [handler EXCEPT ![b] = "idle"]
        BY <1>1 DEF EnqueueSend
      <4>2. handler \in [Broker -> {"idle", "send", "evict", "resend"}]
        BY <1>t DEF TypeOK
      <4> QED
        BY <4>1, <4>2
    <3>2. UNCHANGED <<now, main, cur, link, cancelled>>
      BY DEF EnqueueSend
    <3> QED
      BY <1>t, <1>c, <2>b, <2>l, <3>1, <3>2 DEF TypeOK
  <2> QED
    BY <2>1, <2>2, <2>3, <2>4, <2>5, <2>6, <2>7 DEF WorkerSafe
<1>2. ASSUME ~Room(b) PROVE TypeOK' /\ WorkerSafe(b)'
  <2>a. handler'[b] = "evict" /\ handler[b] = "send"
        /\ UNCHANGED <<body, queue, loop, inflight, fwd, dropped, failed, sent>>
    BY <1>t, <1>2 DEF EnqueueSend, TypeOK
  <2>b. Len(queue[b]) = Capacity(b)
    BY <1>s, <1>c, <1>2 DEF Room
  <2>d. Settled(b)' = Settled(b) /\ InHand(b)' = InHand(b) /\ Settled(b) = Len(body[b]) - 1
    BY <1>s, <2>a DEF Settled, InHand, Received
  <2>1. HoldsLatest(b)'
    BY <1>c, <1>p, <2>a, <2>b, <2>d DEF HoldsLatest
  <2>2. Accounted(b)'
    <3>1. Busy(b)' = Busy(b)
      BY <2>a DEF Busy
    <3> QED
      BY <1>p, <2>a, <2>d, <3>1 DEF Accounted, Received
  <2>3. Complete(b)'
    BY <1>p, <2>a DEF Complete
  <2>4. EnqueueKnows(b)'
    BY <1>c, <1>s, <1>p, <2>a, <2>b, <2>d DEF EnqueueKnows, HoldsLatest, Received
  <2>5. DropQuota(b)'
    BY <1>c, <1>p, <2>a DEF DropQuota, Outside, Received
  <2>6. ForwardKnows(b)'
    BY <1>p, <2>a DEF ForwardKnows, Received
  <2>7. TypeOK'
    BY <1>t, <1>c, <1>2 DEF EnqueueSend, TypeOK
  <2> QED
    BY <2>1, <2>2, <2>3, <2>4, <2>5, <2>6, <2>7 DEF WorkerSafe
<1>ty. TypeOK'
  BY <1>1, <1>2
<1>w. WorkerSafe(b)'
  BY <1>1, <1>2
<1>so. StartedInOrder'
  BY <1>t DEF EnqueueSend, TypeOK, StartedInOrder, Room, Push
<1>o. ASSUME NEW a \in Broker, a # b PROVE WorkerSafe(a)'
  BY <1>t, <1>o, WorkerFrame DEF EnqueueSend, TypeOK, View, Room, Push
<1> QED
  BY <1>ty, <1>so, <1>w, <1>o DEF Safe

\* The second select: the oldest reading leaves the channel.
LEMMA EnqueueEvictSafe ==
  ASSUME Safe, NEW b \in Broker, EnqueueEvict(b)
  PROVE  Safe'
<1>t. TypeOK /\ StartedInOrder /\ \A a \in Broker : WorkerSafe(a)
  BY DEF Safe
<1>c. Capacity(b) \in Nat \ {0} /\ \A a \in Broker : Capacity(a)' = Capacity(a)
  BY CapacityPositive DEF Capacity
<1>s. /\ body[b] \in Seq(Message) /\ queue[b] \in Seq(Nat) /\ Len(queue[b]) <= Capacity(b)
      /\ Len(body[b]) \in Nat /\ Len(queue[b]) \in Nat
      /\ inflight[b] \in Nat /\ fwd[b] \in Nat /\ dropped[b] \in Nat /\ failed[b] \in Nat
  BY <1>t DEF TypeOK
<1>p. HoldsLatest(b) /\ Accounted(b) /\ Complete(b) /\ EnqueueKnows(b) /\ DropQuota(b) /\ ForwardKnows(b)
  BY <1>t DEF WorkerSafe
<1>1. ASSUME queue[b] # <<>> PROVE TypeOK' /\ WorkerSafe(b)'
  <2>q. queue' = [queue EXCEPT ![b] = Tail(queue[b])] /\ queue'[b] = Tail(queue[b])
    BY <1>t, <1>1 DEF EnqueueEvict, Evict, TypeOK
  <2>a. /\ queue'[b] = Tail(queue[b]) /\ queue'[b] \in Seq(Nat)
        /\ Len(queue'[b]) = Len(queue[b]) - 1
        /\ \A i \in 1..(Len(queue[b]) - 1) : queue'[b][i] = queue[b][i + 1]
        /\ Head(queue[b]) = queue[b][1] /\ Len(queue[b]) > 0
    BY <1>s, <1>1, <2>q, TailFacts
  <2>k. queue \in [Broker -> Seq(Nat)] /\ \A a \in Broker : Len(queue[a]) <= Capacity(a)
    BY <1>t DEF TypeOK
  <2>l. queue' \in [Broker -> Seq(Nat)] /\ \A a \in Broker : Len(queue'[a]) <= Capacity(a)
    BY <1>c, <1>s, <2>q, <2>a, <2>k
  <2>b. handler'[b] = "resend" /\ handler[b] = "evict" /\ dropped'[b] = dropped[b] + 1
        /\ UNCHANGED <<body, loop, inflight, fwd, failed, sent>>
    BY <1>t, <1>1 DEF EnqueueEvict, TypeOK
  <2>d. Settled(b)' = Settled(b) /\ InHand(b)' = InHand(b) /\ Settled(b) \in Int
        /\ InHand(b) \in Nat
    BY <1>s, <2>b DEF Settled, InHand, Received
  <2>1. HoldsLatest(b)'
    BY <1>s, <1>p, <2>a, <2>b, <2>d, SMTT(30) DEF HoldsLatest
  <2>2. Accounted(b)'
    <3>1. Busy(b)' = Busy(b) /\ Busy(b) \in Int
      BY <2>b DEF Busy
    <3>h. InHand(b) = 1 /\ InHand(b)' = 1
      BY <2>b DEF InHand
    <3>s. Len(body[b]) \in Int /\ Len(queue[b]) \in Int /\ fwd[b] \in Int /\ failed[b] \in Int
          /\ dropped[b] \in Int
      BY <1>s
    <3>c. PICK n \in Int, q \in Int, k \in Int, f \in Int, l \in Int, d \in Int :
            /\ n = Len(body[b]) /\ q = Len(queue[b]) /\ k = Busy(b) /\ f = fwd[b]
            /\ l = failed[b] /\ d = dropped[b]
      BY <3>s, <3>1
    <3>2. n = 1 + q + k + f + l + d
      BY <1>p, <3>c, <3>h DEF Accounted, Received
    <3>3. n = 1 + (q - 1) + k + f + l + (d + 1)
      BY <3>2
    <3> QED
      BY <2>a, <2>b, <3>1, <3>h, <3>c, <3>3 DEF Accounted, Received
  <2>3. Complete(b)'
    BY <1>p, <2>b DEF Complete
  <2>4. EnqueueKnows(b)'
    BY <1>c, <1>s, <1>p, <2>a, <2>b, <2>d DEF EnqueueKnows, Received
  <2>5. DropQuota(b)'
    BY <1>c, <1>s, <1>p, <2>b DEF DropQuota, Outside, EnqueueKnows, Received
  <2>6. ForwardKnows(b)'
    BY <1>p, <2>b DEF ForwardKnows, Received
  <2>7. TypeOK'
    <3>0. dropped' = [dropped EXCEPT ![b] = dropped[b] + 1] /\ dropped \in [Broker -> Nat]
      BY <1>t, <1>1 DEF EnqueueEvict, TypeOK
    <3>1. dropped' \in [Broker -> Nat]
      BY <3>0, <1>s
    <3> QED
      BY <1>t, <1>c, <2>l, <3>1 DEF EnqueueEvict, TypeOK
  <2> QED
    BY <2>1, <2>2, <2>3, <2>4, <2>5, <2>6, <2>7 DEF WorkerSafe
<1>2. ASSUME queue[b] = <<>> PROVE TypeOK' /\ WorkerSafe(b)'
  <2>a. handler'[b] = "resend" /\ handler[b] = "evict" /\ Len(queue[b]) = 0
        /\ UNCHANGED <<body, queue, loop, inflight, fwd, dropped, failed, sent>>
    BY <1>t, <1>2 DEF EnqueueEvict, TypeOK
  <2>d. Settled(b)' = Settled(b) /\ InHand(b)' = InHand(b)
    BY <1>s, <2>a DEF Settled, InHand, Received
  <2>1. HoldsLatest(b)'
    BY <1>p, <2>a, <2>d DEF HoldsLatest
  <2>2. Accounted(b)'
    <3>1. Busy(b)' = Busy(b)
      BY <2>a DEF Busy
    <3> QED
      BY <1>p, <2>a, <2>d, <3>1 DEF Accounted, Received
  <2>3. Complete(b)'
    BY <1>p, <2>a DEF Complete
  <2>4. EnqueueKnows(b)'
    BY <1>c, <1>s, <1>p, <2>a DEF EnqueueKnows, Received
  <2>5. DropQuota(b)'
    BY <1>c, <1>s, <1>p, <2>a DEF DropQuota, Outside, Received
  <2>6. ForwardKnows(b)'
    BY <1>p, <2>a DEF ForwardKnows, Received
  <2>7. TypeOK'
    BY <1>t, <1>c, <1>2 DEF EnqueueEvict, TypeOK
  <2> QED
    BY <2>1, <2>2, <2>3, <2>4, <2>5, <2>6, <2>7 DEF WorkerSafe
<1>ty. TypeOK'
  BY <1>1, <1>2
<1>w. WorkerSafe(b)'
  BY <1>1, <1>2
<1>so. StartedInOrder'
  BY <1>t DEF EnqueueEvict, TypeOK, StartedInOrder, Evict
<1>o. ASSUME NEW a \in Broker, a # b PROVE WorkerSafe(a)'
  BY <1>t, <1>o, WorkerFrame DEF EnqueueEvict, TypeOK, View, Evict
<1> QED
  BY <1>ty, <1>so, <1>w, <1>o DEF Safe

\* The third select always finds room: the callback is the only sender.
LEMMA EnqueueResendSafe ==
  ASSUME Safe, NEW b \in Broker, EnqueueResend(b)
  PROVE  Safe'
<1>t. TypeOK /\ StartedInOrder /\ \A a \in Broker : WorkerSafe(a)
  BY DEF Safe
<1>c. Capacity(b) \in Nat \ {0} /\ \A a \in Broker : Capacity(a)' = Capacity(a)
  BY CapacityPositive DEF Capacity
<1>s. /\ body[b] \in Seq(Message) /\ queue[b] \in Seq(Nat) /\ Len(queue[b]) <= Capacity(b)
      /\ Len(body[b]) \in Nat /\ Len(queue[b]) \in Nat
      /\ inflight[b] \in Nat /\ fwd[b] \in Nat /\ dropped[b] \in Nat /\ failed[b] \in Nat
  BY <1>t DEF TypeOK
<1>p. HoldsLatest(b) /\ Accounted(b) /\ Complete(b) /\ EnqueueKnows(b) /\ DropQuota(b) /\ ForwardKnows(b)
  BY <1>t DEF WorkerSafe
<1>1. Room(b) /\ handler[b] = "resend"
  BY <1>c, <1>s, <1>p DEF EnqueueResend, EnqueueKnows, Room
<1>w. TypeOK' /\ WorkerSafe(b)'
  <2>q. queue' = [queue EXCEPT ![b] = Append(queue[b], Len(body[b]))] /\ queue'[b] = Append(queue[b], Len(body[b]))
    BY <1>t, <1>1 DEF EnqueueResend, Push, Received, TypeOK
  <2>a. /\ queue'[b] = Append(queue[b], Len(body[b])) /\ queue'[b] \in Seq(Nat)
        /\ Len(queue'[b]) = Len(queue[b]) + 1
        /\ \A i \in 1..Len(queue[b]) : queue'[b][i] = queue[b][i]
        /\ queue'[b][Len(queue[b]) + 1] = Len(body[b])
    BY <1>s, <2>q, AppendFacts
  <2>l. queue' \in [Broker -> Seq(Nat)] /\ \A a \in Broker : Len(queue'[a]) <= Capacity(a)
    BY <1>t, <1>c, <1>s, <1>1, <2>q, <2>a, SMTT(30) DEF Room, TypeOK
  <2>b. handler'[b] = "idle" /\ UNCHANGED <<body, loop, inflight, fwd, dropped, failed, sent>>
    BY <1>t, <1>1 DEF EnqueueResend, TypeOK
  <2>d. Settled(b)' = Settled(b) + 1 /\ InHand(b)' = 0 /\ InHand(b) = 1
        /\ Settled(b)' = Len(body[b]) /\ Settled(b) \in Int
    BY <1>s, <2>b DEF EnqueueResend, Settled, InHand, Received
  <2>1. HoldsLatest(b)'
    <3>1. \A i \in 1..(Len(queue[b]) + 1) :
            queue'[b][i] = Settled(b)' - (Len(queue[b]) + 1) + i
      <4> TAKE i \in 1..(Len(queue[b]) + 1)
      <4>1. CASE i = Len(queue[b]) + 1
        BY <4>1, <1>s, <2>a, <2>d
      <4>2. CASE i \in 1..Len(queue[b])
        <5>t. PICK t \in Int : Settled(b) = t
          BY <2>d
        <5>1. queue'[b][i] = t - Len(queue[b]) + i
          BY <4>2, <5>t, <1>p, <2>a DEF HoldsLatest
        <5>2. Settled(b)' = t + 1
          BY <5>t, <2>d
        <5>n. PICK n \in Int : Len(queue[b]) = n
          BY <1>s
        <5>3. t - n + i = (t + 1) - (n + 1) + i
          BY <4>2, <1>s, ShiftOne
        <5> QED
          BY <5>1, <5>2, <5>n, <5>3
      <4> QED
        BY <4>1, <4>2, <1>s
    <3>2. inflight'[b] <= Settled(b)' - (Len(queue[b]) + 1)
      <4>1. inflight[b] <= Settled(b) - Len(queue[b])
        BY <1>p DEF HoldsLatest
      <4> QED
        BY <4>1, <1>s, <2>b, <2>d
    <3>3. Len(queue'[b]) = Len(queue[b]) + 1 /\ Len(queue'[b]) # 0
      BY <2>a, <1>s
    <3> QED
      BY <3>1, <3>2, <3>3 DEF HoldsLatest
  <2>2. Accounted(b)'
    <3>1. Busy(b)' = Busy(b) /\ Busy(b) \in Int
      BY <2>b DEF Busy
    <3>h. InHand(b) = 1 /\ InHand(b)' = 0
      BY <2>d
    <3>s. Len(body[b]) \in Int /\ Len(queue[b]) \in Int /\ fwd[b] \in Int /\ failed[b] \in Int
          /\ dropped[b] \in Int
      BY <1>s
    <3>c. PICK n \in Int, q \in Int, k \in Int, f \in Int, l \in Int, d \in Int :
            /\ n = Len(body[b]) /\ q = Len(queue[b]) /\ k = Busy(b) /\ f = fwd[b]
            /\ l = failed[b] /\ d = dropped[b]
      BY <3>s, <3>1
    <3>2. n = 1 + q + k + f + l + d
      BY <1>p, <3>c, <3>h DEF Accounted, Received
    <3>3. n = 0 + (q + 1) + k + f + l + d
      BY <3>2
    <3> QED
      BY <2>a, <2>b, <3>1, <3>h, <3>c, <3>3 DEF Accounted, Received
  <2>3. Complete(b)'
    BY <1>p, <2>b DEF Complete
  <2>4. EnqueueKnows(b)'
    BY <2>b DEF EnqueueKnows
  <2>5. DropQuota(b)'
    BY <1>c, <1>s, <1>p, <2>b DEF EnqueueResend, DropQuota, Outside, Received
  <2>6. ForwardKnows(b)'
    BY <1>p, <2>b DEF ForwardKnows, Received
  <2>7. TypeOK'
    BY <1>t, <1>c, <1>1, <2>b, <2>l DEF EnqueueResend, TypeOK
  <2> QED
    BY <2>1, <2>2, <2>3, <2>4, <2>5, <2>6, <2>7 DEF WorkerSafe
<1>ty. TypeOK'
  BY <1>w
<1>so. StartedInOrder'
  BY <1>t DEF EnqueueResend, TypeOK, StartedInOrder, Room, Push
<1>o. ASSUME NEW a \in Broker, a # b PROVE WorkerSafe(a)'
  BY <1>t, <1>o, WorkerFrame DEF EnqueueResend, TypeOK, View, Room, Push
<1> QED
  BY <1>ty, <1>so, <1>w, <1>o DEF Safe

\* processLoop takes the oldest reading.
LEMMA LoopTakeSafe ==
  ASSUME Safe, NEW b \in Broker, LoopTake(b)
  PROVE  Safe'
<1>t. TypeOK /\ StartedInOrder /\ \A a \in Broker : WorkerSafe(a)
  BY DEF Safe
<1>c. Capacity(b) \in Nat \ {0} /\ \A a \in Broker : Capacity(a)' = Capacity(a)
  BY CapacityPositive DEF Capacity
<1>s. /\ body[b] \in Seq(Message) /\ queue[b] \in Seq(Nat) /\ Len(queue[b]) <= Capacity(b)
      /\ Len(body[b]) \in Nat /\ Len(queue[b]) \in Nat
      /\ inflight[b] \in Nat /\ fwd[b] \in Nat /\ dropped[b] \in Nat /\ failed[b] \in Nat
  BY <1>t DEF TypeOK
<1>p. HoldsLatest(b) /\ Accounted(b) /\ Complete(b) /\ EnqueueKnows(b) /\ DropQuota(b) /\ ForwardKnows(b)
  BY <1>t DEF WorkerSafe
<1>1. queue[b] # <<>> /\ loop[b] = "select" /\ loop'[b] = "forward" /\ inflight'[b] = Head(queue[b])
      /\ UNCHANGED <<body, handler, fwd, dropped, failed, sent>>
  BY <1>t DEF LoopTake, TypeOK
<1>w. TypeOK' /\ WorkerSafe(b)'
  <2>q. queue' = [queue EXCEPT ![b] = Tail(queue[b])] /\ queue'[b] = Tail(queue[b])
    BY <1>t, <1>1 DEF LoopTake, TypeOK
  <2>a. /\ queue'[b] = Tail(queue[b]) /\ queue'[b] \in Seq(Nat)
        /\ Len(queue'[b]) = Len(queue[b]) - 1
        /\ \A i \in 1..(Len(queue[b]) - 1) : queue'[b][i] = queue[b][i + 1]
        /\ Head(queue[b]) = queue[b][1] /\ Len(queue[b]) > 0
    BY <1>s, <1>1, <2>q, TailFacts
  <2>k. queue \in [Broker -> Seq(Nat)] /\ \A a \in Broker : Len(queue[a]) <= Capacity(a)
    BY <1>t DEF TypeOK
  <2>l. queue' \in [Broker -> Seq(Nat)] /\ \A a \in Broker : Len(queue'[a]) <= Capacity(a)
    BY <1>c, <1>s, <2>q, <2>a, <2>k
  <2>h. InHand(b)' = InHand(b) /\ InHand(b) \in Nat
    BY <1>1 DEF InHand
  <2>d. Settled(b)' = Settled(b) /\ InHand(b)' = InHand(b) /\ Settled(b) \in Int
        /\ InHand(b) \in Nat /\ Settled(b) <= Len(body[b])
    BY <1>s, <1>1, <2>h DEF Settled, Received
  <2>e. inflight'[b] = Settled(b) - Len(queue[b]) + 1 /\ inflight'[b] \in Nat
    BY <1>s, <1>p, <1>1, <2>a, <2>d, SMTT(30) DEF HoldsLatest
  <2>1. HoldsLatest(b)'
    <3>t. PICK t \in Int : t = Settled(b)
      BY <2>d
    <3>n. PICK n \in Nat : n = Len(queue[b])
      BY <1>s
    <3>o. /\ \A i \in 1..n : queue[b][i] = t - n + i
          /\ inflight'[b] = t - n + 1 /\ n > 0 /\ Len(queue'[b]) = n - 1
          /\ Settled(b)' = t
      BY <1>p, <2>a, <2>d, <2>e, <3>t, <3>n DEF HoldsLatest
    <3>1. \A i \in 1..(n - 1) : queue'[b][i] = t - (n - 1) + i
      <4> TAKE i \in 1..(n - 1)
      <4>1. i + 1 \in 1..n /\ i \in Int
        OBVIOUS
      <4>2. queue'[b][i] = queue[b][i + 1]
        BY <2>a, <3>n
      <4>3. queue[b][i + 1] = t - n + (i + 1)
        BY <3>o, <4>1
      <4>4. t - n + (i + 1) = t - (n - 1) + i
        BY <4>1
      <4> QED
        BY <4>2, <4>3, <4>4
    <3>2. inflight'[b] <= t - (n - 1)
      BY <3>o
    <3>3. n - 1 = 0 => inflight'[b] = t
      BY <3>o
    <3> QED
      BY <3>o, <3>1, <3>2, <3>3 DEF HoldsLatest
  <2>2. Accounted(b)'
    <3>1. Busy(b)' = 1 /\ Busy(b) = 0
      BY <1>1 DEF Busy
    <3>h. InHand(b) \in Int
      BY DEF InHand
    <3>s. Len(body[b]) \in Int /\ Len(queue[b]) \in Int /\ fwd[b] \in Int /\ failed[b] \in Int
          /\ dropped[b] \in Int
      BY <1>s
    <3>c. PICK n \in Int, h \in Int, q \in Int, f \in Int, l \in Int, d \in Int :
            /\ n = Len(body[b]) /\ h = InHand(b) /\ q = Len(queue[b]) /\ f = fwd[b]
            /\ l = failed[b] /\ d = dropped[b]
      BY <3>s, <3>h
    <3>2. n = h + q + 0 + f + l + d
      BY <1>p, <3>c, <3>1 DEF Accounted, Received
    <3>3. n = h + (q - 1) + 1 + f + l + d
      BY <3>2
    <3> QED
      BY <1>1, <2>a, <2>d, <3>1, <3>c, <3>3 DEF Accounted, Received
  <2>3. Complete(b)'
    BY <1>p, <1>1 DEF Complete
  <2>4. EnqueueKnows(b)'
    BY <1>c, <1>s, <1>p, <1>1, <2>a DEF EnqueueKnows, Received
  <2>5. DropQuota(b)'
    BY <1>c, <1>s, <1>p, <1>1 DEF DropQuota, Outside, Received
  <2>6. ForwardKnows(b)'
    BY <1>s, <1>p, <1>1, <2>d, <2>e, SMTT(30) DEF ForwardKnows, HoldsLatest, Received
  <2>7. TypeOK'
    <3>1. inflight' \in [Broker -> Nat]
      BY <1>t, <1>1, <2>e DEF LoopTake, TypeOK
    <3> QED
      BY <1>t, <1>c, <2>l, <3>1 DEF LoopTake, TypeOK
  <2> QED
    BY <2>1, <2>2, <2>3, <2>4, <2>5, <2>6, <2>7 DEF WorkerSafe
<1>ty. TypeOK'
  BY <1>w
<1>so. StartedInOrder'
  BY <1>t DEF LoopTake, TypeOK, StartedInOrder
<1>o. ASSUME NEW a \in Broker, a # b PROVE WorkerSafe(a)'
  BY <1>t, <1>o, WorkerFrame DEF LoopTake, TypeOK, View
<1> QED
  BY <1>ty, <1>so, <1>w, <1>o DEF Safe

\* forward submits a reading that names its device.
LEMMA ForwardSubmitSafe ==
  ASSUME Safe, NEW b \in Broker, ForwardSubmit(b)
  PROVE  Safe'
<1>t. TypeOK /\ StartedInOrder /\ \A a \in Broker : WorkerSafe(a)
  BY DEF Safe
<1>c. Capacity(b) \in Nat \ {0} /\ \A a \in Broker : Capacity(a)' = Capacity(a)
  BY CapacityPositive DEF Capacity
<1>s. /\ body[b] \in Seq(Message) /\ queue[b] \in Seq(Nat) /\ Len(queue[b]) <= Capacity(b)
      /\ Len(body[b]) \in Nat /\ Len(queue[b]) \in Nat
      /\ inflight[b] \in Nat /\ fwd[b] \in Nat /\ dropped[b] \in Nat /\ failed[b] \in Nat
  BY <1>t DEF TypeOK
<1>p. HoldsLatest(b) /\ Accounted(b) /\ Complete(b) /\ EnqueueKnows(b) /\ DropQuota(b) /\ ForwardKnows(b)
  BY <1>t DEF WorkerSafe
<1>m. Taken(b) \in Message
  BY <1>s, <1>p DEF ForwardSubmit, Taken, ForwardKnows, Received
<1>1. loop[b] = "forward" /\ loop'[b] = "rpc" /\ Identified(Taken(b).in)
      /\ UNCHANGED <<body, handler, queue, inflight, fwd, dropped, failed>>
  BY <1>t DEF ForwardSubmit, TypeOK
<1>q. /\ RequestOf(Taken(b)) \in [dev : Names \cup {NoName}, metric : Names \cup {NoName}, stamp : Nat]
      /\ Describes(RequestOf(Taken(b)), Taken(b))
  BY <1>m, <1>1, RequestType
<1>2. PICK q \in [dev : Names \cup {NoName}, metric : Names \cup {NoName}, stamp : Nat] :
        q = RequestOf(Taken(b))
  BY <1>q
<1>3. /\ sent'[b] = Append(sent[b], q) /\ Len(sent'[b]) = Len(sent[b]) + 1
      /\ DOMAIN sent'[b] = 1..(Len(sent[b]) + 1) /\ DOMAIN sent[b] = 1..Len(sent[b])
      /\ \A i \in 1..Len(sent[b]) : sent'[b][i] = sent[b][i]
      /\ sent'[b][Len(sent[b]) + 1] = q /\ Len(sent[b]) \in Nat
  BY <1>t, <1>2 DEF ForwardSubmit, TypeOK
<1>w. WorkerSafe(b)'
  <2>d. Settled(b)' = Settled(b) /\ InHand(b)' = InHand(b)
    BY <1>1 DEF Settled, InHand, Received
  <2>1. HoldsLatest(b)'
    BY <1>p, <1>1, <2>d DEF HoldsLatest
  <2>2. Accounted(b)'
    <3>1. Busy(b)' = Busy(b)
      BY <1>1 DEF Busy
    <3> QED
      BY <1>p, <1>1, <2>d, <3>1 DEF Accounted, Received
  <2>3. Complete(b)'
    <3>1. inflight[b] \in DOMAIN body[b]
      BY <1>s, <1>p, <1>1 DEF ForwardKnows, Received
    <3>2. Describes(q, body[b][inflight[b]])
      BY <1>q, <1>2 DEF Taken
    <3>3. ASSUME NEW i \in 1..(Len(sent[b]) + 1)
          PROVE  \E j \in DOMAIN body[b] : Describes(sent'[b][i], body[b][j])
      <4>1. CASE i \in 1..Len(sent[b])
        BY <4>1, <1>p, <1>3 DEF Complete
      <4>2. CASE i = Len(sent[b]) + 1
        BY <4>2, <1>3, <3>1, <3>2
      <4> QED
        BY <4>1, <4>2, <1>3
    <3> QED
      BY <3>3, <1>1, <1>3 DEF Complete
  <2>4. EnqueueKnows(b)'
    BY <1>c, <1>p, <1>1 DEF EnqueueKnows, Received
  <2>5. DropQuota(b)'
    BY <1>c, <1>p, <1>1 DEF DropQuota, Outside, Received
  <2>6. ForwardKnows(b)'
    BY <1>p, <1>1 DEF ForwardKnows, Received
  <2> QED
    BY <2>1, <2>2, <2>3, <2>4, <2>5, <2>6 DEF WorkerSafe
<1>ty. TypeOK'
  <2>1. sent' \in [Broker -> Seq([dev : Names \cup {NoName}, metric : Names \cup {NoName},
                                  stamp : Nat])]
    <3>1. sent' = [sent EXCEPT ![b] = Append(sent[b], q)]
      BY <1>t, <1>2 DEF ForwardSubmit, TypeOK
    <3> QED
      BY <1>t, <3>1, AppendFacts DEF TypeOK
  <2> QED
    BY <1>t, <1>c, <2>1 DEF ForwardSubmit, TypeOK
<1>so. StartedInOrder'
  BY <1>t DEF ForwardSubmit, TypeOK, StartedInOrder
<1>o. ASSUME NEW a \in Broker, a # b PROVE WorkerSafe(a)'
  BY <1>t, <1>o, WorkerFrame DEF ForwardSubmit, TypeOK, View
<1> QED
  BY <1>ty, <1>so, <1>w, <1>o DEF Safe

\* forward gives a reading up.
LEMMA ForwardRejectSafe ==
  ASSUME Safe, NEW b \in Broker, ForwardReject(b)
  PROVE  Safe'
<1>t. TypeOK /\ StartedInOrder /\ \A a \in Broker : WorkerSafe(a)
  BY DEF Safe
<1>c. Capacity(b) \in Nat \ {0} /\ \A a \in Broker : Capacity(a)' = Capacity(a)
  BY CapacityPositive DEF Capacity
<1>s. /\ body[b] \in Seq(Message) /\ queue[b] \in Seq(Nat) /\ Len(queue[b]) <= Capacity(b)
      /\ Len(body[b]) \in Nat /\ Len(queue[b]) \in Nat
      /\ inflight[b] \in Nat /\ fwd[b] \in Nat /\ dropped[b] \in Nat /\ failed[b] \in Nat
  BY <1>t DEF TypeOK
<1>p. HoldsLatest(b) /\ Accounted(b) /\ Complete(b) /\ EnqueueKnows(b) /\ DropQuota(b) /\ ForwardKnows(b)
  BY <1>t DEF WorkerSafe
<1>1. loop[b] \in {"forward", "rpc"} /\ loop'[b] = "select" /\ failed'[b] = failed[b] + 1
      /\ UNCHANGED <<body, handler, queue, inflight, dropped, fwd, sent>>
  BY <1>t DEF ForwardReject, TypeOK, Fails, AfterFailure
<1>w. WorkerSafe(b)'
  <2>d. Settled(b)' = Settled(b) /\ InHand(b)' = InHand(b) /\ InHand(b) \in Nat
    BY <1>1 DEF Settled, InHand, Received
  <2>1. HoldsLatest(b)'
    BY <1>p, <1>1, <2>d DEF HoldsLatest
  <2>2. Accounted(b)'
    <3>1. Busy(b)' = 0 /\ Busy(b) = 1
      BY <1>1 DEF Busy
    <3>h. PICK h \in Nat : InHand(b) = h
      BY <2>d
    <3>2. Len(body[b]) = h + Len(queue[b]) + 1 + fwd[b] + failed[b] + dropped[b]
      BY <1>p, <3>h, <3>1 DEF Accounted, Received
    <3>s. Len(body[b]) \in Int /\ Len(queue[b]) \in Int /\ fwd[b] \in Int /\ failed[b] \in Int
          /\ dropped[b] \in Int
      BY <1>s
    <3>c. PICK n \in Int, q \in Int, f \in Int, l \in Int, d \in Int :
            /\ n = Len(body[b]) /\ q = Len(queue[b]) /\ f = fwd[b] /\ l = failed[b]
            /\ d = dropped[b]
      BY <3>s
    <3>3. Len(body[b]) = h + Len(queue[b]) + 0 + fwd[b] + (failed[b] + 1) + dropped[b]
      <4>1. n = h + q + 1 + f + l + d
        BY <3>2, <3>c
      <4>2. n = h + q + 0 + f + (l + 1) + d
        BY <4>1
      <4> QED
        BY <4>2, <3>c
    <3> QED
      BY <1>1, <2>d, <3>h, <3>1, <3>3 DEF Accounted, Received
  <2>3. Complete(b)'
    BY <1>p, <1>1 DEF Complete
  <2>4. EnqueueKnows(b)'
    BY <1>c, <1>p, <1>1 DEF EnqueueKnows, Received
  <2>5. DropQuota(b)'
    BY <1>c, <1>p, <1>1 DEF DropQuota, Outside, Received
  <2>6. ForwardKnows(b)'
    BY <1>1 DEF ForwardKnows
  <2> QED
    BY <2>1, <2>2, <2>3, <2>4, <2>5, <2>6 DEF WorkerSafe
<1>ty. TypeOK'
  <2>1. failed' \in [Broker -> Nat] /\ loop' \in [Broker -> {"none", "select", "forward", "rpc", "exited"}]
    BY <1>t DEF ForwardReject, TypeOK, Fails, AfterFailure
  <2> QED
    BY <1>t, <1>c, <2>1 DEF ForwardReject, TypeOK, Fails, AfterFailure
<1>so. StartedInOrder'
  BY <1>t DEF ForwardReject, TypeOK, StartedInOrder, Fails, AfterFailure
<1>o. ASSUME NEW a \in Broker, a # b PROVE WorkerSafe(a)'
  BY <1>t, <1>o, WorkerFrame DEF ForwardReject, TypeOK, View, Fails, AfterFailure
<1> QED
  BY <1>ty, <1>so, <1>w, <1>o DEF Safe

\* SubmitMetric returns a response.
LEMMA RpcSucceedsSafe ==
  ASSUME Safe, NEW b \in Broker, RpcSucceeds(b)
  PROVE  Safe'
<1>t. TypeOK /\ StartedInOrder /\ \A a \in Broker : WorkerSafe(a)
  BY DEF Safe
<1>c. Capacity(b) \in Nat \ {0} /\ \A a \in Broker : Capacity(a)' = Capacity(a)
  BY CapacityPositive DEF Capacity
<1>s. /\ body[b] \in Seq(Message) /\ queue[b] \in Seq(Nat) /\ Len(queue[b]) <= Capacity(b)
      /\ Len(body[b]) \in Nat /\ Len(queue[b]) \in Nat
      /\ inflight[b] \in Nat /\ fwd[b] \in Nat /\ dropped[b] \in Nat /\ failed[b] \in Nat
  BY <1>t DEF TypeOK
<1>p. HoldsLatest(b) /\ Accounted(b) /\ Complete(b) /\ EnqueueKnows(b) /\ DropQuota(b) /\ ForwardKnows(b)
  BY <1>t DEF WorkerSafe
<1>1. loop[b] \in {"forward", "rpc"} /\ loop'[b] = "select" /\ fwd'[b] = fwd[b] + 1
      /\ UNCHANGED <<body, handler, queue, inflight, dropped, failed, sent>>
  BY <1>t DEF RpcSucceeds, TypeOK
<1>w. WorkerSafe(b)'
  <2>d. Settled(b)' = Settled(b) /\ InHand(b)' = InHand(b) /\ InHand(b) \in Nat
    BY <1>1 DEF Settled, InHand, Received
  <2>1. HoldsLatest(b)'
    BY <1>p, <1>1, <2>d DEF HoldsLatest
  <2>2. Accounted(b)'
    <3>1. Busy(b)' = 0 /\ Busy(b) = 1
      BY <1>1 DEF Busy
    <3>h. PICK h \in Nat : InHand(b) = h
      BY <2>d
    <3>2. Len(body[b]) = h + Len(queue[b]) + 1 + fwd[b] + failed[b] + dropped[b]
      BY <1>p, <3>h, <3>1 DEF Accounted, Received
    <3>s. Len(body[b]) \in Int /\ Len(queue[b]) \in Int /\ fwd[b] \in Int /\ failed[b] \in Int
          /\ dropped[b] \in Int
      BY <1>s
    <3>c. PICK n \in Int, q \in Int, f \in Int, l \in Int, d \in Int :
            /\ n = Len(body[b]) /\ q = Len(queue[b]) /\ f = fwd[b] /\ l = failed[b]
            /\ d = dropped[b]
      BY <3>s
    <3>3. Len(body[b]) = h + Len(queue[b]) + 0 + (fwd[b] + 1) + failed[b] + dropped[b]
      <4>1. n = h + q + 1 + f + l + d
        BY <3>2, <3>c
      <4>2. n = h + q + 0 + (f + 1) + l + d
        BY <4>1
      <4> QED
        BY <4>2, <3>c
    <3> QED
      BY <1>1, <2>d, <3>h, <3>1, <3>3 DEF Accounted, Received
  <2>3. Complete(b)'
    BY <1>p, <1>1 DEF Complete
  <2>4. EnqueueKnows(b)'
    BY <1>c, <1>p, <1>1 DEF EnqueueKnows, Received
  <2>5. DropQuota(b)'
    BY <1>c, <1>p, <1>1 DEF DropQuota, Outside, Received
  <2>6. ForwardKnows(b)'
    BY <1>1 DEF ForwardKnows
  <2> QED
    BY <2>1, <2>2, <2>3, <2>4, <2>5, <2>6 DEF WorkerSafe
<1>ty. TypeOK'
  <2>1. fwd' \in [Broker -> Nat] /\ loop' \in [Broker -> {"none", "select", "forward", "rpc", "exited"}]
    BY <1>t DEF RpcSucceeds, TypeOK
  <2> QED
    BY <1>t, <1>c, <2>1 DEF RpcSucceeds, TypeOK
<1>so. StartedInOrder'
  BY <1>t DEF RpcSucceeds, TypeOK, StartedInOrder
<1>o. ASSUME NEW a \in Broker, a # b PROVE WorkerSafe(a)'
  BY <1>t, <1>o, WorkerFrame DEF RpcSucceeds, TypeOK, View
<1> QED
  BY <1>ty, <1>so, <1>w, <1>o DEF Safe

\* SubmitMetric returns an error.
LEMMA RpcFailsSafe ==
  ASSUME Safe, NEW b \in Broker, RpcFails(b)
  PROVE  Safe'
<1>t. TypeOK /\ StartedInOrder /\ \A a \in Broker : WorkerSafe(a)
  BY DEF Safe
<1>c. Capacity(b) \in Nat \ {0} /\ \A a \in Broker : Capacity(a)' = Capacity(a)
  BY CapacityPositive DEF Capacity
<1>s. /\ body[b] \in Seq(Message) /\ queue[b] \in Seq(Nat) /\ Len(queue[b]) <= Capacity(b)
      /\ Len(body[b]) \in Nat /\ Len(queue[b]) \in Nat
      /\ inflight[b] \in Nat /\ fwd[b] \in Nat /\ dropped[b] \in Nat /\ failed[b] \in Nat
  BY <1>t DEF TypeOK
<1>p. HoldsLatest(b) /\ Accounted(b) /\ Complete(b) /\ EnqueueKnows(b) /\ DropQuota(b) /\ ForwardKnows(b)
  BY <1>t DEF WorkerSafe
<1>1. loop[b] \in {"forward", "rpc"} /\ loop'[b] = "select" /\ failed'[b] = failed[b] + 1
      /\ UNCHANGED <<body, handler, queue, inflight, dropped, fwd, sent>>
  BY <1>t DEF RpcFails, TypeOK, Fails, AfterFailure
<1>w. WorkerSafe(b)'
  <2>d. Settled(b)' = Settled(b) /\ InHand(b)' = InHand(b) /\ InHand(b) \in Nat
    BY <1>1 DEF Settled, InHand, Received
  <2>1. HoldsLatest(b)'
    BY <1>p, <1>1, <2>d DEF HoldsLatest
  <2>2. Accounted(b)'
    <3>1. Busy(b)' = 0 /\ Busy(b) = 1
      BY <1>1 DEF Busy
    <3>h. PICK h \in Nat : InHand(b) = h
      BY <2>d
    <3>2. Len(body[b]) = h + Len(queue[b]) + 1 + fwd[b] + failed[b] + dropped[b]
      BY <1>p, <3>h, <3>1 DEF Accounted, Received
    <3>s. Len(body[b]) \in Int /\ Len(queue[b]) \in Int /\ fwd[b] \in Int /\ failed[b] \in Int
          /\ dropped[b] \in Int
      BY <1>s
    <3>c. PICK n \in Int, q \in Int, f \in Int, l \in Int, d \in Int :
            /\ n = Len(body[b]) /\ q = Len(queue[b]) /\ f = fwd[b] /\ l = failed[b]
            /\ d = dropped[b]
      BY <3>s
    <3>3. Len(body[b]) = h + Len(queue[b]) + 0 + fwd[b] + (failed[b] + 1) + dropped[b]
      <4>1. n = h + q + 1 + f + l + d
        BY <3>2, <3>c
      <4>2. n = h + q + 0 + f + (l + 1) + d
        BY <4>1
      <4> QED
        BY <4>2, <3>c
    <3> QED
      BY <1>1, <2>d, <3>h, <3>1, <3>3 DEF Accounted, Received
  <2>3. Complete(b)'
    BY <1>p, <1>1 DEF Complete
  <2>4. EnqueueKnows(b)'
    BY <1>c, <1>p, <1>1 DEF EnqueueKnows, Received
  <2>5. DropQuota(b)'
    BY <1>c, <1>p, <1>1 DEF DropQuota, Outside, Received
  <2>6. ForwardKnows(b)'
    BY <1>1 DEF ForwardKnows
  <2> QED
    BY <2>1, <2>2, <2>3, <2>4, <2>5, <2>6 DEF WorkerSafe
<1>ty. TypeOK'
  <2>1. failed' \in [Broker -> Nat] /\ loop' \in [Broker -> {"none", "select", "forward", "rpc", "exited"}]
    BY <1>t DEF RpcFails, TypeOK, Fails, AfterFailure
  <2> QED
    BY <1>t, <1>c, <2>1 DEF RpcFails, TypeOK, Fails, AfterFailure
<1>so. StartedInOrder'
  BY <1>t DEF RpcFails, TypeOK, StartedInOrder, Fails, AfterFailure
<1>o. ASSUME NEW a \in Broker, a # b PROVE WorkerSafe(a)'
  BY <1>t, <1>o, WorkerFrame DEF RpcFails, TypeOK, View, Fails, AfterFailure
<1> QED
  BY <1>ty, <1>so, <1>w, <1>o DEF Safe

-----------------------------------------------------------------------------
LEMMA StutterSafe == ASSUME Safe, UNCHANGED vars PROVE Safe'
<1>1. TypeOK'
  BY DEF Safe, TypeOK, vars, Capacity
<1>2. StartedInOrder'
  BY DEF Safe, StartedInOrder, vars
<1>3. \A b \in Broker : WorkerSafe(b)'
  BY WorkerFrame DEF Safe, vars, View
<1> QED
  BY <1>1, <1>2, <1>3 DEF Safe

\* Safe is an invariant of the connector.
THEOREM SafeInvariant == Spec => []Safe
<1>1. ASSUME Safe, [Next]_vars PROVE Safe'
  <2>1. CASE UNCHANGED vars
    BY <1>1, <2>1, StutterSafe
  <2>2. CASE Exited
    BY <1>1, <2>2, StutterSafe DEF Exited
  <2>3. CASE MainStep \/ Signal \/ Tick
    BY <1>1, <2>3, MainSafe DEF MainStep
  <2>4. ASSUME NEW b \in Broker,
               Connect(b) \/ LoseLink(b) \/ Receive(b) \/ CallbackStep(b) \/ LoopStep(b)
        PROVE  Safe'
    <3>1. CASE Connect(b) \/ LoseLink(b) \/ LoopExit(b)
      BY <1>1, <3>1, MainSafe
    <3>2. CASE Receive(b) \/ CallbackStep(b)
      BY <1>1, <3>2, ReceiveSafe, EnqueueSendSafe, EnqueueEvictSafe, EnqueueResendSafe
         DEF CallbackStep
    <3>3. CASE LoopTake(b) \/ ForwardStep(b)
      BY <1>1, <3>3, LoopTakeSafe, ForwardRejectSafe, ForwardSubmitSafe, RpcSucceedsSafe,
         RpcFailsSafe DEF ForwardStep
    <3> QED
      BY <2>4, <3>1, <3>2, <3>3 DEF LoopStep
  <2> QED
    BY <1>1, <2>1, <2>2, <2>3, <2>4 DEF Next
<1> QED
  BY <1>1, InitSafe, PTL DEF Spec

\* The variables keep their types and no channel exceeds its capacity, for every
\* number of brokers and every configured buffer size, valid or not.
THEOREM TypeCorrect == Spec => []TypeOK
<1>1. Safe => TypeOK
  BY DEF Safe
<1> QED
  BY <1>1, SafeInvariant, PTL

\* The channel of every worker holds the latest arrivals, in order and without a
\* gap, whatever the size of the buffer and the number of brokers.
THEOREM Freshness == Spec => []KeepsFreshest
<1>1. Safe => KeepsFreshest
  BY DEF Safe, WorkerSafe, KeepsFreshest
<1> QED
  BY <1>1, SafeInvariant, PTL

\* Every arrival is accounted for by the counters.
THEOREM Accounting == Spec => []NothingUnaccounted
<1>1. Safe => NothingUnaccounted
  BY DEF Safe, WorkerSafe, NothingUnaccounted
<1> QED
  BY <1>1, SafeInvariant, PTL

\* A worker drops no more than what exceeds the capacity of its channel.
THEOREM Backpressure == Spec => []DropsBounded
<1>1. ASSUME Safe PROVE DropsBounded
  <2> SUFFICES ASSUME NEW b \in Broker, dropped[b] > 0
               PROVE  dropped[b] + Capacity(b) <= Received(b)
    BY DEF DropsBounded
  <2>1. DropQuota(b) /\ dropped[b] \in Nat /\ Len(body[b]) \in Nat
    BY <1>1 DEF Safe, WorkerSafe, TypeOK
  <2> QED
    BY <2>1, CapacityPositive DEF DropQuota, Outside, Received
<1> QED
  BY <1>1, SafeInvariant, PTL

\* Every request names a device, a metric and a time of a message that arrived.
THEOREM Attribution == Spec => []RequestsAreComplete
<1>1. Safe => RequestsAreComplete
  BY DEF Safe, WorkerSafe, RequestsAreComplete
<1> QED
  BY <1>1, SafeInvariant, PTL

-----------------------------------------------------------------------------
(* The channel of a worker implements the abstract queue. *)

Served(b) == fwd[b] + failed[b] + Busy(b)

Inside(b) == Received(b) - Outside(b)

\* What the abstract queue of a worker shows.
Seen(b) == <<Received(b), Inside(b), Served(b), dropped[b], inflight[b], handler[b] = "evict">>

\* A step that the abstract queues do not show.
LEMMA QueueStutter ==
  ASSUME TypeOK, TypeOK', \A b \in Broker : Seen(b)' = Seen(b)
  PROVE  UNCHANGED Queue!queueVars
<1>1. \A b \in Broker : /\ Received(b)' = Received(b) /\ Inside(b)' = Inside(b)
                        /\ Served(b)' = Served(b) /\ dropped'[b] = dropped[b]
                        /\ inflight'[b] = inflight[b]
                        /\ (handler[b] = "evict")' = (handler[b] = "evict")
  BY DEF Seen
<1>2. dropped' = dropped /\ inflight' = inflight BY <1>1 DEF TypeOK
<1>3. [b \in Broker |-> Received(b)]' = [b \in Broker |-> Received(b)] BY <1>1
<1>4. [b \in Broker |-> Received(b) - Outside(b)]' = [b \in Broker |-> Received(b) - Outside(b)]
  BY <1>1 DEF Inside
<1>5. [b \in Broker |-> fwd[b] + failed[b] + Busy(b)]'
        = [b \in Broker |-> fwd[b] + failed[b] + Busy(b)]
  BY <1>1 DEF Served
<1>6. [b \in Broker |-> handler[b] = "evict"]' = [b \in Broker |-> handler[b] = "evict"]
  BY <1>1, Zenon
<1> QED BY <1>2, <1>3, <1>4, <1>5, <1>6 DEF Queue!queueVars

\* The abstract variables, and how a step changes them at one worker.
Arrived == [b \in Broker |-> Received(b)]
LetInto == [b \in Broker |-> Received(b) - Outside(b)]
TakenOut == [b \in Broker |-> fwd[b] + failed[b] + Busy(b)]
Pressed == [b \in Broker |-> handler[b] = "evict"]

LEMMA QueueChange ==
  ASSUME TypeOK, TypeOK', NEW b \in Broker, \A a \in Broker \ {b} : Seen(a)' = Seen(a)
  PROVE  /\ Arrived' = [Arrived EXCEPT ![b] = Received(b)']
         /\ LetInto' = [LetInto EXCEPT ![b] = Inside(b)']
         /\ TakenOut' = [TakenOut EXCEPT ![b] = Served(b)']
         /\ dropped' = [dropped EXCEPT ![b] = dropped'[b]]
         /\ inflight' = [inflight EXCEPT ![b] = inflight'[b]]
         /\ Pressed' = [Pressed EXCEPT ![b] = (handler'[b] = "evict")]
<1>1. \A a \in Broker \ {b} :
        /\ Received(a)' = Received(a) /\ Inside(a)' = Inside(a)
        /\ Served(a)' = Served(a) /\ dropped'[a] = dropped[a]
        /\ inflight'[a] = inflight[a]
        /\ (handler[a] = "evict")' = (handler[a] = "evict")
  BY DEF Seen
<1>2. Arrived' = [Arrived EXCEPT ![b] = Received(b)']
  BY <1>1 DEF Arrived
<1>3. LetInto' = [LetInto EXCEPT ![b] = Inside(b)']
  BY <1>1 DEF LetInto, Inside
<1>4. TakenOut' = [TakenOut EXCEPT ![b] = Served(b)']
  BY <1>1 DEF TakenOut, Served
<1>5. dropped' = [dropped EXCEPT ![b] = dropped'[b]]
  BY <1>1 DEF TypeOK
<1>6. inflight' = [inflight EXCEPT ![b] = inflight'[b]]
  BY <1>1 DEF TypeOK
<1>7. Pressed' = [Pressed EXCEPT ![b] = (handler'[b] = "evict")]
  <2>1. Pressed' = [a \in Broker |-> handler'[a] = "evict"] BY DEF Pressed
  <2>2. \A a \in Broker \ {b} : (handler'[a] = "evict") = (handler[a] = "evict")
    BY <1>1
  <2> QED BY <2>1, <2>2, Zenon DEF Pressed
<1> QED BY <1>2, <1>3, <1>4, <1>5, <1>6, <1>7

\* Where it changes nothing, the variable stays.
LEMMA QueueKeeps ==
  ASSUME TypeOK, TypeOK', NEW b \in Broker, \A a \in Broker \ {b} : Seen(a)' = Seen(a)
  PROVE  /\ Received(b)' = Received(b) => Arrived' = Arrived
         /\ Inside(b)' = Inside(b) => LetInto' = LetInto
         /\ Served(b)' = Served(b) => TakenOut' = TakenOut
         /\ dropped'[b] = dropped[b] => dropped' = dropped
         /\ inflight'[b] = inflight[b] => inflight' = inflight
         /\ (handler'[b] = "evict") = (handler[b] = "evict") => Pressed' = Pressed
<1>1. \A a \in Broker \ {b} :
        /\ Received(a)' = Received(a) /\ Inside(a)' = Inside(a)
        /\ Served(a)' = Served(a) /\ dropped'[a] = dropped[a]
        /\ inflight'[a] = inflight[a]
        /\ (handler[a] = "evict")' = (handler[a] = "evict")
  BY DEF Seen
<1>2. Received(b)' = Received(b) => Arrived' = Arrived
  BY <1>1 DEF Arrived
<1>3. Inside(b)' = Inside(b) => LetInto' = LetInto
  BY <1>1 DEF LetInto, Inside
<1>4. Served(b)' = Served(b) => TakenOut' = TakenOut
  BY <1>1 DEF TakenOut, Served
<1>5. dropped'[b] = dropped[b] => dropped' = dropped
  BY <1>1 DEF TypeOK
<1>6. inflight'[b] = inflight[b] => inflight' = inflight
  BY <1>1 DEF TypeOK
<1>7. (handler'[b] = "evict") = (handler[b] = "evict") => Pressed' = Pressed
  <2>1. Pressed' = [a \in Broker |-> handler'[a] = "evict"] BY DEF Pressed
  <2> QED BY <1>1, <2>1, Zenon DEF Pressed
<1> QED BY <1>2, <1>3, <1>4, <1>5, <1>6, <1>7

\* What the abstract actions read and write at a worker.
LEMMA QueueActions ==
  ASSUME TypeOK, TypeOK', NEW b \in Broker, \A a \in Broker \ {b} : Seen(a)' = Seen(a),
         \/ /\ Inside(b) = Received(b) /\ Received(b)' = Received(b) + 1
            /\ UNCHANGED <<Inside(b), Served(b), dropped[b], inflight[b], handler[b] = "evict">>
         \/ /\ Inside(b) < Received(b) /\ Inside(b) - (Served(b) + dropped[b]) = Capacity(b)
            /\ handler'[b] = "evict"
            /\ UNCHANGED <<Received(b), Inside(b), Served(b), dropped[b], inflight[b]>>
         \/ /\ Inside(b) < Received(b) /\ Inside(b)' = Inside(b) + 1
            /\ Inside(b) - (Served(b) + dropped[b]) < Capacity(b)
            /\ handler'[b] # "evict"
            /\ UNCHANGED <<Received(b), Served(b), dropped[b], inflight[b]>>
         \/ /\ Inside(b) < Received(b) /\ handler[b] = "evict" /\ handler'[b] # "evict"
            /\ Served(b) + dropped[b] < Inside(b)
            /\ Inside(b)' = Inside(b) + 1 /\ dropped'[b] = dropped[b] + 1
            /\ UNCHANGED <<Received(b), Served(b), inflight[b]>>
         \/ /\ Served(b) + dropped[b] < Inside(b)
            /\ inflight'[b] = Served(b) + dropped[b] + 1 /\ Served(b)' = Served(b) + 1
            /\ UNCHANGED <<Received(b), Inside(b), dropped[b], handler[b] = "evict">>
  PROVE  Queue!Next
<1>t. /\ Received(b) \in Nat /\ Inside(b) \in Int /\ Served(b) \in Nat /\ dropped[b] \in Nat
      /\ Capacity(b) \in Nat
  <2>1. /\ body[b] \in Seq(Message) /\ fwd[b] \in Nat /\ failed[b] \in Nat /\ dropped[b] \in Nat
    BY DEF TypeOK
  <2> QED BY <2>1, CapacityPositive DEF Received, Inside, Served, Outside, Busy
<1>v. /\ Arrived[b] = Received(b) /\ LetInto[b] = Inside(b) /\ TakenOut[b] = Served(b)
      /\ Pressed[b] = (handler[b] = "evict")
  BY DEF Arrived, LetInto, TakenOut, Pressed, Inside, Served
<1>c. [a \in Broker |-> Capacity(a)][b] = Capacity(b) OBVIOUS
<1>a. ASSUME Inside(b) = Received(b), Received(b)' = Received(b) + 1,
             UNCHANGED <<Inside(b), Served(b), dropped[b], inflight[b], handler[b] = "evict">>
      PROVE  Queue!Arrive(b)
  <2>1. ~Queue!AtDoor(b) BY <1>a, <1>t, <1>v DEF Queue!AtDoor, Arrived, LetInto
  <2>2. Arrived' = [Arrived EXCEPT ![b] = Arrived[b] + 1] BY <1>a, <1>v, QueueChange
  <2>3. LetInto' = LetInto BY <1>a, QueueKeeps
  <2>4. TakenOut' = TakenOut BY <1>a, QueueKeeps
  <2>5. dropped' = dropped /\ inflight' = inflight BY <1>a, QueueKeeps
  <2>6. Pressed' = Pressed BY <1>a, QueueKeeps, Zenon
  <2> QED BY <2>1, <2>2, <2>3, <2>4, <2>5, <2>6
          DEF Queue!Arrive, Arrived, LetInto, TakenOut, Pressed
<1>g. Queue!Gone(b) = Served(b) + dropped[b] /\ Queue!Waiting(b) = (Served(b) + dropped[b] + 1)..Inside(b)
  BY <1>v DEF Queue!Gone, Queue!Waiting, TakenOut, LetInto
<1>b. ASSUME Inside(b) < Received(b),
             Inside(b) - (Served(b) + dropped[b]) = Capacity(b),
             handler'[b] = "evict",
             UNCHANGED <<Received(b), Inside(b), Served(b), dropped[b], inflight[b]>>
      PROVE  Queue!FindFull(b)
  <2>1. Queue!AtDoor(b)
    BY <1>b, <1>t, <1>v, SMT DEF Queue!AtDoor, Arrived, LetInto
  <2>2. LetInto[b] - Queue!Gone(b) = [a \in Broker |-> Capacity(a)][b]
    BY <1>b, <1>t, <1>v, <1>c DEF Queue!Gone, LetInto, TakenOut
  <2>3. Arrived' = Arrived
    BY <1>b, <1>t, <1>v, QueueKeeps
  <2>4. LetInto' = LetInto
    BY <1>b, <1>t, <1>v, QueueKeeps
  <2>5. TakenOut' = TakenOut
    BY <1>b, <1>t, <1>v, QueueKeeps
  <2>6. dropped' = dropped
    BY <1>b, <1>t, <1>v, QueueKeeps
  <2>7. inflight' = inflight
    BY <1>b, <1>t, <1>v, QueueKeeps
  <2>8. Pressed' = [Pressed EXCEPT ![b] = TRUE]
    BY <1>b, <1>t, <1>v, QueueChange, Zenon
  <2> QED
    BY <2>1, <2>2, <2>3, <2>4, <2>5, <2>6, <2>7, <2>8
       DEF Queue!FindFull, Arrived, LetInto, TakenOut, Pressed
<1>d. ASSUME Inside(b) < Received(b),
             Inside(b)' = Inside(b) + 1,
             Inside(b) - (Served(b) + dropped[b]) < Capacity(b),
             handler'[b] # "evict",
             UNCHANGED <<Received(b), Served(b), dropped[b], inflight[b]>>
      PROVE  Queue!LetIn(b)
  <2>1. Queue!AtDoor(b)
    BY <1>d, <1>t, <1>v, SMT DEF Queue!AtDoor, Arrived, LetInto
  <2>2. LetInto[b] - Queue!Gone(b) < [a \in Broker |-> Capacity(a)][b]
    BY <1>d, <1>t, <1>v, <1>c DEF Queue!Gone, LetInto, TakenOut
  <2>3. Arrived' = Arrived
    BY <1>d, <1>t, <1>v, QueueKeeps
  <2>4. LetInto' = [LetInto EXCEPT ![b] = LetInto[b] + 1]
    BY <1>d, <1>t, <1>v, QueueChange
  <2>5. TakenOut' = TakenOut
    BY <1>d, <1>t, <1>v, QueueKeeps
  <2>6. dropped' = dropped
    BY <1>d, <1>t, <1>v, QueueKeeps
  <2>7. inflight' = inflight
    BY <1>d, <1>t, <1>v, QueueKeeps
  <2>8. Pressed' = [Pressed EXCEPT ![b] = FALSE]
    BY <1>d, <1>t, <1>v, QueueChange, Zenon
  <2> QED
    BY <2>1, <2>2, <2>3, <2>4, <2>5, <2>6, <2>7, <2>8
       DEF Queue!LetIn, Queue!Enter, Arrived, LetInto, TakenOut, Pressed
<1>e. ASSUME Inside(b) < Received(b),
             handler[b] = "evict",
             handler'[b] # "evict",
             Served(b) + dropped[b] < Inside(b),
             Inside(b)' = Inside(b) + 1,
             dropped'[b] = dropped[b] + 1,
             UNCHANGED <<Received(b), Served(b), inflight[b]>>
      PROVE  Queue!Replace(b)
  <2>1. Queue!AtDoor(b)
    BY <1>e, <1>t, <1>v, SMT DEF Queue!AtDoor, Arrived, LetInto
  <2>2. Queue!Waiting(b) # {}
    BY <1>e, <1>t, <1>v, <1>g DEF LetInto
  <2>3. Pressed[b]
    BY <1>e, <1>t, <1>v, Zenon
  <2>4. Arrived' = Arrived
    BY <1>e, <1>t, <1>v, QueueKeeps
  <2>5. LetInto' = [LetInto EXCEPT ![b] = LetInto[b] + 1]
    BY <1>e, <1>t, <1>v, QueueChange
  <2>6. TakenOut' = TakenOut
    BY <1>e, <1>t, <1>v, QueueKeeps
  <2>7. dropped' = [dropped EXCEPT ![b] = dropped[b] + 1]
    BY <1>e, <1>t, <1>v, QueueChange
  <2>8. inflight' = inflight
    BY <1>e, <1>t, <1>v, QueueKeeps
  <2>9. Pressed' = [Pressed EXCEPT ![b] = FALSE]
    BY <1>e, <1>t, <1>v, QueueChange, Zenon
  <2> QED
    BY <2>1, <2>2, <2>3, <2>4, <2>5, <2>6, <2>7, <2>8, <2>9
       DEF Queue!Replace, Queue!Enter, Arrived, LetInto, TakenOut, Pressed
<1>f. ASSUME Served(b) + dropped[b] < Inside(b),
             inflight'[b] = Served(b) + dropped[b] + 1,
             Served(b)' = Served(b) + 1,
             UNCHANGED <<Received(b), Inside(b), dropped[b], handler[b] = "evict">>
      PROVE  Queue!Take(b)
  <2>1. Queue!Waiting(b) # {}
    BY <1>f, <1>t, <1>v, <1>g DEF LetInto
  <2>2. Arrived' = Arrived
    BY <1>f, <1>t, <1>v, QueueKeeps
  <2>3. LetInto' = LetInto
    BY <1>f, <1>t, <1>v, QueueKeeps
  <2>4. TakenOut' = [TakenOut EXCEPT ![b] = TakenOut[b] + 1]
    BY <1>f, <1>t, <1>v, QueueChange
  <2>5. dropped' = dropped
    BY <1>f, <1>t, <1>v, QueueKeeps
  <2>6. inflight' = [inflight EXCEPT ![b] = Queue!Gone(b) + 1]
    BY <1>f, <1>t, <1>v, <1>g, QueueChange
  <2>7. Pressed' = Pressed
    BY <1>f, <1>t, <1>v, QueueKeeps, Zenon
  <2> QED
    BY <2>1, <2>2, <2>3, <2>4, <2>5, <2>6, <2>7
       DEF Queue!Take, Arrived, LetInto, TakenOut, Pressed
<1> QED BY <1>a, <1>b, <1>d, <1>e, <1>f DEF Queue!Next

\* What a worker shows, unfolded.
LEMMA SeenSame ==
  ASSUME NEW a \in Broker, UNCHANGED <<body[a], handler[a], fwd[a], failed[a], dropped[a],
                                       inflight[a], loop[a]>>
  PROVE  Seen(a)' = Seen(a)
BY DEF Seen, Received, Inside, Outside, Served, Busy

\* What EXCEPT needs to know.
LEMMA Domains ==
  ASSUME TypeOK
  PROVE  /\ DOMAIN body = Broker /\ DOMAIN handler = Broker /\ DOMAIN dropped = Broker
         /\ DOMAIN fwd = Broker /\ DOMAIN failed = Broker /\ DOMAIN loop = Broker
BY DEF TypeOK

\* The numbers of a worker: what went in and did not come out is in the channel.
LEMMA QueueNumbers ==
  ASSUME Safe, NEW b \in Broker
  PROVE  /\ body[b] \in Seq(Message) /\ queue[b] \in Seq(Nat) /\ Received(b) \in Nat
         /\ fwd[b] \in Nat /\ failed[b] \in Nat /\ dropped[b] \in Nat /\ Served(b) \in Nat
         /\ Len(queue[b]) \in Nat /\ Capacity(b) \in Nat \ {0}
         /\ Len(queue[b]) <= Capacity(b)
         /\ Settled(b) \in Int /\ Settled(b) = Served(b) + dropped[b] + Len(queue[b])
         /\ handler[b] # "resend" => Inside(b) = Settled(b)
         /\ handler[b] = "resend" => Inside(b) = Settled(b) + 1
         /\ handler[b] \in {"send", "evict"} => Inside(b) = Received(b) - 1
         /\ handler[b] \notin {"send", "evict"} => Inside(b) = Received(b)
<1>1. /\ body[b] \in Seq(Message) /\ queue[b] \in Seq(Nat)
      /\ fwd[b] \in Nat /\ failed[b] \in Nat /\ dropped[b] \in Nat
      /\ Len(queue[b]) <= Capacity(b)
      /\ handler[b] \in {"idle", "send", "evict", "resend"}
  BY DEF Safe, TypeOK
<1>2. Accounted(b) BY DEF Safe, WorkerSafe
<1>3. Received(b) \in Nat /\ Len(queue[b]) \in Nat /\ InHand(b) \in Nat /\ Busy(b) \in Nat
  BY <1>1 DEF Received, InHand, Busy
<1>4. Served(b) \in Nat BY <1>1, <1>3 DEF Served
<1>5. Settled(b) = Served(b) + dropped[b] + Len(queue[b])
  <2>1. Received(b) = InHand(b) + Len(queue[b]) + Busy(b) + fwd[b] + failed[b] + dropped[b]
    BY <1>2 DEF Accounted
  <2>2. /\ Received(b) \in Int /\ InHand(b) \in Int /\ Len(queue[b]) \in Int /\ Busy(b) \in Int
        /\ fwd[b] \in Int /\ failed[b] \in Int /\ dropped[b] \in Int
    BY <1>1, <1>3
  <2>3. Received(b) - InHand(b) = (fwd[b] + failed[b] + Busy(b)) + dropped[b] + Len(queue[b])
    BY <2>1, <2>2, SMTT(60)
  <2> QED BY <2>3 DEF Settled, Served
<1>6. /\ handler[b] # "resend" => Inside(b) = Settled(b)
      /\ handler[b] = "resend" => Inside(b) = Settled(b) + 1
      /\ handler[b] \in {"send", "evict"} => Inside(b) = Received(b) - 1
      /\ handler[b] \notin {"send", "evict"} => Inside(b) = Received(b)
  BY <1>1, <1>3 DEF Inside, Outside, Settled, InHand
<1>7. Settled(b) \in Int BY <1>3 DEF Settled
<1> QED BY <1>1, <1>3, <1>4, <1>5, <1>6, <1>7, CapacityPositive

\* An arrival.
LEMMA ReceiveQueue ==
  ASSUME Safe, Safe', NEW b \in Broker, Receive(b) PROVE Queue!Next
<1>t. TypeOK /\ TypeOK' BY DEF Safe
<1>1. \A a \in Broker \ {b} : Seen(a)' = Seen(a)
  <2> SUFFICES ASSUME NEW a \in Broker \ {b} PROVE Seen(a)' = Seen(a) OBVIOUS
  <2>1. UNCHANGED <<body[a], handler[a], fwd[a], failed[a], dropped[a], inflight[a], loop[a]>>
    BY <1>t, Domains DEF Receive, counters
  <2> QED BY <2>1, SeenSame
<1>2. /\ handler[b] = "idle" /\ handler'[b] = "send"
      /\ Len(body'[b]) = Len(body[b]) + 1
      /\ UNCHANGED <<fwd, failed, dropped, inflight, loop>>
  <2>1. PICK in \in Inputs : body' = [body EXCEPT ![b] = Append(@, [in |-> in, at |-> now])]
    BY DEF Receive
  <2>2. body[b] \in Seq(Message) /\ [in |-> in, at |-> now] \in Message
    BY <1>t, <2>1 DEF TypeOK, Message
  <2> QED BY <1>t, <2>1, <2>2, AppendFacts DEF Receive, TypeOK
<1>3. /\ Received(b)' = Received(b) + 1 /\ Served(b)' = Served(b)
      /\ dropped'[b] = dropped[b] /\ inflight'[b] = inflight[b]
  BY <1>2 DEF Received, Served, Busy
<1>4. Inside(b) = Received(b) /\ Inside(b)' = Inside(b)
  <2>1. Received(b) \in Nat BY QueueNumbers
  <2> QED BY <1>2, <1>3, <2>1 DEF Inside, Outside
<1>5. (handler[b] = "evict")' = (handler[b] = "evict") BY <1>2
<1> QED BY <1>t, <1>1, <1>3, <1>4, <1>5, QueueActions

\* The first select.
LEMMA EnqueueSendQueue ==
  ASSUME Safe, Safe', NEW b \in Broker, EnqueueSend(b) PROVE Queue!Next
<1>t. TypeOK /\ TypeOK' BY DEF Safe
<1>1. \A a \in Broker \ {b} : Seen(a)' = Seen(a)
  <2> SUFFICES ASSUME NEW a \in Broker \ {b} PROVE Seen(a)' = Seen(a) OBVIOUS
  <2>1. UNCHANGED <<body[a], handler[a], fwd[a], failed[a], dropped[a], inflight[a], loop[a]>>
    BY <1>t, Domains DEF EnqueueSend, counters
  <2> QED BY <2>1, SeenSame
<1>2. /\ handler[b] = "send" /\ handler'[b] = IF Room(b) THEN "idle" ELSE "evict"
      /\ UNCHANGED <<body, fwd, failed, dropped, inflight, loop>>
  BY <1>t DEF EnqueueSend, TypeOK
<1>3. UNCHANGED <<Received(b), Served(b), dropped[b], inflight[b]>>
  BY <1>2 DEF Received, Served, Busy
<1>4. /\ Inside(b) < Received(b) /\ Inside(b) - (Served(b) + dropped[b]) = Len(queue[b])
      /\ Received(b) \in Nat /\ Len(queue[b]) \in Nat /\ Len(queue[b]) <= Capacity(b)
      /\ Capacity(b) \in Nat
  BY <1>2, QueueNumbers
<1>5. CASE Room(b)
  <2>1. Inside(b)' = Inside(b) + 1 BY <1>2, <1>3, <1>4, <1>5 DEF Inside, Outside
  <2>2. Inside(b) - (Served(b) + dropped[b]) < Capacity(b) BY <1>4, <1>5 DEF Room
  <2> QED BY <1>t, <1>1, <1>2, <1>3, <1>4, <1>5, <2>1, <2>2, QueueActions
<1>6. CASE ~Room(b)
  <2>1. Inside(b)' = Inside(b) BY <1>2, <1>3, <1>4, <1>6 DEF Inside, Outside
  <2>2. Inside(b) - (Served(b) + dropped[b]) = Capacity(b) BY <1>4, <1>6 DEF Room
  <2> QED BY <1>t, <1>1, <1>2, <1>3, <1>4, <1>6, <2>1, <2>2, QueueActions
<1> QED BY <1>5, <1>6

\* The second select: this is where the arrival gets in.
LEMMA EnqueueEvictQueue ==
  ASSUME Safe, Safe', NEW b \in Broker, EnqueueEvict(b) PROVE Queue!Next
<1>t. TypeOK /\ TypeOK' BY DEF Safe
<1>1. \A a \in Broker \ {b} : Seen(a)' = Seen(a)
  <2> SUFFICES ASSUME NEW a \in Broker \ {b} PROVE Seen(a)' = Seen(a) OBVIOUS
  <2>1. UNCHANGED <<body[a], handler[a], fwd[a], failed[a], dropped[a], inflight[a], loop[a]>>
    BY <1>t, Domains DEF EnqueueEvict, counters
  <2> QED BY <2>1, SeenSame
<1>2. /\ handler[b] = "evict" /\ handler'[b] = "resend"
      /\ UNCHANGED <<body, fwd, failed, inflight, loop>>
      /\ dropped'[b] = IF queue[b] # <<>> THEN dropped[b] + 1 ELSE dropped[b]
  BY <1>t DEF EnqueueEvict, TypeOK
<1>3. UNCHANGED <<Received(b), Served(b), inflight[b]>>
  BY <1>2 DEF Received, Served, Busy
<1>4. /\ Inside(b) < Received(b) /\ Inside(b) - (Served(b) + dropped[b]) = Len(queue[b])
      /\ Received(b) \in Nat /\ Capacity(b) \in Nat \ {0} /\ queue[b] \in Seq(Nat)
      /\ Served(b) \in Nat /\ dropped[b] \in Nat
  <2>1. /\ Received(b) \in Nat /\ Capacity(b) \in Nat \ {0} /\ queue[b] \in Seq(Nat)
        /\ Served(b) \in Nat /\ dropped[b] \in Nat /\ Len(queue[b]) \in Nat
        /\ Inside(b) = Received(b) - 1
        /\ Inside(b) = Served(b) + dropped[b] + Len(queue[b])
    BY <1>2, QueueNumbers
  <2> QED BY <2>1
<1>5. Inside(b)' = Inside(b) + 1 BY <1>2, <1>3, <1>4 DEF Inside, Outside
<1>6. CASE queue[b] = <<>>
  <2>1. Inside(b) - (Served(b) + dropped[b]) < Capacity(b) BY <1>4, <1>6
  <2> QED BY <1>t, <1>1, <1>2, <1>3, <1>4, <1>5, <1>6, <2>1, QueueActions
<1>7. CASE queue[b] # <<>>
  <2>1. Len(queue[b]) > 0 BY <1>4, <1>7
  <2>2. Served(b) + dropped[b] < Inside(b)
    BY <1>2, <1>4, <2>1, QueueNumbers
  <2> QED BY <1>t, <1>1, <1>2, <1>3, <1>4, <1>5, <1>7, <2>2, QueueActions
<1> QED BY <1>6, <1>7

\* The third select finds room, and the abstract queue has the arrival already.
LEMMA EnqueueResendQueue ==
  ASSUME Safe, Safe', NEW b \in Broker, EnqueueResend(b) PROVE UNCHANGED Queue!queueVars
<1>t. TypeOK /\ TypeOK' BY DEF Safe
<1>1. \A a \in Broker \ {b} : Seen(a)' = Seen(a)
  <2> SUFFICES ASSUME NEW a \in Broker \ {b} PROVE Seen(a)' = Seen(a) OBVIOUS
  <2>1. UNCHANGED <<body[a], handler[a], fwd[a], failed[a], dropped[a], inflight[a], loop[a]>>
    BY <1>t, Domains DEF EnqueueResend, counters
  <2> QED BY <2>1, SeenSame
<1>2. Room(b)
  BY DEF Safe, WorkerSafe, EnqueueKnows, EnqueueResend, Room
<1>3. /\ handler[b] = "resend" /\ handler'[b] = "idle"
      /\ UNCHANGED <<body, fwd, failed, dropped, inflight, loop>>
  BY <1>t, <1>2 DEF EnqueueResend, TypeOK
<1>4. Seen(b)' = Seen(b)
  BY <1>3 DEF Seen, Received, Inside, Outside, Served, Busy
<1> QED BY <1>t, <1>1, <1>4, QueueStutter

\* processLoop takes the oldest reading that waits.
LEMMA LoopTakeQueue ==
  ASSUME Safe, Safe', NEW b \in Broker, LoopTake(b) PROVE Queue!Next
<1>t. TypeOK /\ TypeOK' BY DEF Safe
<1>1. \A a \in Broker \ {b} : Seen(a)' = Seen(a)
  BY <1>t, SeenSame DEF LoopTake, TypeOK
<1>2. /\ loop[b] = "select" /\ loop'[b] = "forward" /\ queue[b] # <<>>
      /\ inflight'[b] = Head(queue[b])
      /\ UNCHANGED <<body, handler, fwd, failed, dropped>>
  BY <1>t DEF LoopTake, TypeOK
<1>3. UNCHANGED <<Received(b), Inside(b), dropped[b], handler[b] = "evict">>
  BY <1>2 DEF Received, Inside, Outside
<1>4. /\ queue[b] \in Seq(Nat) /\ Len(queue[b]) \in Nat /\ Served(b) \in Nat
      /\ dropped[b] \in Nat /\ Settled(b) \in Int
      /\ Settled(b) = Served(b) + dropped[b] + Len(queue[b])
      /\ Inside(b) = Settled(b) \/ Inside(b) = Settled(b) + 1
  BY QueueNumbers
<1>5. Len(queue[b]) > 0 /\ Head(queue[b]) = queue[b][1] BY <1>2, <1>4
<1>6. Head(queue[b]) = Settled(b) - Len(queue[b]) + 1
  BY <1>4, <1>5 DEF Safe, WorkerSafe, HoldsLatest
<1>7. Served(b) + dropped[b] < Inside(b) BY <1>4, <1>5
<1>8. inflight'[b] = Served(b) + dropped[b] + 1 BY <1>2, <1>4, <1>6
<1>9. Served(b)' = Served(b) + 1
  <2>1. fwd[b] \in Nat /\ failed[b] \in Nat BY QueueNumbers
  <2> QED BY <1>2, <2>1 DEF Served, Busy
<1> QED BY <1>t, <1>1, <1>3, <1>7, <1>8, <1>9, QueueActions

\* What becomes of a reading that was taken does not show.
LEMMA ForwardQueue ==
  ASSUME Safe, Safe', NEW b \in Broker, ForwardStep(b) PROVE UNCHANGED Queue!queueVars
<1>t. TypeOK /\ TypeOK' BY DEF Safe
<1> USE DEF ForwardStep, ForwardReject, ForwardSubmit, RpcSucceeds, RpcFails, Fails, AfterFailure
<1>1. \A a \in Broker \ {b} : Seen(a)' = Seen(a)
  <2> SUFFICES ASSUME NEW a \in Broker \ {b} PROVE Seen(a)' = Seen(a) OBVIOUS
  <2>1. UNCHANGED <<body[a], handler[a], fwd[a], failed[a], dropped[a], inflight[a], loop[a]>>
    BY <1>t, Domains
  <2> QED BY <2>1, SeenSame
<1>2. UNCHANGED <<body, handler, dropped, inflight>> OBVIOUS
<1>3. Served(b)' = Served(b)
  <2>1. fwd[b] \in Nat /\ failed[b] \in Nat BY QueueNumbers
  <2>2. /\ loop[b] \in {"forward", "rpc"}
        /\ \/ /\ loop'[b] \in {"forward", "rpc"}
              /\ UNCHANGED <<fwd[b], failed[b]>>
           \/ /\ loop'[b] = "select" /\ failed'[b] = failed[b] + 1 /\ fwd'[b] = fwd[b]
           \/ /\ loop'[b] = "select" /\ fwd'[b] = fwd[b] + 1 /\ failed'[b] = failed[b]
    BY <1>t, SMTT(30) DEF TypeOK
  <2> QED BY <2>1, <2>2 DEF Served, Busy
<1>4. Seen(b)' = Seen(b)
  BY <1>2, <1>3 DEF Seen, Received, Inside, Outside
<1> QED BY <1>t, <1>1, <1>4, QueueStutter

\* Nor does what main, the connections and the clock do.
LEMMA MainQueue ==
  ASSUME Safe, Safe',
         \/ MainStep \/ Signal \/ Tick \/ Exited \/ UNCHANGED vars
         \/ \E b \in Broker : Connect(b) \/ LoseLink(b) \/ LoopExit(b)
  PROVE  UNCHANGED Queue!queueVars
<1>t. TypeOK /\ TypeOK' BY DEF Safe
<1>1. UNCHANGED <<body, handler, fwd, failed, dropped, inflight>>
  BY DEF MainStep, Started, StartFails, AllStarted, StopCancel, StopWait, Stopped, Signal, Tick,
     Exited, Connect, LoseLink, LoopExit, vars
<1>2. \A b \in Broker : Busy(b)' = Busy(b)
  <2>1. CASE Started
    <3>1. cur \in Broker
      BY <1>t, <2>1, BrokerAssumption DEF Started, TypeOK, Broker
    <3>2. loop[cur] = "none"
      BY <2>1, <3>1 DEF Safe, StartedInOrder, Started, Broker
    <3> QED BY <1>t, <2>1, <3>1, <3>2 DEF Started, TypeOK, Busy
  <2>2. CASE \E b \in Broker : LoopExit(b)
    BY <1>t, <2>2 DEF LoopExit, TypeOK, Busy
  <2>3. CASE ~Started /\ ~\E b \in Broker : LoopExit(b)
    BY <2>3 DEF MainStep, StartFails, AllStarted, StopCancel, StopWait, Stopped, Signal, Tick,
       Exited, Connect, LoseLink, vars, Busy
  <2> QED BY <2>1, <2>2, <2>3
<1>3. \A b \in Broker : Seen(b)' = Seen(b)
  BY <1>1, <1>2 DEF Seen, Received, Inside, Outside, Served
<1> QED BY <1>t, <1>3, QueueStutter

LEMMA QueueStep ==
  ASSUME Safe, Safe', [Next]_vars PROVE [Queue!Next]_(Queue!queueVars)
BY MainQueue, ReceiveQueue, EnqueueSendQueue, EnqueueEvictQueue, EnqueueResendQueue,
   LoopTakeQueue, ForwardQueue DEF Next, CallbackStep, LoopStep

LEMMA QueueInit == Init => Queue!Init
<1> SUFFICES ASSUME Init PROVE Queue!Init OBVIOUS
<1>1. \A b \in Broker : /\ Received(b) = 0 /\ Outside(b) = 0 /\ Busy(b) = 0
                        /\ fwd[b] = 0 /\ failed[b] = 0 /\ (handler[b] = "evict") = FALSE
  BY DEF Init, Received, Outside, Busy
<1>2. dropped = [b \in Broker |-> 0] /\ inflight = [b \in Broker |-> 0] BY DEF Init
<1>3. [b \in Broker |-> Received(b)] = [b \in Broker |-> 0] BY <1>1
<1>4. [b \in Broker |-> Received(b) - Outside(b)] = [b \in Broker |-> 0] BY <1>1
<1>5. [b \in Broker |-> fwd[b] + failed[b] + Busy(b)] = [b \in Broker |-> 0] BY <1>1
<1>6. [b \in Broker |-> handler[b] = "evict"] = [b \in Broker |-> FALSE] BY <1>1, Zenon
<1> QED BY <1>2, <1>3, <1>4, <1>5, <1>6 DEF Queue!Init

\* The channel, filled in three selects while processLoop empties it, implements
\* the queue whose oldest entry gives way in one step, for any number of brokers,
\* any buffer sizes and any inputs.
THEOREM AtomicBuffer == Spec => ImplementsQueue
<1>1. Safe /\ Safe' /\ [Next]_vars => [Queue!Next]_(Queue!queueVars) BY QueueStep
<1>2. Spec => [][Next]_vars BY PTL DEF Spec
<1>3. Spec => Queue!Init BY QueueInit DEF Spec
<1> QED BY <1>1, <1>2, <1>3, SafeInvariant, PTL DEF ImplementsQueue, Queue!Spec
=============================================================================
