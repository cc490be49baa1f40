---------------------------- MODULE TelemetryFeed ----------------------------
(***************************************************************************)
(* How readings travel over MQTT: the workers of the simulator publish     *)
(* with QoS 1, the broker passes a message on to whoever is subscribed,    *)
(* the subscriber in the telemetry service hands it to SubmitMetric.       *)
(* Connections break and come back, the broker and the service stop and    *)
(* start, a run of the simulator ends and another begins.                  *)
(*                                                                         *)
(* SubmitMetric is its effect on the deduplication keys, the rows and the  *)
(* evaluations; TelemetryIngest models how it gets there.  The MQTT client *)
(* (paho) and the broker are external.  Sessions are clean: the broker     *)
(* keeps nothing for a subscriber that is away, while a publisher sends    *)
(* again, after a reconnect, what was not acknowledged.                    *)
(***************************************************************************)
EXTENDS Integers, Sequences, FiniteSets

CONSTANTS
  Worker,        \* device ids of the simulator's goroutines
  Registered,    \* those with a row in table devices
  Text,          \* texts that occur in topics and payloads
  Foreign,       \* what others publish under the subscribed topics
  MinInterval,   \* seconds between two readings of a worker: at least ...
  MaxInterval,   \* ... and at most
  MaxReadings,   \* bounds on the readings of a worker,
  MaxLosses,     \* broken connections and stops of the broker,
  MaxStops,      \* stops and crashes of the service,
  MaxRuns,       \* runs of the simulator,
  MaxLapses,     \* keys that expire or that Redis fails to take
  MaxInbox       \* and messages between broker and subscriber

\* Mutant: the interval is not checked.
UncheckedInterval == MinInterval - 1

\* main ends at once unless 0 < MinIntervalSec <= MaxIntervalSec.
ShortestInterval == MinInterval

ASSUME FeedAssumption ==
  /\ Registered \subseteq Worker /\ Worker \subseteq Text \ {""}
  /\ MinInterval \in Nat \ {0} /\ MaxInterval \in Nat /\ MinInterval <= MaxInterval
  /\ {MaxReadings, MaxLosses, MaxStops, MaxRuns, MaxLapses, MaxInbox} \subseteq Nat

\* A reading is told from others by its number; sec is its timestamp.
Reading == [dev : Worker, n : 1..MaxReadings, sec : Nat]

VARIABLES
  now,     \* the clock, in seconds
  broker,  \* whether the broker runs
  at,      \* where each worker is
  cur,     \* the reading it publishes
  tok,     \* its unacknowledged publish: "none", "sent" or "taken" by the broker
  wake,    \* when its sleep ends
  counted, \* sentCount: the readings whose publish succeeded
  stop,    \* stopCh is closed
  runs,    \* runs of the simulator so far
  proc,    \* where main of the telemetry service is
  redis,   \* the Redis client it keeps for as long as it runs
  link,    \* its subscriber: "off", "connected", "subscribed" or "refused"
  inbox,   \* messages on their way to handleMessage
  task,    \* the message in handleMessage: none, or one and how far it is
  dedup,   \* the dedup:{device}:{second} keys in Redis
  rows,    \* table metrics
  evals,   \* history: readings handed to the evaluator ...
  again,   \* ... and those handed to it more than once
  lost,    \* history: readings that passed a gap in the subscription, or whose
           \* submit failed or was cut short
  blind,   \* history: keys that expired or were not asked for
  losses,  \* connections broken so far
  stops    \* ends of the service so far

sim == <<at, cur, tok, wake, counted, stop, runs>>
main == <<proc, redis, stops>>
route == <<link, inbox>>
store == <<dedup, rows, evals, again, blind>>
vars == <<now, broker, sim, main, route, task, store, lost, losses>>

-----------------------------------------------------------------------------
(* Messages. *)

KnownFields == {"metric_name", "value", "timestamp_unix_seconds", "status", "tags"}

\* of: the reading that a message is about, if it is about one.
Message == [topic : Seq(Text), fields : SUBSET Text, metric_name : Text,
            of : SUBSET Reading]

ASSUME TextAssumption ==
  KnownFields \cup {"", "devices", "telemetry", "temperature"} \subseteq Text

\* publishOne: the topic and the JSON object of a reading.
MessageOf(r) ==
  [topic |-> <<"devices", r.dev, "telemetry">>, fields |-> KnownFields,
   metric_name |-> "temperature", of |-> {r}]

\* deviceIDFromTopic.
DeviceInTopic(topic) ==
  /\ Len(topic) = 3
  /\ topic[1] = "devices" /\ topic[3] = "telemetry" /\ topic[2] # ""

\* parsePayloadStrict: an unknown field is an error, a missing one its zero.
PayloadParses(m) == m.fields \subseteq KnownFields /\ m.metric_name # ""

Accepted(m) == DeviceInTopic(m.topic) /\ PayloadParses(m)

\* What others publish is no reading, and the checks turn it away.
ASSUME ForeignAssumption ==
  Foreign \subseteq Message /\ \A m \in Foreign : m.of = {} /\ ~Accepted(m)

IsMessage(m) == m \in Foreign \/ \E r \in m.of : r \in Reading /\ m = MessageOf(r)

Readings(messages) == UNION {messages[i].of : i \in DOMAIN messages}

\* TryMarkDedup: the device and the second.
Key(r) == <<r.dev, r.sec>>

NoTask == [m |-> <<>>, pc |-> "idle"]
Handling(m, step) == [m |-> <<m>>, pc |-> step]

\* The reading that handleMessage submits.
Current == CHOOSE r \in task.m[1].of : TRUE

Init ==
  /\ now = 0 /\ broker = "up"
  /\ at = [w \in Worker |-> "ready"]
  /\ cur = [w \in Worker |-> [dev |-> w, n |-> 0, sec |-> 0]]
  /\ tok = [w \in Worker |-> "none"]
  /\ wake = [w \in Worker |-> 0]
  /\ counted = {} /\ stop = FALSE /\ runs = 1
  /\ proc = "down" /\ redis = FALSE /\ stops = 0
  /\ link = "off" /\ inbox = <<>> /\ task = NoTask
  /\ dedup = {} /\ rows = {} /\ blind = {} /\ lost = {}
  /\ evals = {} /\ again = {}
  /\ losses = 0

-----------------------------------------------------------------------------
(* The simulator. *)

\* run and publishOne: the payload is stamped and given to the client, which
\* keeps it until it is acknowledged, connected or not.
Publish(w) ==
  /\ at[w] = "ready" /\ ~stop
  /\ cur[w].n < MaxReadings
  /\ cur' = [cur EXCEPT ![w] = [dev |-> w, n |-> @.n + 1, sec |-> now]]
  /\ at' = [at EXCEPT ![w] = "first"]
  /\ tok' = [tok EXCEPT ![w] = "sent"]
  /\ UNCHANGED <<now, broker, wake, counted, stop, runs, main, route, task, store,
                 lost, losses>>

\* nextInterval, after publishOne returned.
Sleep(w) ==
  /\ at' = [at EXCEPT ![w] = "asleep"]
  /\ \E n \in ShortestInterval..MaxInterval : wake' = [wake EXCEPT ![w] = now + n]

\* publishQoS1 returns: the first publish is counted, and some are repeated.
Published(w) ==
  /\ broker = "up" /\ tok[w] = "taken"
  /\ counted' = counted \cup {cur[w]}
  /\ \/ /\ at[w] = "first"
        /\ at' = [at EXCEPT ![w] = "second"]
        /\ tok' = [tok EXCEPT ![w] = "sent"]
        /\ UNCHANGED wake
     \/ tok' = [tok EXCEPT ![w] = "none"] /\ Sleep(w)
  /\ UNCHANGED <<now, broker, cur, stop, runs, main, route, task, store, lost, losses>>

Wake(w) ==
  /\ at[w] = "asleep" /\ wake[w] <= now
  /\ at' = [at EXCEPT ![w] = "ready"]
  /\ UNCHANGED <<now, broker, cur, tok, wake, counted, stop, runs, main, route, task,
                 store, lost, losses>>

\* A worker looks at stopCh between two readings and nowhere else.
Leave(w) ==
  /\ at[w] = "ready" /\ stop
  /\ at' = [at EXCEPT ![w] = "done"]
  /\ UNCHANGED <<now, broker, cur, tok, wake, counted, stop, runs, main, route, task,
                 store, lost, losses>>

\* A signal, or the end of DurationSeconds.
CloseStop ==
  /\ ~stop
  /\ stop' = TRUE
  /\ UNCHANGED <<now, broker, at, cur, tok, wake, counted, runs, main, route, task,
                 store, lost, losses>>

\* wg.Wait has returned and the process ended; the next run uses the same ids.
RunAgain ==
  /\ stop /\ \A w \in Worker : at[w] = "done"
  /\ broker = "up" /\ runs < MaxRuns
  /\ stop' = FALSE /\ runs' = runs + 1
  /\ at' = [w \in Worker |-> "ready"]
  /\ UNCHANGED <<now, broker, cur, tok, wake, counted, main, route, task, store,
                 lost, losses>>

-----------------------------------------------------------------------------
(* The broker and the connections to it. *)

\* A message goes to the subscriber, or to nobody.
Forward(m) ==
  IF link = "subscribed"
    THEN inbox' = Append(inbox, m) /\ UNCHANGED lost
    ELSE lost' = lost \cup m.of /\ UNCHANGED inbox

\* The broker takes a publish; its acknowledgement is on the way.
Take(w) ==
  /\ broker = "up" /\ tok[w] = "sent" /\ Len(inbox) < MaxInbox
  /\ tok' = [tok EXCEPT ![w] = "taken"]
  /\ Forward(MessageOf(cur[w]))
  /\ UNCHANGED <<now, broker, at, cur, wake, counted, stop, runs, main, link, task,
                 store, losses>>

\* Another client publishes; the last place is left to the simulator.
Interfere ==
  /\ broker = "up" /\ Len(inbox) + 1 < MaxInbox
  /\ \E m \in Foreign : Forward(m)
  /\ UNCHANGED <<now, broker, sim, main, link, task, store, losses>>

\* The client sends again what was not acknowledged.
Resend == tok' = [w \in Worker |-> IF tok[w] = "taken" THEN "sent" ELSE tok[w]]

\* The messages from some point on do not arrive.
LoseInbox ==
  /\ \E n \in 0..Len(inbox) :
       /\ inbox' = SubSeq(inbox, 1, n)
       /\ lost' = lost \cup Readings(SubSeq(inbox, n + 1, Len(inbox)))
  /\ link' = "off"

\* The broker stops: every connection is lost, and the clean sessions with it.
BrokerStops ==
  /\ broker = "up" /\ losses < MaxLosses
  /\ broker' = "down" /\ losses' = losses + 1
  /\ Resend /\ LoseInbox
  /\ UNCHANGED <<now, at, cur, wake, counted, stop, runs, main, task, store>>

BrokerStarts ==
  /\ broker = "down"
  /\ broker' = "up"
  /\ UNCHANGED <<now, sim, main, route, task, store, lost, losses>>

\* The simulator's connection breaks, and the client connects again.
SimulatorReconnects ==
  /\ broker = "up" /\ losses < MaxLosses
  /\ \E w \in Worker : tok[w] = "taken"
  /\ losses' = losses + 1 /\ Resend
  /\ UNCHANGED <<now, broker, at, cur, wake, counted, stop, runs, main, route, task,
                 store, lost>>

SubscriberLost ==
  /\ link # "off" /\ losses < MaxLosses
  /\ losses' = losses + 1 /\ LoseInbox
  /\ UNCHANGED <<now, broker, sim, main, task, store>>

-----------------------------------------------------------------------------
(* The telemetry service. *)

\* main asks Redis once: without an answer there is no client, now or later.
Boot ==
  /\ proc = "down"
  /\ proc' = "publisher" /\ redis' \in BOOLEAN
  /\ UNCHANGED <<now, broker, sim, stops, route, task, store, lost, losses>>

\* NewAlertPublisher: with ConnectRetry the token is not done before a
\* connection is there, so main waits for the broker.
PublisherConnects ==
  /\ proc = "publisher" /\ broker = "up"
  /\ proc' = "subscriber"
  /\ UNCHANGED <<now, broker, sim, redis, stops, route, task, store, lost, losses>>

\* TelemetrySubscriber.Start waits in the same way; then the server runs.
SubscriberStarts ==
  /\ proc = "subscriber" /\ broker = "up"
  /\ proc' = "serving" /\ link' = "connected"
  /\ UNCHANGED <<now, broker, sim, redis, stops, inbox, task, store, lost, losses>>

\* SetAutoReconnect.
Reconnect ==
  /\ proc = "serving" /\ link = "off" /\ broker = "up"
  /\ link' = "connected"
  /\ UNCHANGED <<now, broker, sim, main, inbox, task, store, lost, losses>>

\* Mutant: Start subscribes, not the handler of OnConnect.
SubscribeOnce ==
  /\ link = "connected" /\ losses = 0
  /\ link' = "subscribed"
  /\ UNCHANGED <<now, broker, sim, main, inbox, task, store, lost, losses>>

\* The handler of OnConnect, which the client calls after every connection.
Subscribe ==
  /\ link = "connected"
  /\ link' = "subscribed"
  /\ UNCHANGED <<now, broker, sim, main, inbox, task, store, lost, losses>>

\* Its Subscribe fails on a connection that stays: the error is logged, the handler
\* returns, and nobody tries again before the next connection.
SubscribeFails ==
  /\ link = "connected"
  /\ link' = "refused"
  /\ UNCHANGED <<now, broker, sim, main, inbox, task, store, lost, losses>>

\* The client calls handleMessage for one message after the other.
HandleMessage ==
  /\ task = NoTask /\ inbox # <<>>
  /\ inbox' = Tail(inbox)
  /\ task' = IF Accepted(Head(inbox)) THEN Handling(Head(inbox), "submit") ELSE NoTask
  /\ UNCHANGED <<now, broker, sim, main, link, store, lost, losses>>

\* SETNX answers 0: SubmitMetric says "duplicate ignored".
Duplicate ==
  /\ task.pc = "submit" /\ redis
  /\ Key(Current) \in dedup
  /\ task' = NoTask
  /\ UNCHANGED <<now, broker, sim, main, route, store, lost, losses>>

\* Mutant: every message is taken for new.
AllNew(r) == TRUE

New(r) == Key(r) \notin dedup

\* SETNX answers 1, and the point goes to the write queue.
Mark ==
  /\ task.pc = "submit" /\ redis
  /\ New(Current)
  /\ dedup' = dedup \cup {Key(Current)}
  /\ task' = [task EXCEPT !.pc = "write"]
  /\ UNCHANGED <<now, broker, sim, main, route, rows, evals, again, blind, lost, losses>>

\* There is no Redis client, or SETNX fails and may have set the key.
MarkBlind ==
  /\ task.pc = "submit"
  /\ \/ ~redis /\ UNCHANGED dedup
     \/ /\ redis /\ Cardinality(blind) < MaxLapses
        /\ dedup' \in {dedup, dedup \cup {Key(Current)}}
  /\ blind' = blind \cup {Key(Current)}
  /\ task' = [task EXCEPT !.pc = "write"]
  /\ UNCHANGED <<now, broker, sim, main, route, rows, evals, again, lost, losses>>

\* InsertMetric: a row that is there stays.
Inserted(r) ==
  IF \E x \in rows : Key(x) = Key(r) THEN rows ELSE rows \cup {r}

\* The worker stores the point, and it is evaluated whether or not it was new.
Store ==
  /\ task.pc = "write"
  /\ Current.dev \in Registered
  /\ rows' = Inserted(Current)
  /\ evals' = evals \cup {Current} /\ again' = again \cup (evals \cap {Current})
  /\ task' = NoTask
  /\ UNCHANGED <<now, broker, sim, main, route, dedup, blind, lost, losses>>

\* The queue is full, submitTimeout passes, the insert fails or the device is
\* unknown; the row may be there all the same.  handleMessage logs the error
\* and returns, and the client acknowledges the message.
SubmitFails ==
  /\ task.pc = "write"
  /\ rows' \in {rows} \cup (IF Current.dev \in Registered THEN {Inserted(Current)} ELSE {})
  /\ lost' = lost \cup {Current}
  /\ task' = NoTask
  /\ UNCHANGED <<now, broker, sim, main, route, dedup, evals, again, blind, losses>>

\* A key reaches dedupTTL.
KeyExpires ==
  /\ Cardinality(blind) < MaxLapses
  /\ \E k \in dedup : dedup' = dedup \ {k} /\ blind' = blind \cup {k}
  /\ UNCHANGED <<now, broker, sim, main, route, task, rows, evals, again, lost, losses>>

\* Mutant: main ends without a call of Stop.
StopWithoutDisconnect ==
  /\ proc = "serving" /\ stops < MaxStops
  /\ proc' = "stopping"
  /\ UNCHANGED <<now, broker, sim, redis, stops, route, task, store, lost, losses>>

\* SIGTERM: Stop disconnects, and what is on its way does not arrive.
StopSubscriber ==
  /\ proc = "serving" /\ stops < MaxStops
  /\ proc' = "stopping" /\ link' = "off" /\ inbox' = <<>>
  /\ lost' = lost \cup Readings(inbox)
  /\ UNCHANGED <<now, broker, sim, redis, stops, task, store, losses>>

\* The process ends, in order or not, without waiting for handleMessage.
Ends ==
  /\ proc' = "down" /\ redis' = FALSE /\ stops' = stops + 1
  /\ link' = "off" /\ inbox' = <<>> /\ task' = NoTask
  /\ lost' = lost \cup Readings(inbox) \cup Readings(task.m)
  /\ UNCHANGED <<now, broker, sim, dedup, rows, evals, again, blind, losses>>

Exit == proc = "stopping" /\ Ends

Crash == proc # "down" /\ stops < MaxStops /\ Ends

\* Time between two readings is time a worker sleeps; the clock is let run then.
Tick ==
  /\ \E w \in Worker : at[w] = "asleep" /\ now < wake[w]
  /\ now' = now + 1
  /\ UNCHANGED <<broker, sim, main, route, task, store, lost, losses>>

-----------------------------------------------------------------------------
SimulatorStep(w) == Publish(w) \/ Take(w) \/ Published(w) \/ Wake(w) \/ Leave(w)

Handler == HandleMessage \/ Duplicate \/ Mark \/ MarkBlind \/ Store \/ SubmitFails

Start == PublisherConnects \/ SubscriberStarts \/ Reconnect \/ Subscribe

Next ==
  \/ \E w \in Worker : SimulatorStep(w)
  \/ CloseStop \/ RunAgain
  \/ Interfere \/ BrokerStops \/ BrokerStarts \/ SimulatorReconnects \/ SubscriberLost
  \/ Boot \/ Start \/ SubscribeFails \/ Handler \/ KeyExpires
  \/ StopSubscriber \/ Exit \/ Crash \/ Tick

\* Goroutines run, clocks advance, and the MQTT clients retry until they are
\* connected.  Nothing is owed by the broker, the operator or Redis.
Fairness ==
  /\ \A w \in Worker : WF_vars(SimulatorStep(w))
  /\ WF_vars(Handler) /\ WF_vars(Start) /\ WF_vars(Tick)

Spec == Init /\ [][Next]_vars /\ Fairness

-----------------------------------------------------------------------------
(* Properties. *)

\* Every variable has its type.
TypeOK ==
  /\ now \in Nat /\ broker \in {"up", "down"}
  /\ at \in [Worker -> {"ready", "first", "second", "asleep", "done"}]
  /\ cur \in [Worker -> [dev : Worker, n : 0..MaxReadings, sec : Nat]]
  /\ tok \in [Worker -> {"none", "sent", "taken"}]
  /\ \A w \in Worker : tok[w] # "none" <=> at[w] \in {"first", "second"}
  /\ wake \in [Worker -> Nat]
  /\ stop \in BOOLEAN /\ redis \in BOOLEAN
  /\ proc \in {"down", "publisher", "subscriber", "serving", "stopping"}
  /\ link \in {"off", "connected", "subscribed", "refused"}
  /\ link # "off" => proc = "serving" /\ broker = "up"
  /\ inbox \in Seq(Message) /\ Len(inbox) <= MaxInbox
  /\ \A i \in DOMAIN inbox : IsMessage(inbox[i])
  /\ \/ task = NoTask
     \/ \E r \in task.m[1].of :
          r \in Reading /\ task \in {Handling(MessageOf(r), s) : s \in {"submit", "write"}}
  /\ dedup \subseteq Worker \X Nat
  /\ rows \subseteq Reading /\ again \subseteq evals /\ lost \subseteq Reading

\* A reading the simulator counts as sent is in the table, or on its way there,
\* unless it reached the broker while nobody was subscribed, was under way on a
\* connection that broke, or its own submit failed or was cut short by a stop or
\* a crash: no other reading, of this run or of an earlier one, takes its
\* (device, second) key from it, and no check of handleMessage turns it away.
\* What a stop or a crash cuts short is gone without a word.
NothingLostSilently ==
  \A r \in counted :
    r \in rows \cup lost \cup Readings(inbox) \cup Readings(task.m)

\* The publish that is sent again after a broken connection, and the simulator's
\* own repetitions, do not reach the alert evaluator a second time, as long as
\* the key of the reading neither expired nor was bypassed.
EvaluatedOnce == \A r \in again : Key(r) \in blind

\* Once the broker stays up and the service is neither stopped nor crashes, the
\* subscriber is subscribed for good, whatever was lost before and in whatever
\* order the two were started, unless its Subscribe was refused on the connection
\* it keeps; and the simulator can be stopped.
FeedComesBack ==
  /\ <>[](broker = "up" /\ proc \notin {"down", "stopping"})
       => <>[](link = "subscribed") \/ <>[](link = "refused")
  /\ <>[](broker = "up" /\ stop) => <>(\A w \in Worker : at[w] = "done")

-----------------------------------------------------------------------------
(* The inductive invariant behind the safety properties. *)

\* The readings that are stored, known to be lost, or behind the broker.
Carried == rows \cup lost \cup Readings(inbox) \cup Readings(task.m)

\* What the broker has taken is carried from then on.
TakenIsCarried == \A w \in Worker : tok[w] = "taken" => cur[w] \in Carried

Stamped(w) == cur[w].n > 0

Issued == Carried \cup counted \cup {cur[w] : w \in {v \in Worker : Stamped(v)}}

\* A worker is stamped at most once a second.
Paced ==
  \A w \in Worker :
    /\ cur[w].dev = w /\ cur[w].sec <= now
    /\ tok[w] # "none" => Stamped(w)
    /\ at[w] \in {"ready", "done"} /\ Stamped(w) => cur[w].sec < now
    /\ at[w] = "asleep" => cur[w].sec < wake[w]

\* So a key stands for one reading, and the next reading of a worker has another.
KeysAreDistinct ==
  /\ \A r \in Issued : r \in Reading /\ Stamped(r.dev) /\ r.sec <= cur[r.dev].sec
  /\ \A x, y \in Issued : Key(x) = Key(y) => x = y
  /\ \A k \in dedup : Stamped(k[1]) /\ k[2] <= cur[k[1]].sec

\* A reading whose key is taken is stored, lost, or just being stored.
KeysAreSettled ==
  \A r \in Issued : Key(r) \in dedup =>
    r \in rows \cup lost \/ (task.pc = "write" /\ r \in Readings(task.m))

\* An evaluated reading holds its key, and one that is to be stored is new.
EvaluationsAreGuarded ==
  /\ \A r \in evals : Key(r) \in dedup \cup blind
  /\ task.pc = "write" =>
       /\ Key(Current) \in dedup \cup blind
       /\ Current \in evals => Key(Current) \in blind

Safe ==
  /\ TypeOK /\ Paced /\ TakenIsCarried /\ KeysAreDistinct /\ KeysAreSettled
  /\ EvaluationsAreGuarded /\ NothingLostSilently /\ EvaluatedOnce
=============================================================================
