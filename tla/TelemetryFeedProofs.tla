------------------------ MODULE TelemetryFeedProofs ------------------------
(***************************************************************************)
(* Proofs about TelemetryFeed: the types, NothingLostSilently and          *)
(* EvaluatedOnce, for any number of workers, readings and faults.          *)
(***************************************************************************)
EXTENDS TelemetryFeed, TLAPS

-----------------------------------------------------------------------------
(* Messages. *)

LEMMA TripleType ==
  ASSUME NEW S, NEW a \in S, NEW b \in S, NEW c \in S
  PROVE  <<a, b, c>> \in Seq(S)
OBVIOUS

LEMMA MessageType ==
  ASSUME NEW r \in Reading
  PROVE  MessageOf(r) \in Message /\ MessageOf(r).of = {r} /\ Accepted(MessageOf(r))
<1>1. r.dev \in Text /\ r.dev # "" /\ "devices" \in Text /\ "telemetry" \in Text
  BY FeedAssumption, TextAssumption DEF Reading
<1>2. <<"devices", r.dev, "telemetry">> \in Seq(Text) BY <1>1, TripleType
<1>3. KnownFields \in SUBSET Text /\ "temperature" \in Text BY TextAssumption
<1>4. MessageOf(r) \in Message BY <1>2, <1>3 DEF MessageOf, Message
<1>5. DeviceInTopic(<<"devices", r.dev, "telemetry">>) BY <1>1, <1>2 DEF DeviceInTopic
<1> QED BY <1>4, <1>5 DEF MessageOf, Accepted, PayloadParses

\* A message in the inbox is a reading's, or is turned away.
LEMMA IsMessageType ==
  ASSUME NEW m, IsMessage(m)
  PROVE  /\ m \in Message
         /\ \/ m.of = {} /\ ~Accepted(m)
            \/ \E r \in Reading : m = MessageOf(r) /\ m.of = {r} /\ Accepted(m)
BY MessageType, ForeignAssumption DEF IsMessage

LEMMA NoReadings == Readings(<<>>) = {}
BY DEF Readings

LEMMA AppendReadings ==
  ASSUME NEW s \in Seq(Message), NEW m \in Message
  PROVE  Readings(Append(s, m)) = Readings(s) \cup m.of
<1>1. DOMAIN Append(s, m) = DOMAIN s \cup {Len(s) + 1} OBVIOUS
<1>2. \A i \in DOMAIN s : Append(s, m)[i] = s[i] OBVIOUS
<1>3. Append(s, m)[Len(s) + 1] = m OBVIOUS
<1>4. {Append(s, m)[i].of : i \in DOMAIN Append(s, m)} = {s[i].of : i \in DOMAIN s} \cup {m.of}
  BY <1>1, <1>2, <1>3
<1> QED BY <1>4 DEF Readings

LEMMA InReadings ==
  ASSUME NEW s, NEW r
  PROVE  r \in Readings(s) <=> \E i \in DOMAIN s : r \in s[i].of
BY DEF Readings

LEMMA HeadReadings ==
  ASSUME NEW s \in Seq(Message), s # <<>>
  PROVE  /\ Head(s) \in Message /\ Tail(s) \in Seq(Message) /\ Len(Tail(s)) = Len(s) - 1
         /\ Head(s) = s[1] /\ 1 \in DOMAIN s
         /\ Readings(s) = Head(s).of \cup Readings(Tail(s))
<1>1. /\ Head(s) \in Message /\ Tail(s) \in Seq(Message) /\ Len(Tail(s)) = Len(s) - 1
      /\ Head(s) = s[1] /\ 1 \in DOMAIN s
  OBVIOUS
<1>2. ASSUME NEW r, r \in Readings(s) PROVE r \in Head(s).of \cup Readings(Tail(s))
  <2>1. PICK i \in DOMAIN s : r \in s[i].of BY <1>2, InReadings
  <2>2. CASE i = 1 BY <1>1, <2>1, <2>2
  <2>3. CASE i # 1
    <3>1. i - 1 \in DOMAIN Tail(s) /\ Tail(s)[i - 1] = s[i] BY <2>3
    <3> QED BY <2>1, <3>1, InReadings
  <2> QED BY <2>2, <2>3
<1>3. ASSUME NEW r, r \in Head(s).of \cup Readings(Tail(s)) PROVE r \in Readings(s)
  <2>1. CASE r \in Head(s).of BY <1>1, <2>1, InReadings
  <2>2. CASE r \in Readings(Tail(s))
    <3>1. PICK i \in DOMAIN Tail(s) : r \in Tail(s)[i].of BY <2>2, InReadings
    <3>2. i + 1 \in DOMAIN s /\ Tail(s)[i] = s[i + 1] OBVIOUS
    <3> QED BY <3>1, <3>2, InReadings
  <2> QED BY <1>3, <2>1, <2>2
<1> QED BY <1>1, <1>2, <1>3

LEMMA SplitReadings ==
  ASSUME NEW s \in Seq(Message), NEW n \in 0..Len(s)
  PROVE  /\ SubSeq(s, 1, n) \in Seq(Message) /\ Len(SubSeq(s, 1, n)) = n
         /\ \A i \in 1..n : SubSeq(s, 1, n)[i] = s[i]
         /\ Readings(s) = Readings(SubSeq(s, 1, n)) \cup Readings(SubSeq(s, n + 1, Len(s)))
<1> DEFINE a == SubSeq(s, 1, n)
           b == SubSeq(s, n + 1, Len(s))
<1>1. a \in Seq(Message) /\ Len(a) = n /\ DOMAIN a = 1..n /\ \A i \in 1..n : a[i] = s[i] OBVIOUS
<1>2. b \in Seq(Message) /\ Len(b) = Len(s) - n /\ DOMAIN b = 1..(Len(s) - n)
  OBVIOUS
<1>3. \A i \in 1..(Len(s) - n) : b[i] = s[n + i] OBVIOUS
<1> HIDE DEF a, b
<1>4. ASSUME NEW r, r \in Readings(s) PROVE r \in Readings(a) \cup Readings(b)
  <2>1. PICK i \in DOMAIN s : r \in s[i].of BY <1>4, InReadings
  <2>2. CASE i <= n BY <1>1, <2>1, <2>2, InReadings
  <2>3. CASE i > n
    <3>1. i - n \in DOMAIN b /\ b[i - n] = s[i] BY <1>2, <1>3, <2>3
    <3> QED BY <2>1, <3>1, InReadings
  <2> QED BY <2>2, <2>3
<1>5. ASSUME NEW r, r \in Readings(a) PROVE r \in Readings(s)
  <2>1. PICK i \in DOMAIN a : r \in a[i].of BY <1>5, InReadings
  <2>2. i \in DOMAIN s /\ a[i] = s[i] BY <1>1
  <2> QED BY <2>1, <2>2, InReadings
<1>6. ASSUME NEW r, r \in Readings(b) PROVE r \in Readings(s)
  <2>1. PICK i \in DOMAIN b : r \in b[i].of BY <1>6, InReadings
  <2>2. n + i \in DOMAIN s /\ b[i] = s[n + i] BY <1>2, <1>3
  <2> QED BY <2>1, <2>2, InReadings
<1> QED BY <1>1, <1>4, <1>5, <1>6 DEF a, b

\* The message in handleMessage is about one reading.
LEMMA TaskReading ==
  ASSUME TypeOK, task # NoTask
  PROVE  /\ Current \in Reading /\ Readings(task.m) = {Current}
         /\ task.pc \in {"submit", "write"}
         /\ task \in {Handling(MessageOf(Current), s) : s \in {"submit", "write"}}
<1>1. PICK r \in Reading :
        task \in {Handling(MessageOf(r), s) : s \in {"submit", "write"}}
  BY DEF TypeOK
<1>2. task.m = <<MessageOf(r)>> /\ task.pc \in {"submit", "write"} BY <1>1 DEF Handling
<1>3. task.m[1].of = {r} BY <1>2, MessageType
<1>4. Current = r BY <1>3 DEF Current
<1>5. Readings(task.m) = {r}
  <2>1. DOMAIN task.m = {1} BY <1>2
  <2> QED BY <1>3, <2>1 DEF Readings
<1> QED BY <1>1, <1>2, <1>4, <1>5

LEMMA NoTaskReading == Readings(NoTask.m) = {} /\ NoTask.pc = "idle"
BY NoReadings DEF NoTask

-----------------------------------------------------------------------------
(* Types. *)

\* The messages on their way stay messages when some of them get lost.
LEMMA LoseInboxTypes ==
  ASSUME TypeOK, LoseInbox
  PROVE  /\ inbox' \in Seq(Message) /\ Len(inbox') <= MaxInbox
         /\ \A i \in DOMAIN inbox' : IsMessage(inbox'[i])
         /\ lost' \subseteq Reading /\ lost \subseteq lost'
         /\ Readings(inbox) \cup lost = Readings(inbox') \cup lost'
<1>1. PICK n \in 0..Len(inbox) :
        /\ inbox' = SubSeq(inbox, 1, n)
        /\ lost' = lost \cup Readings(SubSeq(inbox, n + 1, Len(inbox)))
  BY DEF LoseInbox
<1>2. inbox \in Seq(Message) BY DEF TypeOK
<1>3. \A r \in Readings(inbox) : r \in Reading
  BY <1>2, InReadings, IsMessageType DEF TypeOK, Message
<1>4. MaxInbox \in Nat BY FeedAssumption
<1>5. Len(inbox') <= MaxInbox BY <1>1, <1>2, <1>4, SplitReadings DEF TypeOK
<1>6. \A i \in DOMAIN inbox' : IsMessage(inbox'[i])
  BY <1>1, <1>2, SplitReadings DEF TypeOK
<1> QED BY <1>1, <1>2, <1>3, <1>5, <1>6, SplitReadings DEF TypeOK

LEMMA InboxReadings ==
  ASSUME TypeOK PROVE Readings(inbox) \subseteq Reading /\ Readings(task.m) \subseteq Reading
<1>1. inbox \in Seq(Message) BY DEF TypeOK
<1>2. Readings(inbox) \subseteq Reading
  BY <1>1, InReadings, IsMessageType DEF TypeOK, Message
<1>3. Readings(task.m) \subseteq Reading BY TaskReading, NoTaskReading
<1> QED BY <1>2, <1>3

\* A message that is forwarded.
LEMMA ForwardTypes ==
  ASSUME TypeOK, NEW m, IsMessage(m), Forward(m), Len(inbox) < MaxInbox
  PROVE  /\ inbox' \in Seq(Message) /\ Len(inbox') <= MaxInbox
         /\ \A i \in DOMAIN inbox' : IsMessage(inbox'[i])
         /\ lost' \subseteq Reading /\ lost \subseteq lost'
         /\ Readings(inbox') \cup lost' = Readings(inbox) \cup lost \cup m.of
<1>1. inbox \in Seq(Message) /\ m \in Message BY IsMessageType DEF TypeOK
<1>2. m.of \subseteq Reading BY <1>1 DEF Message
<1>3. MaxInbox \in Nat BY FeedAssumption
<1>4. CASE link = "subscribed"
  <2>1. inbox' = Append(inbox, m) /\ lost' = lost BY <1>4 DEF Forward
  <2>2. Readings(inbox') = Readings(inbox) \cup m.of BY <1>1, <2>1, AppendReadings
  <2>3. \A i \in DOMAIN inbox' : inbox'[i] = m \/ (i \in DOMAIN inbox /\ inbox'[i] = inbox[i])
    BY <1>1, <2>1
  <2>4. \A i \in DOMAIN inbox' : IsMessage(inbox'[i]) BY <2>3 DEF TypeOK
  <2>5. inbox' \in Seq(Message) /\ Len(inbox') <= MaxInbox BY <1>1, <1>3, <2>1
  <2> QED BY <2>1, <2>2, <2>4, <2>5 DEF TypeOK
<1>5. CASE link # "subscribed"
  <2>1. inbox' = inbox /\ lost' = lost \cup m.of BY <1>5 DEF Forward
  <2> QED BY <1>2, <2>1 DEF TypeOK
<1> QED BY <1>4, <1>5

LEMMA CurMessage ==
  ASSUME TypeOK, NEW w \in Worker, Stamped(w)
  PROVE  cur[w] \in Reading /\ IsMessage(MessageOf(cur[w])) /\ MessageOf(cur[w]).of = {cur[w]}
<1>1. cur[w] \in Reading BY DEF TypeOK, Reading, Stamped
<1> QED BY <1>1, MessageType DEF IsMessage

LEMMA Bounds ==
  /\ MaxReadings \in Nat /\ MaxInbox \in Nat
  /\ MinInterval \in Nat /\ MinInterval # 0 /\ MaxInterval \in Nat
BY FeedAssumption

\* TypeOK in three parts.
SimulatorTypes ==
  /\ now \in Nat /\ broker \in {"up", "down"}
  /\ at \in [Worker -> {"ready", "first", "second", "asleep", "done"}]
  /\ cur \in [Worker -> [dev : Worker, n : 0..MaxReadings, sec : Nat]]
  /\ tok \in [Worker -> {"none", "sent", "taken"}]
  /\ \A w \in Worker : tok[w] # "none" <=> at[w] \in {"first", "second"}
  /\ wake \in [Worker -> Nat]
  /\ stop \in BOOLEAN

RouteTypes ==
  /\ redis \in BOOLEAN
  /\ proc \in {"down", "publisher", "subscriber", "serving", "stopping"}
  /\ link \in {"off", "connected", "subscribed", "refused"}
  /\ link # "off" => proc = "serving" /\ broker = "up"
  /\ inbox \in Seq(Message) /\ Len(inbox) <= MaxInbox
  /\ \A i \in DOMAIN inbox : IsMessage(inbox[i])

StoreTypes ==
  /\ \/ task = NoTask
     \/ \E r \in task.m[1].of :
          r \in Reading /\ task \in {Handling(MessageOf(r), s) : s \in {"submit", "write"}}
  /\ dedup \subseteq Worker \X Nat
  /\ rows \subseteq Reading /\ again \subseteq evals /\ lost \subseteq Reading

LEMMA TypeParts == TypeOK <=> SimulatorTypes /\ RouteTypes /\ StoreTypes
BY DEF TypeOK, SimulatorTypes, RouteTypes, StoreTypes

LEMMA SimulatorKeepsTypes ==
  ASSUME TypeOK, [Next]_vars PROVE SimulatorTypes'
<1> USE Bounds
<1>1. ASSUME NEW w \in Worker, Publish(w) PROVE SimulatorTypes'
  BY <1>1 DEF TypeOK, SimulatorTypes, Publish
<1>2. ASSUME NEW w \in Worker, Published(w) PROVE SimulatorTypes'
  <2>1. CASE at' = [at EXCEPT ![w] = "second"] /\ tok' = [tok EXCEPT ![w] = "sent"]
             /\ UNCHANGED wake
    BY <1>2, <2>1 DEF TypeOK, SimulatorTypes, Published
  <2>2. CASE tok' = [tok EXCEPT ![w] = "none"] /\ Sleep(w)
    <3>1. PICK n \in ShortestInterval..MaxInterval : wake' = [wake EXCEPT ![w] = now + n]
      BY <2>2 DEF Sleep
    <3>2. wake' \in [Worker -> Nat] BY <3>1 DEF TypeOK, ShortestInterval
    <3> QED BY <1>2, <2>2, <3>2 DEF TypeOK, SimulatorTypes, Published, Sleep
  <2> QED BY <1>2, <2>1, <2>2 DEF Published
<1>3. ASSUME NEW w \in Worker, Take(w) \/ Wake(w) \/ Leave(w) PROVE SimulatorTypes'
  BY <1>3 DEF TypeOK, SimulatorTypes, Take, Wake, Leave
<1>4. CASE RunAgain
  BY <1>4 DEF TypeOK, SimulatorTypes, RunAgain
<1>5. CASE BrokerStops \/ SimulatorReconnects
  <2>1. UNCHANGED <<now, at, cur, wake, stop>> /\ broker' \in {"up", "down"}
    BY <1>5 DEF BrokerStops, SimulatorReconnects, TypeOK
  <2>2. tok' \in [Worker -> {"none", "sent", "taken"}]
        /\ \A w \in Worker : tok'[w] = "none" <=> tok[w] = "none"
    BY <1>5 DEF BrokerStops, SimulatorReconnects, Resend, TypeOK
  <2> QED BY <2>1, <2>2 DEF TypeOK, SimulatorTypes
<1>6. CASE CloseStop \/ Interfere \/ BrokerStarts \/ SubscriberLost \/ Tick
  <2>1. /\ UNCHANGED <<at, cur, tok, wake>> /\ stop' \in {stop, TRUE}
        /\ broker' \in {broker, "up"} /\ now' \in {now, now + 1}
    BY <1>6 DEF CloseStop, Interfere, BrokerStarts, SubscriberLost, Tick, sim
  <2>2. stop' \in BOOLEAN BY <2>1 DEF TypeOK
  <2>3. broker' \in {"up", "down"} /\ now' \in Nat BY <2>1 DEF TypeOK
  <2> QED BY <2>1, <2>2, <2>3 DEF TypeOK, SimulatorTypes
<1>7. CASE Boot \/ Start \/ SubscribeFails \/ Handler \/ KeyExpires \/ StopSubscriber
           \/ Exit \/ Crash
           \/ UNCHANGED vars
  <2>1. UNCHANGED <<now, broker, sim>>
    BY <1>7 DEF Boot, Start, PublisherConnects, SubscriberStarts, Reconnect, Subscribe,
         SubscribeFails,
         Handler, HandleMessage, Duplicate, Mark, MarkBlind, Store, SubmitFails, KeyExpires,
         StopSubscriber, Exit, Crash, Ends, vars
  <2> QED BY <2>1 DEF TypeOK, SimulatorTypes, sim
<1> QED BY <1>1, <1>2, <1>3, <1>4, <1>5, <1>6, <1>7 DEF Next, SimulatorStep

\* A step that leaves the inbox alone.
LEMMA InboxKeepsTypes ==
  ASSUME TypeOK, UNCHANGED inbox, redis' \in BOOLEAN,
         proc' \in {"down", "publisher", "subscriber", "serving", "stopping"},
         link' \in {"off", "connected", "subscribed", "refused"},
         link' # "off" => proc' = "serving" /\ broker' = "up"
  PROVE  RouteTypes'
<1>1. \A i \in DOMAIN inbox' : IsMessage(inbox'[i]) BY DEF TypeOK
<1> QED BY <1>1 DEF TypeOK, RouteTypes, IsMessage, MessageOf

LEMMA RouteKeepsTypes ==
  ASSUME TypeOK, Paced, [Next]_vars PROVE RouteTypes'
<1>1. ASSUME NEW w \in Worker, Take(w) PROVE RouteTypes'
  <2>1. Stamped(w) /\ Forward(MessageOf(cur[w])) /\ Len(inbox) < MaxInbox
        /\ UNCHANGED <<redis, proc, link, broker>>
    BY <1>1 DEF Take, Paced, main
  <2> QED BY <2>1, ForwardTypes, CurMessage DEF TypeOK, RouteTypes, IsMessage, MessageOf
<1>2. CASE Interfere
  <2>1. PICK m \in Foreign : Forward(m) BY <1>2 DEF Interfere
  <2>2. Len(inbox) < MaxInbox /\ UNCHANGED <<redis, proc, link, broker>>
    BY <1>2, Bounds DEF Interfere, TypeOK, main
  <2>3. IsMessage(m) BY DEF IsMessage
  <2> QED BY <2>1, <2>2, <2>3, ForwardTypes DEF TypeOK, RouteTypes, IsMessage, MessageOf
<1>3. CASE BrokerStops \/ SubscriberLost
  <2>1. LoseInbox /\ UNCHANGED <<redis, proc>> BY <1>3 DEF BrokerStops, SubscriberLost, main
  <2>2. link' = "off" BY <2>1 DEF LoseInbox
  <2> QED BY <2>1, <2>2, LoseInboxTypes DEF TypeOK, RouteTypes, IsMessage, MessageOf
<1>4. CASE HandleMessage
  <2>1. inbox # <<>> /\ inbox' = Tail(inbox) /\ UNCHANGED <<redis, proc, link, broker>>
    BY <1>4 DEF HandleMessage, main
  <2>2. inbox' \in Seq(Message) /\ Len(inbox') <= MaxInbox
    BY <2>1, HeadReadings, Bounds DEF TypeOK
  <2>3. \A i \in DOMAIN inbox' : i + 1 \in DOMAIN inbox /\ inbox'[i] = inbox[i + 1]
    BY <2>1 DEF TypeOK
  <2>4. \A i \in DOMAIN inbox' : IsMessage(inbox'[i]) BY <2>3 DEF TypeOK
  <2> QED BY <2>1, <2>2, <2>4 DEF TypeOK, RouteTypes, IsMessage, MessageOf
<1>5. CASE StopSubscriber \/ Exit \/ Crash
  <2>1. link' = "off" /\ inbox' = <<>> /\ proc' \in {"down", "stopping"}
        /\ redis' \in {redis, FALSE}
    BY <1>5 DEF StopSubscriber, Exit, Crash, Ends
  <2>2. inbox' \in Seq(Message) /\ Len(inbox') <= MaxInbox /\ DOMAIN inbox' = {}
    BY <2>1, Bounds
  <2>3. \A i \in DOMAIN inbox' : IsMessage(inbox[i])' BY <2>2
  <2>4. redis' \in BOOLEAN BY <2>1 DEF TypeOK
  <2> QED BY <2>1, <2>2, <2>3, <2>4 DEF RouteTypes
<1>6. CASE Boot \/ PublisherConnects \/ SubscriberStarts \/ Reconnect \/ Subscribe
           \/ SubscribeFails
  <2>1. UNCHANGED <<inbox, broker>>
    BY <1>6 DEF Boot, PublisherConnects, SubscriberStarts, Reconnect, Subscribe,
         SubscribeFails, route
  <2>2. /\ redis' \in BOOLEAN
        /\ proc' \in {"down", "publisher", "subscriber", "serving", "stopping"}
        /\ link' \in {"off", "connected", "subscribed", "refused"}
        /\ link' # "off" => proc' = "serving" /\ broker' = "up"
    BY <1>6 DEF TypeOK, Boot, PublisherConnects, SubscriberStarts, Reconnect, Subscribe,
         SubscribeFails,
         route, main
  <2> QED BY <2>1, <2>2, InboxKeepsTypes
<1>7. CASE BrokerStarts
  <2>1. UNCHANGED <<inbox, redis, proc, link>> /\ broker = "down"
    BY <1>7 DEF BrokerStarts, route, main
  <2> QED BY <2>1, InboxKeepsTypes DEF TypeOK
<1>8. CASE \/ \E w \in Worker : Publish(w) \/ Published(w) \/ Wake(w) \/ Leave(w)
           \/ CloseStop \/ RunAgain \/ SimulatorReconnects \/ Tick \/ KeyExpires
           \/ Duplicate \/ Mark \/ MarkBlind \/ Store \/ SubmitFails \/ UNCHANGED vars
  <2>1. UNCHANGED <<inbox, redis, proc, link, broker>>
    BY <1>8 DEF Publish, Published, Wake, Leave, CloseStop, RunAgain, SimulatorReconnects,
         Tick, KeyExpires, Duplicate, Mark, MarkBlind, Store, SubmitFails, route, main, vars
  <2> QED BY <2>1, InboxKeepsTypes DEF TypeOK
<1> QED BY <1>1, <1>2, <1>3, <1>4, <1>5, <1>6, <1>7, <1>8
        DEF Next, SimulatorStep, Start, Handler

\* What a step does to the task, the keys and the rows.
LEMMA StoreKeepsTypes ==
  ASSUME TypeOK, Paced, [Next]_vars PROVE StoreTypes'
<1> DEFINE TaskType(t) == \/ t = NoTask
                          \/ \E r \in t.m[1].of :
                               /\ r \in Reading
                               /\ t \in {Handling(MessageOf(r), s) : s \in {"submit", "write"}}
<1>0. ASSUME TaskType(task'), dedup' \subseteq Worker \X Nat, rows' \subseteq Reading,
             again' \subseteq evals', lost' \subseteq Reading
      PROVE  StoreTypes'
  BY <1>0 DEF StoreTypes, Handling, MessageOf
<1>1. /\ TaskType(task) /\ dedup \subseteq Worker \X Nat /\ rows \subseteq Reading
      /\ again \subseteq evals /\ lost \subseteq Reading
  BY DEF TypeOK
<1>2. ASSUME NEW r \in Reading, NEW s \in {"submit", "write"}
      PROVE  TaskType(Handling(MessageOf(r), s))
  <2>1. Handling(MessageOf(r), s).m[1].of = {r} BY MessageType DEF Handling
  <2> QED BY <2>1
<1>3. TaskType(NoTask) OBVIOUS
<1>4. ASSUME NEW r \in Reading PROVE Key(r) \in Worker \X Nat BY DEF Key, Reading
<1>5. ASSUME task # NoTask
      PROVE  /\ Current \in Reading /\ TaskType([task EXCEPT !.pc = "write"])
             /\ Inserted(Current) \subseteq Reading
  <2>1. Current \in Reading BY <1>5, TaskReading
  <2>2. [task EXCEPT !.pc = "write"] = Handling(MessageOf(Current), "write")
    BY <1>5, TaskReading DEF Handling
  <2>3. Inserted(Current) \subseteq Reading BY <1>1, <2>1 DEF Inserted
  <2> HIDE DEF TaskType
  <2>4. TaskType(Handling(MessageOf(Current), "write")) BY <1>2, <2>1
  <2>5. TaskType([task EXCEPT !.pc = "write"]) BY <2>2, <2>4
  <2> QED BY <2>1, <2>3, <2>5
<1>6. ASSUME task.pc \in {"submit", "write"} PROVE task # NoTask
  BY <1>6, NoTaskReading
<1> HIDE DEF TaskType
<1>7. ASSUME NEW w \in Worker, Take(w) PROVE StoreTypes'
  <2>1. Stamped(w) /\ Forward(MessageOf(cur[w])) /\ Len(inbox) < MaxInbox
        /\ UNCHANGED <<task, dedup, rows, evals, again>>
    BY <1>7 DEF Take, Paced, store
  <2>2. lost' \subseteq Reading BY <2>1, ForwardTypes, CurMessage
  <2> QED BY <1>0, <1>1, <2>1, <2>2
<1>8. CASE Interfere
  <2>1. PICK m \in Foreign : Forward(m) BY <1>8 DEF Interfere
  <2>2. Len(inbox) < MaxInbox /\ UNCHANGED <<task, dedup, rows, evals, again>>
    BY <1>8, Bounds DEF Interfere, TypeOK, store
  <2>3. IsMessage(m) BY DEF IsMessage
  <2>4. lost' \subseteq Reading BY <2>1, <2>2, <2>3, ForwardTypes
  <2> QED BY <1>0, <1>1, <2>2, <2>4
<1>9. CASE BrokerStops \/ SubscriberLost
  <2>1. LoseInbox /\ UNCHANGED <<task, dedup, rows, evals, again>>
    BY <1>9 DEF BrokerStops, SubscriberLost, store
  <2> QED BY <1>0, <1>1, <2>1, LoseInboxTypes
<1>10. CASE HandleMessage
  <2>1. inbox # <<>> /\ UNCHANGED <<dedup, rows, evals, again, lost>>
    BY <1>10 DEF HandleMessage, store
  <2>2. Head(inbox) = inbox[1] /\ 1 \in DOMAIN inbox BY <2>1, HeadReadings DEF TypeOK
  <2>3. IsMessage(Head(inbox)) BY <2>2 DEF TypeOK
  <2>4. Accepted(Head(inbox)) => \E r \in Reading : Head(inbox) = MessageOf(r)
    BY <2>3, IsMessageType
  <2>5. TaskType(task') BY <1>2, <1>3, <1>10, <2>4 DEF HandleMessage
  <2> QED BY <1>0, <1>1, <2>1, <2>5
<1>11. CASE StopSubscriber \/ Exit \/ Crash
  <2>1. task' \in {task, NoTask} /\ UNCHANGED <<dedup, rows, evals, again>>
        /\ lost' \subseteq lost \cup Readings(inbox) \cup Readings(task.m)
    BY <1>11 DEF StopSubscriber, Exit, Crash, Ends, store
  <2>2. lost' \subseteq Reading BY <1>1, <2>1, InboxReadings
  <2> QED BY <1>0, <1>1, <1>3, <2>1, <2>2
<1>12. CASE Duplicate \/ KeyExpires
  <2>1. task' \in {task, NoTask} /\ UNCHANGED <<rows, evals, again, lost>>
        /\ dedup' \subseteq dedup
    BY <1>12 DEF Duplicate, KeyExpires, store
  <2> QED BY <1>0, <1>1, <1>3, <2>1
<1>13. CASE Mark \/ MarkBlind
  <2>1. task.pc = "submit" /\ task' = [task EXCEPT !.pc = "write"]
        /\ UNCHANGED <<rows, evals, again, lost>> /\ dedup' \subseteq dedup \cup {Key(Current)}
    BY <1>13 DEF Mark, MarkBlind
  <2>2. Current \in Reading /\ TaskType(task') BY <1>5, <1>6, <2>1
  <2>3. dedup' \subseteq Worker \X Nat BY <1>1, <1>4, <2>1, <2>2
  <2> QED BY <1>0, <1>1, <2>1, <2>2, <2>3
<1>14. CASE Store
  <2>1. task.pc = "write" /\ task' = NoTask /\ rows' = Inserted(Current)
        /\ UNCHANGED <<dedup, lost>>
    BY <1>14 DEF Store
  <2>2. again' \subseteq evals' BY <1>1, <1>14 DEF Store
  <2> QED BY <1>0, <1>1, <1>3, <1>5, <1>6, <2>1, <2>2
<1>15. CASE SubmitFails
  <2>1. task.pc = "write" /\ task' = NoTask /\ rows' \in {rows, Inserted(Current)}
        /\ lost' = lost \cup {Current} /\ UNCHANGED <<dedup, evals, again>>
    BY <1>15 DEF SubmitFails
  <2> QED BY <1>0, <1>1, <1>3, <1>5, <1>6, <2>1
<1>16. CASE \/ \E w \in Worker : Publish(w) \/ Published(w) \/ Wake(w) \/ Leave(w)
            \/ CloseStop \/ RunAgain \/ SimulatorReconnects \/ Tick \/ BrokerStarts
            \/ Boot \/ Start \/ SubscribeFails \/ UNCHANGED vars
  <2>1. UNCHANGED <<task, dedup, rows, evals, again, lost>>
    BY <1>16 DEF Publish, Published, Wake, Leave, CloseStop, RunAgain, SimulatorReconnects,
         Tick, BrokerStarts, Boot, Start, PublisherConnects, SubscriberStarts, Reconnect,
         Subscribe, SubscribeFails, store, vars
  <2> QED BY <1>0, <1>1, <2>1
<1> QED BY <1>7, <1>8, <1>9, <1>10, <1>11, <1>12, <1>13, <1>14, <1>15, <1>16
        DEF Next, SimulatorStep, Handler

LEMMA NextTypes == ASSUME TypeOK, Paced, [Next]_vars PROVE TypeOK'
<1>1. SimulatorTypes' /\ RouteTypes' /\ StoreTypes'
  BY SimulatorKeepsTypes, RouteKeepsTypes, StoreKeepsTypes
<1> QED BY <1>1 DEF TypeOK, SimulatorTypes, RouteTypes, StoreTypes

-----------------------------------------------------------------------------
(* The pace of the workers. *)

LEMMA PacedFrame ==
  ASSUME Paced, UNCHANGED <<now, at, cur, tok, wake>>
  PROVE  Paced'
BY DEF Paced, Stamped

LEMMA NextPaced == ASSUME TypeOK, Paced, [Next]_vars PROVE Paced'
<1>1. ASSUME NEW w \in Worker, Publish(w) PROVE Paced'
  <2>1. ASSUME NEW v \in Worker, v # w
        PROVE  UNCHANGED <<at[v], cur[v], tok[v], wake[v], now>>
    BY <1>1, <2>1 DEF Publish, TypeOK
  <2>2. cur'[w] = [dev |-> w, n |-> cur[w].n + 1, sec |-> now] /\ at'[w] = "first" /\ now' = now
    BY <1>1 DEF Publish, TypeOK
  <2>3. cur'[w].n > 0 BY <2>2 DEF TypeOK
  <2>4. now \in Nat /\ cur'[w].dev = w /\ cur'[w].sec <= now' BY <2>2 DEF TypeOK
  <2> QED BY <2>1, <2>2, <2>3, <2>4 DEF Paced, Stamped
<1>2. ASSUME NEW w \in Worker, Published(w) PROVE Paced'
  <2>1. ASSUME NEW v \in Worker, v # w
        PROVE  UNCHANGED <<at[v], cur[v], tok[v], wake[v], now>>
    BY <1>2, <2>1 DEF Published, Sleep, TypeOK
  <2>2. UNCHANGED <<cur, now>> /\ tok[w] = "taken" BY <1>2 DEF Published
  <2>3. \/ at'[w] = "second"
        \/ at'[w] = "asleep" /\ tok'[w] = "none" /\ cur[w].sec < wake'[w]
    <3>1. CASE at' = [at EXCEPT ![w] = "second"] BY <3>1 DEF TypeOK
    <3>2. CASE tok' = [tok EXCEPT ![w] = "none"] /\ Sleep(w)
      <4>1. PICK n \in ShortestInterval..MaxInterval : wake' = [wake EXCEPT ![w] = now + n]
        BY <3>2 DEF Sleep
      <4>2. n \in Nat /\ n > 0 BY Bounds DEF ShortestInterval
      <4>3. cur[w].sec \in Nat /\ now \in Nat /\ cur[w].sec <= now BY DEF Paced, TypeOK
      <4>4. cur[w].sec < wake'[w] BY <4>1, <4>2, <4>3 DEF TypeOK
      <4> QED BY <3>2, <4>4 DEF Sleep, TypeOK
    <3> QED BY <1>2, <3>1, <3>2 DEF Published
  <2> QED BY <2>1, <2>2, <2>3 DEF Paced, Stamped
<1>3. ASSUME NEW w \in Worker, Take(w) \/ Leave(w) PROVE Paced'
  BY <1>3 DEF Take, Leave, Paced, Stamped, TypeOK
<1>4. ASSUME NEW w \in Worker, Wake(w) PROVE Paced'
  <2>1. cur[w].sec < now BY <1>4 DEF Wake, Paced, TypeOK
  <2>2. /\ \A v \in Worker : at'[v] = IF v = w THEN "ready" ELSE at[v]
        /\ UNCHANGED <<now, cur, tok, wake>>
    BY <1>4 DEF Wake, TypeOK
  <2> QED BY <2>1, <2>2 DEF Paced, Stamped
<1>5. CASE RunAgain BY <1>5 DEF RunAgain, Paced, Stamped, TypeOK
<1>6. CASE BrokerStops \/ SimulatorReconnects
  <2>1. UNCHANGED <<now, at, cur, wake>>
        /\ \A w \in Worker : tok'[w] = "none" <=> tok[w] = "none"
    BY <1>6 DEF BrokerStops, SimulatorReconnects, Resend, TypeOK
  <2> QED BY <2>1 DEF Paced, Stamped
<1>7. CASE Tick
  <2>1. UNCHANGED <<at, cur, tok, wake>> /\ now' = now + 1 BY <1>7 DEF Tick, sim
  <2> QED BY <2>1 DEF Paced, Stamped, TypeOK
<1>8. CASE CloseStop \/ Interfere \/ BrokerStarts \/ SubscriberLost \/ Boot \/ Start
           \/ SubscribeFails
           \/ Handler \/ KeyExpires \/ StopSubscriber \/ Exit \/ Crash \/ UNCHANGED vars
  <2>1. UNCHANGED <<now, at, cur, tok, wake>>
    BY <1>8 DEF CloseStop, Interfere, BrokerStarts, SubscriberLost, Boot, Start,
         PublisherConnects, SubscriberStarts, Reconnect, Subscribe, SubscribeFails,
         Handler, HandleMessage,
         Duplicate, Mark, MarkBlind, Store, SubmitFails, KeyExpires, StopSubscriber, Exit,
         Crash, Ends, vars, sim
  <2> QED BY <2>1, PacedFrame
<1> QED BY <1>1, <1>2, <1>3, <1>4, <1>5, <1>6, <1>7, <1>8 DEF Next, SimulatorStep

-----------------------------------------------------------------------------
(* Where readings are. *)

\* Nothing that is carried disappears, and only what a worker has sent is new.
Conserves ==
  /\ Carried \subseteq Carried' /\ rows \subseteq rows' /\ lost \subseteq lost'
  /\ \A r \in Carried' : r \in Carried \/ \E w \in Worker : tok[w] = "sent" /\ r = cur[w]

LEMMA InsertedRows ==
  ASSUME TypeOK, KeysAreDistinct, task # NoTask
  PROVE  rows \subseteq Inserted(Current) /\ Inserted(Current) = rows \cup {Current}
<1>1. Current \in Issued /\ rows \subseteq Issued BY TaskReading DEF Issued, Carried
<1>2. \A x \in rows : Key(x) = Key(Current) => x = Current BY <1>1 DEF KeysAreDistinct
<1> QED BY <1>2 DEF Inserted

LEMMA ConservesFrame ==
  ASSUME UNCHANGED <<rows, lost, inbox, task>> PROVE Conserves
BY DEF Conserves, Carried, Readings

LEMMA NextConserves ==
  ASSUME TypeOK, Paced, KeysAreDistinct, KeysAreSettled, [Next]_vars
  PROVE  Conserves
<1>1. ASSUME NEW w \in Worker, Take(w) PROVE Conserves
  <2>1. Stamped(w) /\ Forward(MessageOf(cur[w])) /\ Len(inbox) < MaxInbox
        /\ UNCHANGED <<task, rows>> /\ tok[w] = "sent"
    BY <1>1 DEF Take, Paced, store
  <2>2. lost \subseteq lost'
        /\ Readings(inbox') \cup lost' = Readings(inbox) \cup lost \cup {cur[w]}
    BY <2>1, ForwardTypes, CurMessage
  <2>3. Carried' = rows' \cup lost' \cup Readings(inbox') \cup Readings(task'.m)
    BY DEF Carried, Readings
  <2> QED BY <2>1, <2>2, <2>3 DEF Conserves, Carried
<1>2. CASE Interfere
  <2>1. PICK m \in Foreign : Forward(m) BY <1>2 DEF Interfere
  <2>2. Len(inbox) < MaxInbox /\ UNCHANGED <<task, rows>>
    BY <1>2, Bounds DEF Interfere, TypeOK, store
  <2>3. IsMessage(m) /\ m.of = {} BY ForeignAssumption DEF IsMessage
  <2>4. lost \subseteq lost' /\ Readings(inbox') \cup lost' = Readings(inbox) \cup lost
    BY <2>1, <2>2, <2>3, ForwardTypes
  <2>5. Carried' = rows' \cup lost' \cup Readings(inbox') \cup Readings(task'.m)
    BY DEF Carried, Readings
  <2> QED BY <2>2, <2>4, <2>5 DEF Conserves, Carried
<1>3. CASE BrokerStops \/ SubscriberLost
  <2>1. LoseInbox /\ UNCHANGED <<task, rows>> BY <1>3 DEF BrokerStops, SubscriberLost, store
  <2>2. lost \subseteq lost' /\ Readings(inbox) \cup lost = Readings(inbox') \cup lost'
    BY <2>1, LoseInboxTypes
  <2>3. Carried' = rows' \cup lost' \cup Readings(inbox') \cup Readings(task'.m)
    BY DEF Carried, Readings
  <2> QED BY <2>1, <2>2, <2>3 DEF Conserves, Carried
<1>4. CASE HandleMessage
  <2>1. task = NoTask /\ inbox # <<>> /\ inbox' = Tail(inbox) /\ UNCHANGED <<rows, lost>>
    BY <1>4 DEF HandleMessage, store
  <2>2. Readings(inbox) = Head(inbox).of \cup Readings(inbox') /\ Head(inbox) = inbox[1]
        /\ 1 \in DOMAIN inbox
    BY <2>1, HeadReadings DEF TypeOK
  <2>3. IsMessage(Head(inbox)) BY <2>2 DEF TypeOK
  <2>4. Readings(task'.m) = Head(inbox).of
    <3>1. CASE Accepted(Head(inbox))
      <4>1. task'.m = <<Head(inbox)>> BY <1>4, <3>1 DEF HandleMessage, Handling
      <4>2. DOMAIN task'.m = {1} /\ task'.m[1] = Head(inbox) BY <4>1
      <4> QED BY <4>2 DEF Readings
    <3>2. CASE ~Accepted(Head(inbox))
      <4>1. task' = NoTask BY <1>4, <3>2 DEF HandleMessage
      <4>2. Head(inbox).of = {} BY <2>3, <3>2, IsMessageType
      <4> QED BY <4>1, <4>2, NoTaskReading
    <3> QED BY <3>1, <3>2
  <2>5. Readings(task.m) = {} BY <2>1, NoTaskReading
  <2>6. Carried' = rows' \cup lost' \cup Readings(inbox') \cup Readings(task'.m)
    BY DEF Carried, Readings
  <2> QED BY <2>1, <2>2, <2>4, <2>5, <2>6 DEF Conserves, Carried
<1>5. CASE StopSubscriber
  <2>1. inbox' = <<>> /\ lost' = lost \cup Readings(inbox) /\ UNCHANGED <<rows, task>>
    BY <1>5 DEF StopSubscriber, store
  <2>2. Carried' = rows' \cup lost' \cup Readings(inbox') \cup Readings(task'.m)
    BY DEF Carried, Readings
  <2> QED BY <2>1, <2>2, NoReadings DEF Conserves, Carried
<1>6. CASE Exit \/ Crash
  <2>1. inbox' = <<>> /\ lost' = lost \cup Readings(inbox) \cup Readings(task.m)
        /\ task' = NoTask /\ UNCHANGED rows
    BY <1>6 DEF Exit, Crash, Ends
  <2>2. Carried' = rows' \cup lost' \cup Readings(inbox') \cup Readings(task'.m)
    BY DEF Carried, Readings
  <2> QED BY <2>1, <2>2, NoReadings, NoTaskReading DEF Conserves, Carried
<1>7. CASE Duplicate
  <2>1. task.pc = "submit" /\ Key(Current) \in dedup /\ task' = NoTask
        /\ UNCHANGED <<rows, lost, inbox>>
    BY <1>7 DEF Duplicate, store, route
  <2>2. Readings(task.m) = {Current} BY <2>1, TaskReading, NoTaskReading
  <2>3. Current \in rows \cup lost BY <2>1, <2>2 DEF KeysAreSettled, Issued, Carried
  <2>4. Carried' = rows' \cup lost' \cup Readings(inbox') \cup Readings(task'.m)
    BY DEF Carried, Readings
  <2> QED BY <2>1, <2>2, <2>3, <2>4, NoTaskReading DEF Conserves, Carried
<1>8. CASE Mark \/ MarkBlind
  <2>1. task.pc = "submit" /\ task' = [task EXCEPT !.pc = "write"]
        /\ UNCHANGED <<rows, lost, inbox>>
    BY <1>8 DEF Mark, MarkBlind, route
  <2>2. task # NoTask BY <2>1, NoTaskReading
  <2>3. task'.m = task.m BY <2>1, <2>2, TaskReading DEF Handling
  <2>4. Carried' = rows' \cup lost' \cup Readings(inbox') \cup Readings(task'.m)
    BY DEF Carried, Readings
  <2> QED BY <2>1, <2>3, <2>4 DEF Conserves, Carried
<1>9. CASE Store \/ SubmitFails
  <2>1. task.pc = "write" /\ task' = NoTask /\ UNCHANGED inbox
    BY <1>9 DEF Store, SubmitFails, route
  <2>2. task # NoTask BY <2>1, NoTaskReading
  <2>3. Readings(task.m) = {Current} BY <2>2, TaskReading
  <2>4. \/ rows' = Inserted(Current) /\ lost' = lost
        \/ rows' \in {rows, Inserted(Current)} /\ lost' = lost \cup {Current}
    BY <1>9 DEF Store, SubmitFails
  <2>5. Carried' = rows' \cup lost' \cup Readings(inbox') \cup Readings(task'.m)
    BY DEF Carried, Readings
  <2> QED BY <2>1, <2>2, <2>3, <2>4, <2>5, InsertedRows, NoTaskReading
          DEF Conserves, Carried
<1>10. CASE \/ \E w \in Worker : Publish(w) \/ Published(w) \/ Wake(w) \/ Leave(w)
            \/ CloseStop \/ RunAgain \/ SimulatorReconnects \/ Tick \/ BrokerStarts
            \/ Boot \/ Start \/ SubscribeFails \/ KeyExpires \/ UNCHANGED vars
  <2>1. UNCHANGED <<rows, lost, inbox, task>>
    BY <1>10 DEF Publish, Published, Wake, Leave, CloseStop, RunAgain, SimulatorReconnects,
         Tick, BrokerStarts, Boot, Start, PublisherConnects, SubscriberStarts, Reconnect,
         Subscribe, SubscribeFails, KeyExpires, store, route, vars
  <2> QED BY <2>1, ConservesFrame
<1> QED BY <1>1, <1>2, <1>3, <1>4, <1>5, <1>6, <1>7, <1>8, <1>9, <1>10
        DEF Next, SimulatorStep, Handler

\* A step that makes no reading: what is issued was issued before.
LEMMA IssuedBefore ==
  ASSUME TypeOK, Paced, Conserves, UNCHANGED cur,
         \A r \in counted' : r \in counted \/ \E w \in Worker : Stamped(w) /\ r = cur[w]
  PROVE  Issued' \subseteq Issued
<1>1. ASSUME NEW w \in Worker, tok[w] = "sent" PROVE Stamped(w) BY <1>1 DEF Paced
<1>2. {cur[w] : w \in {v \in Worker : Stamped(v)}}' = {cur[w] : w \in {v \in Worker : Stamped(v)}}
  BY DEF Stamped
<1>3. \A r \in Carried' : r \in Issued BY <1>1 DEF Conserves, Issued
<1>4. \A r \in counted' : r \in Issued BY DEF Issued
<1> QED BY <1>2, <1>3, <1>4 DEF Issued

\* Every step but Publish.
LEMMA NextIssued ==
  ASSUME TypeOK, Paced, Conserves, [Next]_vars, \A w \in Worker : ~Publish(w)
  PROVE  Issued' \subseteq Issued /\ UNCHANGED cur
<1>1. UNCHANGED cur
  BY DEF Next, SimulatorStep, Take, Published, Wake, Leave, CloseStop, RunAgain,
       Interfere, BrokerStops, BrokerStarts, SimulatorReconnects, SubscriberLost, Boot, Start,
       PublisherConnects, SubscriberStarts, Reconnect, Subscribe, SubscribeFails,
       Handler, HandleMessage,
       Duplicate, Mark, MarkBlind, Store, SubmitFails, KeyExpires, StopSubscriber, Exit,
       Crash, Ends, Tick, vars, sim
<1>2. \A r \in counted' : r \in counted \/ \E w \in Worker : Stamped(w) /\ r = cur[w]
  <2>1. ASSUME NEW w \in Worker, Published(w)
        PROVE  counted' = counted \cup {cur[w]} /\ Stamped(w)
    BY <2>1 DEF Published, Paced
  <2>2. ASSUME \A w \in Worker : ~Published(w) PROVE UNCHANGED counted
    BY <2>2 DEF Next, SimulatorStep, Take, Wake, Leave, CloseStop, RunAgain,
       Interfere, BrokerStops, BrokerStarts, SimulatorReconnects, SubscriberLost, Boot, Start,
       PublisherConnects, SubscriberStarts, Reconnect, Subscribe, SubscribeFails,
       Handler, HandleMessage,
       Duplicate, Mark, MarkBlind, Store, SubmitFails, KeyExpires, StopSubscriber, Exit,
       Crash, Ends, Tick, vars, sim
  <2> QED BY <2>1, <2>2
<1> QED BY <1>1, <1>2, IssuedBefore

\* What a step may do to the keys.
LEMMA NextKeys ==
  ASSUME TypeOK, [Next]_vars
  PROVE  \/ dedup' \subseteq dedup
         \/ /\ task.pc = "submit" /\ dedup' \subseteq dedup \cup {Key(Current)}
            /\ task' = [task EXCEPT !.pc = "write"]
BY DEF Next, SimulatorStep, Publish, Take, Published, Wake, Leave, CloseStop, RunAgain,
     Interfere, BrokerStops, BrokerStarts, SimulatorReconnects, SubscriberLost, Boot, Start,
     PublisherConnects, SubscriberStarts, Reconnect, Subscribe, SubscribeFails, Handler,
     HandleMessage,
     Duplicate, Mark, MarkBlind, Store, SubmitFails, KeyExpires, StopSubscriber, Exit,
     Crash, Ends, Tick, vars, store

\* The reading that Publish makes has a key of its own.
LEMMA PublishDistinct ==
  ASSUME TypeOK, Paced, KeysAreDistinct, KeysAreSettled, NEW w \in Worker, Publish(w)
  PROVE  KeysAreDistinct' /\ KeysAreSettled'
<1> DEFINE new == [dev |-> w, n |-> cur[w].n + 1, sec |-> now]
<1>1. /\ \A v \in Worker : cur'[v] = IF v = w THEN new ELSE cur[v]
      /\ UNCHANGED <<now, counted, dedup, rows, lost, inbox, task>>
      /\ at[w] = "ready" /\ cur[w].n < MaxReadings
  BY DEF Publish, TypeOK, store, route
<1>2. new \in Reading /\ new.dev = w /\ new.sec = now /\ new.n > 0
  BY <1>1, Bounds DEF Reading, TypeOK
<1>3. Carried' = Carried BY <1>1 DEF Carried, Readings
<1>4. Issued' \subseteq Issued \cup {new}
  BY <1>1, <1>3 DEF Issued, Stamped
<1>5. cur[w].sec \in Nat /\ now \in Nat /\ (Stamped(w) => cur[w].sec < now)
  BY <1>1 DEF TypeOK, Paced
<1>6. ASSUME NEW r \in Issued PROVE Key(r) # Key(new) /\ r.sec <= cur'[r.dev].sec /\ Stamped(r.dev)'
  <2>1. r \in Reading /\ Stamped(r.dev) /\ r.sec <= cur[r.dev].sec BY DEF KeysAreDistinct
  <2>2. r.dev \in Worker /\ r.sec \in Nat BY <2>1 DEF Reading
  <2>3. CASE r.dev = w BY <1>1, <1>2, <1>5, <2>1, <2>2, <2>3 DEF Key, Stamped
  <2>4. CASE r.dev # w BY <1>1, <1>2, <2>1, <2>2, <2>4 DEF Key, Stamped
  <2> QED BY <2>3, <2>4
<1>7. Key(new) \notin dedup
  <2> SUFFICES ASSUME Key(new) \in dedup PROVE FALSE OBVIOUS
  <2>1. Stamped(w) /\ now <= cur[w].sec BY <1>2 DEF KeysAreDistinct, Key
  <2> QED BY <1>5, <2>1
<1>8. ASSUME NEW k \in dedup PROVE Stamped(k[1])' /\ k[2] <= cur'[k[1]].sec
  <2>1. k[1] \in Worker /\ k[2] \in Nat /\ Stamped(k[1]) /\ k[2] <= cur[k[1]].sec
    BY DEF TypeOK, KeysAreDistinct
  <2>2. CASE k[1] = w BY <1>1, <1>2, <1>5, <2>1, <2>2 DEF Stamped
  <2>3. CASE k[1] # w BY <1>1, <2>1, <2>3 DEF Stamped
  <2> QED BY <2>2, <2>3
<1>9. new.sec <= cur'[new.dev].sec /\ cur'[new.dev].n > 0 BY <1>1, <1>2, <1>5
<1> HIDE DEF new
<1>10. KeysAreDistinct'
  <2>1. ASSUME NEW r \in Issued'
        PROVE  r \in Reading /\ cur'[r.dev].n > 0 /\ r.sec <= cur'[r.dev].sec
    <3>1. CASE r = new BY <1>2, <1>9, <3>1
    <3>2. CASE r \in Issued
      <4>1. r \in Reading BY <3>2 DEF KeysAreDistinct
      <4> QED BY <1>6, <3>2, <4>1 DEF Stamped
    <3> QED BY <1>4, <3>1, <3>2
  <2>2. \A x, y \in Issued' : Key(x) = Key(y) => x = y
    BY <1>4, <1>6 DEF KeysAreDistinct
  <2>3. \A k \in dedup' : Stamped(k[1])' /\ k[2] <= cur'[k[1]].sec BY <1>1, <1>8
  <2> QED BY <2>1, <2>2, <2>3 DEF KeysAreDistinct, Key, Stamped
<1>11. KeysAreSettled'
  <2>1. \A r \in Issued' : Key(r) \in dedup' =>
          r \in rows' \cup lost' \/ (task'.pc = "write" /\ r \in Readings(task'.m))
    BY <1>1, <1>4, <1>7 DEF KeysAreSettled
  <2> QED BY <2>1 DEF KeysAreSettled, Key, Readings
<1> QED BY <1>10, <1>11

LEMMA NextDistinct ==
  ASSUME TypeOK, Paced, KeysAreDistinct, KeysAreSettled, Conserves, [Next]_vars
  PROVE  KeysAreDistinct'
<1>1. ASSUME NEW w \in Worker, Publish(w) PROVE KeysAreDistinct' BY <1>1, PublishDistinct
<1>2. ASSUME \A w \in Worker : ~Publish(w) PROVE KeysAreDistinct'
  <2>1. Issued' \subseteq Issued /\ UNCHANGED cur BY <1>2, NextIssued
  <2>2. ASSUME NEW k \in dedup' PROVE Stamped(k[1]) /\ k[2] <= cur[k[1]].sec
    <3>1. CASE k \in dedup BY <3>1 DEF KeysAreDistinct
    <3>2. CASE k \notin dedup
      <4>1. task.pc = "submit" /\ k = Key(Current) BY <2>2, <3>2, NextKeys
      <4>2. Current \in Issued BY <4>1, TaskReading, NoTaskReading DEF Issued, Carried
      <4> QED BY <4>1, <4>2 DEF KeysAreDistinct, Key
    <3> QED BY <3>1, <3>2
  <2> QED BY <2>1, <2>2 DEF KeysAreDistinct, Key, Stamped
<1> QED BY <1>1, <1>2

LEMMA NextSettled ==
  ASSUME TypeOK, Paced, KeysAreDistinct, KeysAreSettled, Conserves, [Next]_vars
  PROVE  KeysAreSettled'
<1>1. ASSUME NEW w \in Worker, Publish(w) PROVE KeysAreSettled' BY <1>1, PublishDistinct
<1>2. ASSUME \A w \in Worker : ~Publish(w) PROVE KeysAreSettled'
  <2>1. Issued' \subseteq Issued BY <1>2, NextIssued
  <2>2. rows \subseteq rows' /\ lost \subseteq lost' BY DEF Conserves
  <2> SUFFICES ASSUME NEW r \in Issued, Key(r) \in dedup'
               PROVE  r \in rows' \cup lost' \/ (task'.pc = "write" /\ r \in Readings(task'.m))
    BY <2>1 DEF KeysAreSettled, Key, Readings
  <2>3. CASE Key(r) \notin dedup
    <3>1. task.pc = "submit" /\ Key(r) = Key(Current) /\ task' = [task EXCEPT !.pc = "write"]
      BY <2>3, NextKeys
    <3>2. task # NoTask BY <3>1, NoTaskReading
    <3>3. Readings(task.m) = {Current} /\ Current \in Issued
      BY <3>2, TaskReading DEF Issued, Carried
    <3>4. r = Current BY <3>1, <3>3 DEF KeysAreDistinct
    <3>5. task'.m = task.m /\ task'.pc = "write" BY <3>1, <3>2, TaskReading DEF Handling
    <3> QED BY <3>3, <3>4, <3>5
  <2>4. CASE r \in rows \cup lost BY <2>2, <2>4
  <2>5. CASE task.pc = "write" /\ r \in Readings(task.m)
    <3>1. r = Current /\ task # NoTask BY <2>5, TaskReading, NoTaskReading
    <3>2. CASE UNCHANGED task BY <2>5, <3>2
    <3>3. CASE ~UNCHANGED task
      <4>1. Store \/ SubmitFails \/ Exit \/ Crash
        BY <2>5, <3>1, <3>3 DEF Next, SimulatorStep, Publish, Take, Published, Wake, Leave,
             CloseStop, RunAgain, Interfere, BrokerStops, BrokerStarts, SimulatorReconnects,
             SubscriberLost, Boot, Start, PublisherConnects, SubscriberStarts, Reconnect,
             Subscribe, SubscribeFails, Handler, HandleMessage, Duplicate, Mark,
             MarkBlind, KeyExpires,
             StopSubscriber, Tick, vars
      <4>2. CASE Store BY <3>1, <4>2, InsertedRows DEF Store
      <4>3. CASE SubmitFails BY <3>1, <4>3 DEF SubmitFails
      <4>4. CASE Exit \/ Crash BY <2>5, <4>4 DEF Exit, Crash, Ends
      <4> QED BY <4>1, <4>2, <4>3, <4>4
    <3> QED BY <3>2, <3>3
  <2> QED BY <2>3, <2>4, <2>5 DEF KeysAreSettled
<1> QED BY <1>1, <1>2

\* What is taken stays carried, and what is counted was taken.
LEMMA NextCarried ==
  ASSUME TypeOK, Paced, TakenIsCarried, NothingLostSilently, Conserves, [Next]_vars
  PROVE  TakenIsCarried' /\ NothingLostSilently'
<1>1. Carried \subseteq Carried' BY DEF Conserves
<1>2. ASSUME NEW w \in Worker, tok'[w] = "taken" PROVE cur'[w] \in Carried'
  <2>1. CASE tok[w] = "taken"
    <3>1. cur'[w] = cur[w]
      BY <1>2, <2>1 DEF Next, SimulatorStep, Publish, Take, Published, Wake, Leave, CloseStop,
         RunAgain, Interfere, BrokerStops, BrokerStarts, SimulatorReconnects, SubscriberLost,
         Boot, Start, PublisherConnects, SubscriberStarts, Reconnect, Subscribe,
         SubscribeFails, Handler,
         HandleMessage, Duplicate, Mark, MarkBlind, Store, SubmitFails, KeyExpires,
         StopSubscriber, Exit, Crash, Ends, Tick, vars, sim, TypeOK
    <3> QED BY <1>1, <2>1, <3>1 DEF TakenIsCarried
  <2>2. CASE tok[w] # "taken"
    <3>1. Take(w)
      BY <1>2, <2>2 DEF Next, SimulatorStep, Publish, Take, Published, Sleep, Wake, Leave,
         CloseStop, RunAgain, Interfere, BrokerStops, BrokerStarts, SimulatorReconnects,
         SubscriberLost, Resend, Boot, Start, PublisherConnects, SubscriberStarts, Reconnect,
         Subscribe, SubscribeFails, Handler, HandleMessage, Duplicate, Mark, MarkBlind,
         Store, SubmitFails,
         KeyExpires, StopSubscriber, Exit, Crash, Ends, Tick, vars, sim, TypeOK
    <3>2. Stamped(w) /\ Forward(MessageOf(cur[w])) /\ Len(inbox) < MaxInbox /\ cur' = cur
      BY <3>1 DEF Take, Paced
    <3>3. cur[w] \in Readings(inbox') \cup lost' BY <3>2, ForwardTypes, CurMessage
    <3> QED BY <3>2, <3>3 DEF Carried, Readings
  <2> QED BY <2>1, <2>2
<1>3. ASSUME NEW r \in counted' PROVE r \in Carried'
  <2>1. r \in counted \/ \E w \in Worker : tok[w] = "taken" /\ r = cur[w]
    BY DEF Next, SimulatorStep, Publish, Take, Published, Wake, Leave, CloseStop,
       RunAgain, Interfere, BrokerStops, BrokerStarts, SimulatorReconnects, SubscriberLost,
       Boot, Start, PublisherConnects, SubscriberStarts, Reconnect, Subscribe,
       SubscribeFails, Handler,
       HandleMessage, Duplicate, Mark, MarkBlind, Store, SubmitFails, KeyExpires,
       StopSubscriber, Exit, Crash, Ends, Tick, vars, sim
  <2>2. r \in Carried BY <2>1 DEF NothingLostSilently, TakenIsCarried, Carried
  <2> QED BY <1>1, <2>2
<1>4. TakenIsCarried' BY <1>2 DEF TakenIsCarried
<1>5. NothingLostSilently' BY <1>3 DEF NothingLostSilently, Carried
<1> QED BY <1>4, <1>5

-----------------------------------------------------------------------------
(* Evaluations. *)

LEMMA NextEvaluations ==
  ASSUME TypeOK, EvaluationsAreGuarded, EvaluatedOnce, [Next]_vars
  PROVE  EvaluationsAreGuarded' /\ EvaluatedOnce'
<1>1. CASE Mark
  <2>1. /\ task.pc = "submit" /\ task' = [task EXCEPT !.pc = "write"]
        /\ Key(Current) \notin dedup /\ dedup' = dedup \cup {Key(Current)}
        /\ UNCHANGED <<evals, again, blind>>
    BY <1>1 DEF Mark, New
  <2>2. task'.m = task.m BY <2>1, TaskReading, NoTaskReading DEF Handling
  <2>3. Current' = Current BY <2>2 DEF Current
  <2>4. Key(Current)' = Key(Current) BY <2>3 DEF Key
  <2>5. Current \in evals => Key(Current) \in blind
    BY <2>1 DEF EvaluationsAreGuarded
  <2>6. \A r \in evals' : Key(r) \in dedup' \cup blind' BY <2>1 DEF EvaluationsAreGuarded
  <2>7. EvaluatedOnce' BY <2>1 DEF EvaluatedOnce, Key
  <2> QED BY <2>1, <2>3, <2>4, <2>5, <2>6, <2>7 DEF EvaluationsAreGuarded, Key
<1>2. CASE MarkBlind
  <2>1. /\ task.pc = "submit" /\ task' = [task EXCEPT !.pc = "write"]
        /\ dedup \subseteq dedup' /\ blind' = blind \cup {Key(Current)}
        /\ UNCHANGED <<evals, again>>
    BY <1>2 DEF MarkBlind
  <2>2. task'.m = task.m BY <2>1, TaskReading, NoTaskReading DEF Handling
  <2>3. Current' = Current BY <2>2 DEF Current
  <2>4. Key(Current)' = Key(Current) BY <2>3 DEF Key
  <2>5. \A r \in evals' : Key(r) \in dedup' \cup blind' BY <2>1 DEF EvaluationsAreGuarded
  <2>6. EvaluatedOnce' BY <2>1 DEF EvaluatedOnce, Key
  <2> QED BY <2>1, <2>3, <2>4, <2>5, <2>6 DEF EvaluationsAreGuarded, Key
<1>3. CASE Store
  <2>1. /\ task.pc = "write" /\ task' = NoTask
        /\ evals' = evals \cup {Current} /\ again' = again \cup (evals \cap {Current})
        /\ UNCHANGED <<dedup, blind>>
    BY <1>3 DEF Store
  <2>2. task'.pc # "write" BY <2>1 DEF NoTask
  <2>3. \A r \in evals' : Key(r) \in dedup' \cup blind' BY <2>1 DEF EvaluationsAreGuarded
  <2>4. \A r \in again' : Key(r) \in blind'
    BY <2>1 DEF EvaluationsAreGuarded, EvaluatedOnce
  <2> QED BY <2>2, <2>3, <2>4 DEF EvaluationsAreGuarded, EvaluatedOnce, Key
<1>4. CASE KeyExpires
  <2>1. UNCHANGED <<task, evals, again>> /\ blind \subseteq blind'
        /\ dedup \cup blind \subseteq dedup' \cup blind'
    BY <1>4 DEF KeyExpires
  <2>2. Current' = Current BY <2>1 DEF Current
  <2> QED BY <2>1, <2>2 DEF EvaluationsAreGuarded, EvaluatedOnce, Key
<1>5. CASE HandleMessage \/ Duplicate \/ SubmitFails \/ Exit \/ Crash
  <2>1. UNCHANGED <<dedup, blind, evals, again>>
    BY <1>5 DEF HandleMessage, Duplicate, SubmitFails, Exit, Crash, Ends, store
  <2>2. task'.pc # "write"
    BY <1>5 DEF HandleMessage, Duplicate, SubmitFails, Exit, Crash, Ends, NoTask, Handling
  <2> QED BY <2>1, <2>2 DEF EvaluationsAreGuarded, EvaluatedOnce, Key
<1>6. CASE \/ \E w \in Worker : SimulatorStep(w)
           \/ CloseStop \/ RunAgain \/ Interfere \/ BrokerStops \/ BrokerStarts
           \/ SimulatorReconnects \/ SubscriberLost \/ Boot \/ Start \/ SubscribeFails
           \/ StopSubscriber \/ Tick
           \/ UNCHANGED vars
  <2>1. UNCHANGED <<task, dedup, blind, evals, again>>
    BY <1>6 DEF SimulatorStep, Publish, Take, Published, Wake, Leave, CloseStop, RunAgain,
         Interfere, BrokerStops, BrokerStarts, SimulatorReconnects, SubscriberLost, Boot,
         Start, PublisherConnects, SubscriberStarts, Reconnect, Subscribe,
         SubscribeFails, StopSubscriber,
         Tick, vars, store
  <2>2. Current' = Current BY <2>1 DEF Current
  <2> QED BY <2>1, <2>2 DEF EvaluationsAreGuarded, EvaluatedOnce, Key
<1> QED BY <1>1, <1>2, <1>3, <1>4, <1>5, <1>6 DEF Next, Handler

-----------------------------------------------------------------------------
LEMMA InitSafe == Init => Safe
<1> SUFFICES ASSUME Init PROVE Safe OBVIOUS
<1>1. Readings(inbox) = {} /\ Readings(task.m) = {} /\ task.pc = "idle"
  BY NoReadings, NoTaskReading DEF Init
<1>2. inbox \in Seq(Message) /\ Len(inbox) <= MaxInbox /\ \A i \in DOMAIN inbox : IsMessage(inbox[i])
  BY Bounds DEF Init
<1>3. cur \in [Worker -> [dev : Worker, n : 0..MaxReadings, sec : Nat]]
  BY Bounds DEF Init
<1>4. TypeOK BY <1>2, <1>3 DEF Init, TypeOK
<1>5. \A w \in Worker : ~Stamped(w) /\ tok[w] = "none" /\ cur[w].dev = w /\ cur[w].sec = 0
  BY DEF Init, Stamped
<1>6. Issued = {} BY <1>1, <1>5 DEF Issued, Carried, Init
<1>7. Paced
  <2>1. now = 0 /\ \A w \in Worker : at[w] = "ready" BY DEF Init
  <2> QED BY <1>5, <2>1 DEF Paced
<1>8. TakenIsCarried BY <1>5 DEF TakenIsCarried
<1>9. KeysAreDistinct /\ KeysAreSettled BY <1>6 DEF KeysAreDistinct, KeysAreSettled, Init
<1>10. EvaluationsAreGuarded /\ NothingLostSilently /\ EvaluatedOnce
  BY <1>1 DEF EvaluationsAreGuarded, NothingLostSilently, EvaluatedOnce, Init
<1> QED BY <1>4, <1>7, <1>8, <1>9, <1>10 DEF Safe

LEMMA NextSafe == Safe /\ [Next]_vars => Safe'
<1> SUFFICES ASSUME Safe, [Next]_vars PROVE Safe' OBVIOUS
<1>1. TypeOK' /\ Paced' BY NextTypes, NextPaced DEF Safe
<1>2. Conserves BY NextConserves DEF Safe
<1>3. KeysAreDistinct' /\ KeysAreSettled' BY <1>2, NextDistinct, NextSettled DEF Safe
<1>4. TakenIsCarried' /\ NothingLostSilently' BY <1>2, NextCarried DEF Safe
<1>5. EvaluationsAreGuarded' /\ EvaluatedOnce' BY NextEvaluations DEF Safe
<1> QED BY <1>1, <1>3, <1>4, <1>5 DEF Safe

\* The inductive invariant holds in every reachable state.
THEOREM SafeInvariant == Spec => []Safe
<1>1. Spec => Init /\ [][Next]_vars BY DEF Spec
<1> QED BY <1>1, InitSafe, NextSafe, PTL

\* The variables of simulator, broker and subscriber keep their types, and a
\* subscription exists only in a serving process with a running broker.
THEOREM TypeCorrect == Spec => []TypeOK
<1>1. Safe => TypeOK BY DEF Safe
<1> QED BY <1>1, SafeInvariant, PTL

\* A reading that the simulator counts as sent is stored, on its way, or among
\* those that passed a gap in the subscription or whose submit failed.
THEOREM Conservation == Spec => []NothingLostSilently
<1>1. Safe => NothingLostSilently BY DEF Safe
<1> QED BY <1>1, SafeInvariant, PTL

\* No copy of a reading is evaluated again while the guard of its key stands.
THEOREM SingleEvaluation == Spec => []EvaluatedOnce
<1>1. Safe => EvaluatedOnce BY DEF Safe
<1> QED BY <1>1, SafeInvariant, PTL
=============================================================================
