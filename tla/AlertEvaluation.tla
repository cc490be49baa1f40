--------------------------- MODULE AlertEvaluation ---------------------------
(***************************************************************************)
(* Alerts: one evaluator goroutine for every stored point, the thresholds, *)
(* silence rules and alerts in PostgreSQL, the key alert:{device} in Redis *)
(* that suppresses repetitions, the publication over MQTT, and the RPCs of *)
(* the alert service that change thresholds and silences meanwhile.        *)
(***************************************************************************)
EXTENDS Integers, Sequences

CONSTANTS
  Device, Metric,
  AllMetrics,   \* the metric_name NULL of a silence rule
  Eval,         \* evaluations, each of one stored point
  Values,       \* the values points may have
  NoValue,      \* no entry in lastValues
  Configured,   \* the thresholds in the table at the start
  Thresholds,   \* what CreateThreshold may be asked for
  Updates,      \* what UpdateThreshold may be asked for
  Durations,    \* what SilenceAlert may be asked for
  TTL,          \* alertSilenceRedisTTL and defaultSilenceTTL
  Faults,       \* PostgreSQL, Redis and the broker may fail
  MaxRules,     \* bound on the RPCs of the alert service
  MaxTime       \* bound on the clock

Kind == {"HIGH", "LOW", "RANGE", "CHANGE"}
Threshold == [dev : Device, metric : Metric, type : Kind, lo : Int, hi : Int, pct : Int,
              on : BOOLEAN]
Update == [lo : Int, hi : Int, pct : Int, on : BOOLEAN]
Point == [dev : Device, metric : Metric, value : Int]

\* Mutant: the table has no UNIQUE.
SameThresholdRow(t, u) == t = u

\* UNIQUE (device_id, metric_name, type).
SameThreshold(t, u) == t.dev = u.dev /\ t.metric = u.metric /\ t.type = u.type

ASSUME AlertAssumption ==
  /\ AllMetrics \notin Metric /\ NoValue \notin Int
  /\ Configured \subseteq Threshold
  /\ \A t, u \in Configured : SameThreshold(t, u) => t = u
  /\ Values \subseteq Int /\ Thresholds \subseteq Threshold /\ Updates \subseteq Update
  /\ Durations \subseteq Int /\ TTL \in Nat \ {0}
  /\ Faults \in BOOLEAN /\ MaxRules \in Nat /\ MaxTime \in Nat
  /\ Device # {} /\ Metric # {} /\ Values # {} /\ Thresholds # {}

VARIABLES
  now,      \* the clock of PostgreSQL, Redis and the services
  thr,      \* table alert_thresholds
  rules,    \* table silence_rules
  key,      \* when alert:{device} expires, 0 if it is not set
  caching,  \* SilenceAlert calls that have stored their rule and not yet the key
  rpcs,     \* RPCs so far
  last,     \* lastValues of the evaluator
  pc,       \* where an evaluation is
  point,    \* its point
  since,    \* history: the rules in force when it began
  over,     \* its context has ended
  todo,     \* the thresholds it has yet to compare
  cur,      \* the threshold it is at
  hit,      \* that threshold is violated
  quiet,    \* isDBSilenced
  blind,    \* history: the query for the rules failed
  alerts,   \* table alerts: evaluation and threshold type, silenced or not
  published,\* the alerts the broker got on alerts/{device}
  repeated, \* history: the ones it got more than once
  taken,    \* evaluations whose message the broker has and has not acknowledged
  unacked,  \* history: alerts whose acknowledgement was lost with the connection
  checks,   \* history: the checks of the key that let an alert pass
  marks,    \* history: the keys set after an alert, in order
  link      \* the publisher is connected to the broker

service == <<thr, rules, caching, rpcs>>
eval == <<pc, point, since, over, todo, cur, hit, quiet, blind>>
history == <<checks, marks>>
broker == <<published, repeated, taken, unacked, link>>
vars == <<now, service, key, last, eval, alerts, broker, history>>

-----------------------------------------------------------------------------
(* Pure parts. *)

\* validateThresholdRequest.
Valid(t) ==
  /\ t.type = "RANGE" => t.lo < t.hi
  /\ t.type = "CHANGE" => t.pct > 0 /\ t.pct < 100

Magnitude(x) == IF x < 0 THEN -x ELSE x

\* Mutant: the division goes ahead without a last value, or by zero, and is +Inf.
ChangedFromNothing(pct, v, l) ==
  l \in {NoValue, 0} \/ Magnitude(v - l) * 100 > pct * Magnitude(l)

\* |value - last| / |last| * 100 > change_percent, without the division.
Changed(pct, v, l) ==
  l # NoValue /\ l # 0 /\ Magnitude(v - l) * 100 > pct * Magnitude(l)

Triggers(t, v, l) ==
  \/ t.type = "HIGH" /\ v > t.hi
  \/ t.type = "LOW" /\ v < t.lo
  \/ t.type = "RANGE" /\ (v < t.lo \/ v > t.hi)
  \/ t.type = "CHANGE" /\ Changed(t.pct, v, l)

\* UpdateThreshold only applies what is positive, or true.
Apply(t, u) ==
  [dev |-> t.dev, metric |-> t.metric, type |-> t.type,
   lo |-> IF u.lo > 0 THEN u.lo ELSE t.lo,
   hi |-> IF u.hi > 0 THEN u.hi ELSE t.hi,
   pct |-> IF u.pct > 0 THEN u.pct ELSE t.pct,
   on |-> u.on \/ t.on]

\* Mutant: a rule for all metrics is overlooked.
CoversNamed(r, m) == r.metric = m

\* checkSilenced.
Covers(r, m) == r.metric \in {AllMetrics, m}

\* silenced_until > NOW().
InForce(d) == {r \in rules : r.dev = d /\ r.until > now}

KeySet(d) == key[d] > now

-----------------------------------------------------------------------------
Init ==
  /\ now = 1 /\ thr = Configured /\ rules = {} /\ caching = {} /\ rpcs = 0
  /\ key = [d \in Device |-> 0]
  /\ last = [d \in Device |-> [m \in Metric |-> NoValue]]
  /\ pc = [e \in Eval |-> "idle"]
  /\ point = [e \in Eval |-> [dev |-> CHOOSE d \in Device : TRUE,
                              metric |-> CHOOSE m \in Metric : TRUE, value |-> 0]]
  /\ since = [e \in Eval |-> {}]
  /\ over = [e \in Eval |-> FALSE]
  /\ todo = [e \in Eval |-> {}]
  /\ cur = [e \in Eval |-> CHOOSE t \in Thresholds : TRUE]
  /\ hit = [e \in Eval |-> FALSE]
  /\ quiet = [e \in Eval |-> FALSE]
  /\ blind = [e \in Eval |-> FALSE]
  /\ alerts = {} /\ checks = {} /\ marks = <<>>
  /\ published = {} /\ repeated = {} /\ taken = {} /\ unacked = {} /\ link = TRUE

(* The RPCs of the alert service. *)

Rpc == rpcs < MaxRules /\ rpcs' = rpcs + 1

\* Refused when invalid, and by UNIQUE (device_id, metric_name, type).
CreateThreshold(t) ==
  /\ Rpc /\ Valid(t) /\ \A u \in thr : ~SameThreshold(t, u)
  /\ thr' = thr \cup {t}
  /\ UNCHANGED <<now, rules, caching, key, last, eval, alerts, broker, history>>

UpdateThreshold(t, u) ==
  /\ Rpc /\ t \in thr
  /\ thr' = (thr \ {t}) \cup {Apply(t, u)}
  /\ UNCHANGED <<now, rules, caching, key, last, eval, alerts, broker, history>>

DeleteThreshold(t) ==
  /\ Rpc /\ t \in thr
  /\ thr' = thr \ {t}
  /\ UNCHANGED <<now, rules, caching, key, last, eval, alerts, broker, history>>

\* UNIQUE (device_id, metric_name), which NULL never violates.
Clashes(d, m) == m # AllMetrics /\ \E r \in rules : r.dev = d /\ r.metric = m

\* SilenceAlert stores the rule ...
SilenceStore(d, m, n) ==
  /\ Rpc /\ n > 0 /\ ~Clashes(d, m)
  /\ rules' = rules \cup {[id |-> rpcs, dev |-> d, metric |-> m, until |-> now + n]}
  /\ caching' = caching \cup {[id |-> rpcs, dev |-> d]}
  /\ UNCHANGED <<now, thr, key, last, eval, alerts, broker, history>>

SilenceClash(d, m, n) ==
  /\ Rpc /\ n > 0 /\ Clashes(d, m)
  /\ UNCHANGED <<now, thr, rules, caching, key, last, eval, alerts, broker, history>>

\* ... and then the key of the device, whose error it ignores.
SilenceCache(c) ==
  /\ c \in caching
  /\ caching' = caching \ {c}
  /\ \/ key' = [key EXCEPT ![c.dev] = now + TTL]
     \/ Faults /\ UNCHANGED key
  /\ UNCHANGED <<now, thr, rules, rpcs, last, eval, alerts, broker, history>>

\* ClearSilence leaves the key.
ClearSilence(d) ==
  /\ Rpc
  /\ rules' = {r \in rules : r.dev # d}
  /\ UNCHANGED <<now, thr, caching, key, last, eval, alerts, broker, history>>

-----------------------------------------------------------------------------
(* The evaluator.  Statements fail when the context has ended. *)

Fails(e) == Faults \/ over[e]

Goto(e, s) == pc' = [pc EXCEPT ![e] = s]

Live(e) == pc[e] \notin {"idle", "done"}

\* Mutant: the arguments deviceID and metricName, two strings, are swapped.
EvaluateSwapped(e) ==
  /\ pc[e] = "idle"
  /\ \E d \in Device, m \in Metric, v \in Values :
       /\ point' = [point EXCEPT ![e] = [dev |-> m, metric |-> d, value |-> v]]
       /\ since' = [since EXCEPT ![e] = {r \in InForce(m) : r.metric \in {AllMetrics, d}}]
  /\ Goto(e, "thresholds")
  /\ UNCHANGED <<now, service, key, last, over, todo, cur, hit, quiet, blind, alerts, broker, history>>

\* EvaluateAsync, called for a point that was stored.
Evaluate(e) ==
  /\ pc[e] = "idle"
  /\ \E d \in Device, m \in Metric, v \in Values :
       /\ point' = [point EXCEPT ![e] = [dev |-> d, metric |-> m, value |-> v]]
       /\ since' = [since EXCEPT ![e] = {r \in InForce(d) : r.metric \in {AllMetrics, m}}]
  /\ Goto(e, "thresholds")
  /\ UNCHANGED <<now, service, key, last, over, todo, cur, hit, quiet, blind, alerts, broker, history>>

ReadThresholds(e) ==
  /\ pc[e] = "thresholds" /\ ~over[e]
  /\ todo' = [todo EXCEPT ![e] = {t \in thr : t.dev = point[e].dev
                                    /\ t.metric = point[e].metric /\ t.on}]
  /\ Goto(e, IF todo'[e] = {} THEN "done" ELSE "rules")
  /\ UNCHANGED <<now, service, key, last, point, since, over, cur, hit, quiet,
                 blind, alerts, broker, history>>

ReadThresholdsFails(e) ==
  /\ pc[e] = "thresholds" /\ Fails(e)
  /\ Goto(e, "done")
  /\ UNCHANGED <<now, service, key, last, point, since, over, todo, cur, hit, quiet,
                 blind, alerts, broker, history>>

\* The error of GetActiveSilences is ignored: there is no rule then.
ReadRules(e) ==
  /\ pc[e] = "rules"
  /\ \/ /\ ~over[e]
        /\ quiet' = [quiet EXCEPT ![e] =
                       \E r \in InForce(point[e].dev) : Covers(r, point[e].metric)]
        /\ UNCHANGED blind
     \/ /\ Fails(e)
        /\ quiet' = [quiet EXCEPT ![e] = FALSE]
        /\ blind' = [blind EXCEPT ![e] = TRUE]
  /\ Goto(e, "loop")
  /\ UNCHANGED <<now, service, key, last, point, since, over, todo, cur, hit,
                 alerts, broker, history>>

LastOf(e) == last[point[e].dev][point[e].metric]

\* Mutant: the loop does not advance.
RestSame(S, t) == S

Rest(S, t) == S \ {t}

\* The next threshold, in no particular order.
Compare(e) ==
  /\ pc[e] = "loop"
  /\ \E t \in todo[e] :
       /\ todo' = [todo EXCEPT ![e] = Rest(@, t)]
       /\ cur' = [cur EXCEPT ![e] = t]
       /\ hit' = [hit EXCEPT ![e] = Triggers(t, point[e].value, LastOf(e))]
       /\ Goto(e, IF t.type = "CHANGE" THEN "store" ELSE IF hit'[e] THEN "fired" ELSE "loop")
  /\ UNCHANGED <<now, service, key, last, point, since, over, quiet, blind, alerts, broker, history>>

\* setLastValue takes the lock again.
StoreLast(e) ==
  /\ pc[e] = "store"
  /\ last' = [last EXCEPT ![point[e].dev] =
                [@ EXCEPT ![point[e].metric] = point[e].value]]
  /\ Goto(e, IF hit[e] THEN "fired" ELSE "loop")
  /\ UNCHANGED <<now, service, key, point, since, over, todo, cur, hit, quiet,
                 blind, alerts, broker, history>>

AlertOf(e) == [eval |-> e, type |-> cur[e].type, silenced |-> quiet[e]]

\* A silenced alert is stored, and that is all.
RecordSilenced(e) ==
  /\ pc[e] = "fired" /\ quiet[e]
  /\ \/ ~over[e] /\ alerts' = alerts \cup {AlertOf(e)}
     \/ Fails(e) /\ UNCHANGED alerts
  /\ Goto(e, "loop")
  /\ UNCHANGED <<now, service, key, last, point, since, over, todo, cur, hit, quiet,
                 blind, broker, history>>

\* Mutant: the value of the key is looked at, not its presence.
SuppressesNever(d) == FALSE

Suppresses(d) == KeySet(d)

\* redisAlertSuppressed finds the key ...
Skip(e) ==
  /\ pc[e] = "fired" /\ ~quiet[e] /\ ~over[e] /\ Suppresses(point[e].dev)
  /\ Goto(e, "loop")
  /\ UNCHANGED <<now, service, key, last, point, since, over, todo, cur, hit, quiet,
                 blind, alerts, broker, checks, marks>>

\* ... does not find it ...
Pass(e) ==
  /\ pc[e] = "fired" /\ ~quiet[e] /\ ~over[e] /\ ~Suppresses(point[e].dev)
  /\ checks' = checks \cup {[dev |-> point[e].dev, at |-> now, seen |-> Len(marks)]}
  /\ Goto(e, "insert")
  /\ UNCHANGED <<now, service, key, last, point, since, over, todo, cur, hit, quiet,
                 blind, alerts, broker, marks>>

\* ... or cannot tell, which counts as not found.
PassBlindly(e) ==
  /\ pc[e] = "fired" /\ ~quiet[e] /\ Fails(e)
  /\ Goto(e, "insert")
  /\ UNCHANGED <<now, service, key, last, point, since, over, todo, cur, hit, quiet,
                 blind, alerts, broker, history>>

\* Mutant: the alert is announced and not stored.
InsertAlertSkipped(e) ==
  /\ pc[e] = "insert" /\ ~over[e]
  /\ Goto(e, "publish")
  /\ UNCHANGED <<now, service, key, last, point, since, over, todo, cur, hit, quiet,
                 blind, alerts, broker, history>>

InsertAlert(e) ==
  /\ pc[e] = "insert" /\ ~over[e]
  /\ alerts' = alerts \cup {AlertOf(e)}
  /\ Goto(e, "publish")
  /\ UNCHANGED <<now, service, key, last, point, since, over, todo, cur, hit, quiet,
                 blind, broker, history>>

\* The insert fails, or only its answer is lost.
InsertAlertFails(e) ==
  /\ pc[e] = "insert" /\ Fails(e)
  /\ \/ UNCHANGED alerts
     \/ alerts' = alerts \cup {AlertOf(e)}
  /\ Goto(e, "loop")
  /\ UNCHANGED <<now, service, key, last, point, since, over, todo, cur, hit, quiet,
                 blind, broker, history>>

\* The client sends the message once on each connection it has to the broker,
\* until it is acknowledged: QoS 1, and a client that connects again by itself.
BrokerTakes(e) ==
  /\ pc[e] = "publish" /\ link /\ e \notin taken
  /\ published' = published \cup {AlertOf(e)}
  /\ repeated' = repeated \cup ({AlertOf(e)} \cap published)
  /\ taken' = taken \cup {e}
  /\ UNCHANGED <<now, service, key, last, eval, alerts, unacked, link, history>>

\* The token completes when the broker acknowledges; it knows no context.
PublishAlert(e) ==
  /\ pc[e] = "publish" /\ e \in taken
  /\ taken' = taken \ {e}
  /\ Goto(e, "mark")
  /\ UNCHANGED <<now, service, key, last, point, since, over, todo, cur, hit, quiet,
                 blind, alerts, published, repeated, unacked, link, history>>

\* An error is logged, and the key is set all the same.  The broker may have got
\* the message.
PublishFails(e) ==
  /\ pc[e] = "publish" /\ Faults
  /\ taken' = taken \ {e}
  /\ Goto(e, "mark")
  /\ UNCHANGED <<now, service, key, last, point, since, over, todo, cur, hit, quiet,
                 blind, alerts, published, repeated, unacked, link, history>>

SetKey(e) ==
  /\ pc[e] = "mark"
  /\ \/ /\ ~over[e]
        /\ key' = [key EXCEPT ![point[e].dev] = now + TTL]
        /\ marks' = Append(marks, [dev |-> point[e].dev, at |-> now])
     \/ Fails(e) /\ UNCHANGED <<key, marks>>
  /\ Goto(e, "loop")
  /\ UNCHANGED <<now, service, last, point, since, over, todo, cur, hit, quiet,
                 blind, alerts, broker, checks>>

Finish(e) ==
  /\ pc[e] = "loop" /\ todo[e] = {}
  /\ Goto(e, "done")
  /\ UNCHANGED <<now, service, key, last, point, since, over, todo, cur, hit, quiet,
                 blind, alerts, broker, history>>

\* The five seconds are over.
ContextEnds(e) ==
  /\ Live(e) /\ ~over[e]
  /\ over' = [over EXCEPT ![e] = TRUE]
  /\ UNCHANGED <<now, service, key, last, pc, point, since, todo, cur, hit, quiet,
                 blind, alerts, broker, history>>

\* The telemetry service restarts: its goroutines and lastValues are gone.
Crash ==
  /\ Faults /\ \E e \in Eval : Live(e)
  /\ pc' = [e \in Eval |-> IF Live(e) THEN "done" ELSE pc[e]]
  /\ last' = [d \in Device |-> [m \in Metric |-> NoValue]]
  /\ taken' = {}
  /\ UNCHANGED <<now, service, key, point, since, over, todo, cur, hit, quiet, blind,
                 alerts, published, repeated, unacked, link, history>>

-----------------------------------------------------------------------------
Tick ==
  /\ now < MaxTime
  /\ now' = now + 1
  /\ UNCHANGED <<service, key, last, eval, alerts, broker, history>>

\* The state of the connection shows only while a message is published.  What
\* the broker has not acknowledged by then it will get again.
LinkDown ==
  /\ Faults /\ \E e \in Eval : pc[e] = "publish"
  /\ link /\ link' = FALSE
  /\ unacked' = unacked \cup {AlertOf(e) : e \in taken}
  /\ taken' = {}
  /\ UNCHANGED <<now, service, key, last, eval, alerts, published, repeated, history>>

LinkUp ==
  /\ ~link /\ link' = TRUE
  /\ UNCHANGED <<now, service, key, last, eval, alerts, published, repeated, taken,
                 unacked, history>>

-----------------------------------------------------------------------------
ServiceStep ==
  \/ \E t \in Thresholds : CreateThreshold(t)
  \/ \E t \in thr : DeleteThreshold(t) \/ \E u \in Updates : UpdateThreshold(t, u)
  \/ \E d \in Device :
       \/ \E m \in Metric \cup {AllMetrics}, n \in Durations :
            SilenceStore(d, m, n) \/ SilenceClash(d, m, n)
       \/ ClearSilence(d)

Reading(e) == ReadThresholds(e) \/ ReadThresholdsFails(e) \/ ReadRules(e)

Deciding(e) ==
  \/ Compare(e) \/ StoreLast(e) \/ RecordSilenced(e) \/ Skip(e) \/ Pass(e) \/ PassBlindly(e)
  \/ Finish(e)

Reporting(e) == InsertAlert(e) \/ InsertAlertFails(e) \/ SetKey(e)

Publishing(e) == BrokerTakes(e) \/ PublishAlert(e)

EvalStep(e) == Reading(e) \/ Deciding(e) \/ Reporting(e)

Caching == \E c \in caching : SilenceCache(c)

Next ==
  \/ ServiceStep \/ Caching \/ Crash \/ Tick \/ LinkDown \/ LinkUp
  \/ \E e \in Eval :
       \/ Evaluate(e) \/ EvalStep(e) \/ Publishing(e) \/ PublishFails(e)
       \/ ContextEnds(e)

\* The goroutines run, every context ends, and a broker that is connected takes
\* messages and acknowledges them.  Nothing obliges a lost connection to return.
Fairness ==
  /\ WF_vars(Caching)
  /\ \A e \in Eval :
       WF_vars(EvalStep(e)) /\ WF_vars(Publishing(e)) /\ WF_vars(ContextEnds(e))

Spec == Init /\ [][Next]_vars

FairSpec == Spec /\ Fairness

-----------------------------------------------------------------------------
(* Properties. *)

Rule == [id : Nat, dev : Device, metric : Metric \cup {AllMetrics}, until : Nat]
Alert == [eval : Eval, type : Kind, silenced : BOOLEAN]

\* In the loop over the thresholds, and anywhere.
InLoop == {"loop", "store", "fired", "insert", "publish", "mark"}
Place == {"idle", "thresholds", "rules", "done"} \cup InLoop

\* Every variable has its type.
TypeOK ==
  /\ now \in Nat /\ rpcs \in Nat
  /\ thr \in SUBSET Threshold /\ rules \in SUBSET Rule
  /\ key \in [Device -> Nat]
  /\ caching \in SUBSET [id : Nat, dev : Device]
  /\ last \in [Device -> [Metric -> Int \cup {NoValue}]]
  /\ pc \in [Eval -> Place]
  /\ point \in [Eval -> Point]
  /\ since \in [Eval -> SUBSET Rule]
  /\ over \in [Eval -> BOOLEAN] /\ hit \in [Eval -> BOOLEAN]
  /\ quiet \in [Eval -> BOOLEAN] /\ blind \in [Eval -> BOOLEAN]
  /\ todo \in [Eval -> SUBSET Threshold] /\ cur \in [Eval -> Threshold]
  /\ alerts \in SUBSET Alert /\ published \in SUBSET Alert
  /\ repeated \in SUBSET Alert /\ unacked \in SUBSET Alert /\ taken \in SUBSET Eval
  /\ checks \in SUBSET [dev : Device, at : Nat, seen : Nat]
  /\ marks \in Seq([dev : Device, at : Nat])
  /\ link \in BOOLEAN

\* An operator's silence holds: a point stored while a rule for its metric, or
\* for the whole device, was in force is not about to be announced as long as
\* that rule still stands, unless the query for the rules failed.
SilenceHolds ==
  \A e \in Eval :
    pc[e] \in {"insert", "publish"} /\ ~blind[e]
      => ~\E r \in since[e] : r \in rules /\ r.until > now

\* The quiet period: an alert that passes the check of the key comes at least
\* the TTL after every alert of its device whose key had been set by then,
\* whatever silences were stored or cleared in between.
QuietPeriod ==
  \A c \in checks : \A i \in 1..c.seen :
    marks[i].dev = c.dev => marks[i].at + TTL <= c.at

\* Nothing is announced that is not on record, or that is silenced.
PublishedIsRecorded == \A a \in published : a \in alerts /\ ~a.silenced

\* One stored point is announced once for each type of threshold: an alert about
\* to be stored and published was not published before, although thresholds are
\* created, changed and deleted while the point is evaluated and the key that
\* suppresses repetitions may have expired by then.  The broker gets such an
\* alert a second time only when the connection was lost after the broker took
\* it and before the client had the acknowledgement.
AnnouncedOnce ==
  /\ \A e \in Eval : pc[e] = "insert" => AlertOf(e) \notin published
  /\ repeated \subseteq unacked

SameSeries(e, f) == point[e].dev = point[f].dev /\ point[e].metric = point[f].metric

Differs(e, f) == SameSeries(e, f) /\ Changed(cur[e].pct, point[e].value, point[f].value)

\* A change is one between two points: although getLastValue and setLastValue
\* lock separately and nothing orders the goroutines that share lastValues, a
\* CHANGE threshold is only found violated where another point of the same
\* device and metric was evaluated whose value differs by more than its percentage.
ChangeIsReal ==
  \A e \in Eval :
    pc[e] \in {"fired", "insert", "publish", "mark"} /\ cur[e].type = "CHANGE"
      => \E f \in Eval \ {e} : pc[f] # "idle" /\ Differs(e, f)

\* It waits for a broker that is away: tok.Wait() has no limit, and the five
\* seconds of the evaluation do not reach it.
Offline(e) == pc[e] = "publish" /\ ~link

\* An evaluation ends, also when its context ends between two statements, unless
\* the broker stays away or goes away again each time: that is the only wait
\* that nothing bounds.  While it lasts the goroutine, its context's end
\* notwithstanding, is never done.
EvaluationEnds == \A e \in Eval : Live(e) ~> pc[e] = "done" \/ Offline(e)

-----------------------------------------------------------------------------
(* The inductive invariant behind the safety properties. *)

RulesAreOld == \A r \in rules : r.id < rpcs

\* The rules an evaluation began under are old and are about its point.
SinceCovers ==
  \A e \in Eval : \A r \in since[e] :
    r.id < rpcs /\ r.dev = point[e].dev /\ Covers(r, point[e].metric)

\* An evaluation that read the rules and found none has none to heed.
Heeded ==
  \A e \in Eval :
    pc[e] \in InLoop /\ ~blind[e] /\ ~quiet[e]
      => ~\E r \in since[e] : r \in rules /\ r.until > now

\* A silenced alert is not announced.
AnnouncesAloud == \A e \in Eval : pc[e] \in {"insert", "publish"} => ~quiet[e]

\* The key outlives the TTL of every alert after which it was set.
KeyOutlives ==
  \A i \in DOMAIN marks :
    marks[i].at <= now /\ marks[i].at + TTL <= key[marks[i].dev]

ChecksArePast == \A c \in checks : c.seen <= Len(marks)

\* An alert is on record before it is published.
RecordedFirst == \A e \in Eval : pc[e] = "publish" => AlertOf(e) \in alerts

SilenceInv == RulesAreOld /\ SinceCovers /\ Heeded /\ AnnouncesAloud
KeyInv == QuietPeriod /\ KeyOutlives /\ ChecksArePast
RecordInv == PublishedIsRecorded /\ RecordedFirst

Safe == TypeOK /\ SilenceInv /\ KeyInv /\ RecordInv

(* What AnnouncedOnce and ChangeIsReal rest on besides. *)

\* No two rows for the same device, metric and type.
UniqueRows == \A t, u \in thr : SameThreshold(t, u) => t = u

\* Where the threshold at hand has yet to be dealt with or to be reported.
AtThreshold == {"store", "fired", "insert", "publish"}

\* The types an evaluation has yet to publish.
ToCome(e) ==
  {t.type : t \in todo[e]}
    \cup (IF pc[e] \in {"store", "fired", "insert"} THEN {cur[e].type} ELSE {})

\* It meets every type once.
MeetsOnce ==
  \A e \in Eval :
    /\ \A t, u \in todo[e] : t.type = u.type => t = u
    /\ pc[e] \in AtThreshold => \A t \in todo[e] : t.type # cur[e].type

Early == {"idle", "thresholds", "rules"}

\* What was announced is behind the evaluation.
AnnouncedBefore ==
  \A x \in published : pc[x.eval] \notin Early /\ x.type \notin ToCome(x.eval)

\* An alert that is being published is new to the broker, or the broker has it,
\* or the connection was lost when the broker had it.
SentForAReason ==
  \A e \in Eval :
    pc[e] = "publish" /\ AlertOf(e) \in published => e \in taken \/ AlertOf(e) \in unacked

\* An evaluation that has not yet called setLastValue, and may do so.
Unwritten(e) == pc[e] \in Early \cup {"store"} \/ \E t \in todo[e] : t.type = "CHANGE"

\* lastValues holds values of points whose evaluations have written them.
LastIsPoint ==
  \A d \in Device, m \in Metric :
    last[d][m] # NoValue =>
      \E f \in Eval : ~Unwritten(f) /\ point[f] = [dev |-> d, metric |-> m, value |-> last[d][m]]

\* A change was found against another evaluation's point.
FoundChange ==
  \A e \in Eval :
    /\ pc[e] \in {"fired", "insert", "publish", "mark"} => hit[e]
    /\ pc[e] \in AtThreshold \cup {"mark"} /\ cur[e].type = "CHANGE" /\ hit[e]
         => \E f \in Eval \ {e} : pc[f] # "idle" /\ Differs(e, f)
    /\ pc[e] = "store" => cur[e].type = "CHANGE"

AnnouncedInv == AnnouncedBefore /\ SentForAReason /\ repeated \subseteq unacked

SeriesInv == UniqueRows /\ MeetsOnce /\ AnnouncedInv /\ LastIsPoint /\ FoundChange
=============================================================================
