------------------------ MODULE AlertEvaluationProofs ------------------------
(***************************************************************************)
(* Silences, the quiet period and the record of alerts hold for any number *)
(* of devices, metrics, evaluations and RPCs.                              *)
(***************************************************************************)
EXTENDS AlertEvaluation, TLAPS

USE DEF service, eval, history, broker, Goto

\* An updated threshold is a threshold.
LEMMA ApplyType == ASSUME NEW t \in Threshold, NEW u \in Update PROVE Apply(t, u) \in Threshold
BY DEF Threshold, Update, Apply, Kind

LEMMA InitSafe == Init => Safe
<1> SUFFICES ASSUME Init PROVE Safe
  OBVIOUS
<1>1. TypeOK
  <2>1. PICK d \in Device : d = CHOOSE x \in Device : TRUE
    BY AlertAssumption
  <2>2. PICK m \in Metric : m = CHOOSE x \in Metric : TRUE
    BY AlertAssumption
  <2>3. PICK t \in Threshold : t = CHOOSE x \in Thresholds : TRUE
    BY AlertAssumption
  <2>4. point \in [Eval -> Point]
    <3>1. point = [e \in Eval |-> [dev |-> d, metric |-> m, value |-> 0]]
      BY <2>1, <2>2 DEF Init
    <3>2. [dev |-> d, metric |-> m, value |-> 0] \in Point
      BY DEF Point
    <3> QED
      BY <3>1, <3>2
  <2>5. cur \in [Eval -> Threshold]
    BY <2>3 DEF Init
  <2>6. last \in [Device -> [Metric -> Int \cup {NoValue}]]
    BY DEF Init
  <2>7. pc \in [Eval -> Place]
    BY DEF Init, Place
  <2>8. marks \in Seq([dev : Device, at : Nat])
    BY DEF Init
  <2> QED
    BY <2>4, <2>5, <2>6, <2>7, <2>8, AlertAssumption DEF Init, TypeOK
<1>2. SilenceInv
  BY DEF Init, SilenceInv, RulesAreOld, SinceCovers, Heeded, AnnouncesAloud, InLoop
<1>3. KeyInv
  BY DEF Init, KeyInv, QuietPeriod, KeyOutlives, ChecksArePast
<1>4. RecordInv
  BY DEF Init, RecordInv, PublishedIsRecorded, RecordedFirst
<1> QED
  BY <1>1, <1>2, <1>3, <1>4 DEF Safe

-----------------------------------------------------------------------------
(* What a step must leave alone to keep each part of the invariant. *)

LEMMA ElementType == ASSUME NEW S, NEW q \in Seq(S), NEW i \in DOMAIN q PROVE q[i] \in S
OBVIOUS

\* What is known of an alert after which the key was set.
LEMMA MarkType ==
  ASSUME TypeOK, NEW i \in DOMAIN marks
  PROVE  marks[i] \in [dev : Device, at : Nat] /\ marks[i].at \in Nat /\ marks[i].dev \in Device
<1>1. marks \in Seq([dev : Device, at : Nat])
  BY DEF TypeOK
<1>2. marks[i] \in [dev : Device, at : Nat]
  BY <1>1, ElementType
<1> QED
  BY <1>2

\* New rules are newer than every evaluation, time passes, and no evaluation
\* gets past the check of the rules.
LEMMA SilenceKeeps ==
  ASSUME Safe, since' = since, point' = point,
         rpcs' \in Nat, rpcs' >= rpcs, now' \in Nat, now' >= now,
         \A r \in rules' : r \in rules \/ (r.id = rpcs /\ rpcs < rpcs'),
         \A e \in Eval :
           /\ pc'[e] \in InLoop /\ ~blind'[e] /\ ~quiet'[e]
                => pc[e] \in InLoop /\ ~blind[e] /\ ~quiet[e]
           /\ pc'[e] \in {"insert", "publish"} => ~quiet'[e]
  PROVE  SilenceInv'
<1>t. \A e \in Eval : \A r \in since[e] : r.id \in Nat /\ r.until \in Nat
  BY DEF Safe, TypeOK, Rule
<1>n. now \in Nat /\ rpcs \in Nat
  BY DEF Safe, TypeOK
<1>1. SinceCovers'
  BY <1>t, <1>n DEF Safe, SilenceInv, SinceCovers, Covers
<1>2. Heeded'
  <2> SUFFICES ASSUME NEW e \in Eval, pc'[e] \in InLoop, ~blind'[e], ~quiet'[e],
                      NEW r \in since[e], r \in rules', r.until > now'
               PROVE  FALSE
    BY DEF Heeded
  <2>1. r.id < rpcs
    BY DEF Safe, SilenceInv, SinceCovers
  <2>2. r \in rules
    BY <2>1, <1>t, <1>n
  <2>3. r.until > now
    BY <1>t, <1>n
  <2> QED
    BY <2>2, <2>3 DEF Safe, SilenceInv, Heeded
<1>3. AnnouncesAloud'
  BY DEF AnnouncesAloud
<1>4. RulesAreOld'
  <2>1. \A r \in rules : r.id \in Nat /\ r.id < rpcs
    BY DEF Safe, TypeOK, Rule, SilenceInv, RulesAreOld
  <2> QED
    BY <2>1, <1>n DEF RulesAreOld
<1> QED
  BY <1>1, <1>2, <1>3, <1>4 DEF SilenceInv

\* No check and no alert is added, and the key still outlives the alerts.
LEMMA KeyKeeps ==
  ASSUME Safe, UNCHANGED <<marks, checks>>, now' \in Nat, now' >= now,
         \A i \in DOMAIN marks : marks[i].at + TTL <= key'[marks[i].dev]
  PROVE  KeyInv'
<1>1. QuietPeriod' /\ ChecksArePast'
  BY DEF Safe, KeyInv, QuietPeriod, ChecksArePast
<1>2. KeyOutlives'
  <2> SUFFICES ASSUME NEW i \in DOMAIN marks PROVE marks[i].at <= now'
    BY DEF KeyOutlives
  <2>1. marks[i].at \in Nat /\ now \in Nat
    BY MarkType DEF Safe, TypeOK
  <2>2. marks[i].at <= now
    BY DEF Safe, KeyInv, KeyOutlives
  <2> QED
    BY <2>1, <2>2
<1> QED
  BY <1>1, <1>2 DEF KeyInv

\* The key as it is outlives the alerts, and so does a key set now.
LEMMA KeyAsBefore ==
  ASSUME Safe PROVE \A i \in DOMAIN marks : marks[i].at + TTL <= key[marks[i].dev]
BY DEF Safe, KeyInv, KeyOutlives

LEMMA KeySetNow ==
  ASSUME Safe, NEW d \in Device, key' = [key EXCEPT ![d] = now + TTL]
  PROVE  \A i \in DOMAIN marks : marks[i].at + TTL <= key'[marks[i].dev]
<1> SUFFICES ASSUME NEW i \in DOMAIN marks PROVE marks[i].at + TTL <= key'[marks[i].dev]
  OBVIOUS
<1>1. marks[i].at \in Nat /\ marks[i].dev \in Device /\ now \in Nat /\ TTL \in Nat
  BY MarkType, AlertAssumption DEF Safe, TypeOK
<1>2. marks[i].at <= now /\ marks[i].at + TTL <= key[marks[i].dev]
  BY DEF Safe, KeyInv, KeyOutlives
<1>3. key'[marks[i].dev] = IF marks[i].dev = d THEN now + TTL ELSE key[marks[i].dev]
  BY <1>1 DEF Safe, TypeOK
<1> QED
  BY <1>1, <1>2, <1>3

\* Alerts stay on record, and nobody begins to publish.
LEMMA RecordKeeps ==
  ASSUME Safe, alerts \subseteq alerts', published' = published,
         \A e \in Eval :
           pc'[e] = "publish" => pc[e] = "publish" /\ cur'[e] = cur[e] /\ quiet'[e] = quiet[e]
  PROVE  RecordInv'
<1>1. PublishedIsRecorded'
  BY DEF Safe, RecordInv, PublishedIsRecorded
<1>2. RecordedFirst'
  BY DEF Safe, RecordInv, RecordedFirst, AlertOf
<1> QED
  BY <1>1, <1>2 DEF RecordInv

LEMMA AlertType == ASSUME TypeOK, NEW e \in Eval PROVE AlertOf(e) \in Alert
BY DEF TypeOK, AlertOf, Alert, Threshold

-----------------------------------------------------------------------------
(* One lemma per group of actions. *)

\* A step that leaves the evaluations alone keeps what is on record, and heeds
\* the rules it heeded.
LEMMA ServiceKeeps ==
  ASSUME Safe, TypeOK', UNCHANGED <<now, since, point, pc, blind, quiet, cur, alerts, published>>,
         \/ rpcs' = rpcs /\ rules' = rules
         \/ rpcs' = rpcs + 1 /\ \A r \in rules' : r \in rules \/ r.id = rpcs
  PROVE  SilenceInv' /\ RecordInv'
<1>1. rpcs \in Nat /\ rpcs' \in Nat /\ rpcs' >= rpcs /\ now \in Nat
  BY DEF Safe, TypeOK
<1>2. SilenceInv'
  <2>1. \A r \in rules' : r \in rules \/ (r.id = rpcs /\ rpcs < rpcs')
    BY <1>1
  <2>2. \A e \in Eval : pc[e] \in {"insert", "publish"} => ~quiet[e]
    BY DEF Safe, SilenceInv, AnnouncesAloud
  <2> QED
    BY <1>1, <2>1, <2>2, SilenceKeeps
<1>3. RecordInv'
  BY RecordKeeps
<1> QED
  BY <1>2, <1>3

\* CreateThreshold, UpdateThreshold and DeleteThreshold.
LEMMA ThresholdsSafe ==
  ASSUME Safe,
         \/ \E t \in Thresholds : CreateThreshold(t)
         \/ \E t \in thr : DeleteThreshold(t) \/ \E u \in Updates : UpdateThreshold(t, u)
  PROVE  Safe'
<1>1. /\ UNCHANGED <<now, rules, caching, key, last, eval, alerts, broker, history>>
      /\ rpcs' = rpcs + 1
  BY DEF CreateThreshold, DeleteThreshold, UpdateThreshold, Rpc
<1>2. thr' \in SUBSET Threshold
  <2>1. ASSUME NEW t \in thr, NEW u \in Updates PROVE Apply(t, u) \in Threshold
    BY ApplyType, AlertAssumption DEF Safe, TypeOK
  <2> QED
    BY <2>1, AlertAssumption
       DEF Safe, TypeOK, CreateThreshold, DeleteThreshold, UpdateThreshold
<1>3. TypeOK'
  BY <1>1, <1>2 DEF Safe, TypeOK
<1>4. SilenceInv' /\ RecordInv'
  BY <1>1, <1>3, ServiceKeeps
<1>n. now \in Nat
  BY DEF Safe, TypeOK
<1>5. KeyInv'
  BY <1>1, <1>n, KeyAsBefore, KeyKeeps
<1> QED
  BY <1>3, <1>4, <1>5 DEF Safe

\* SilenceAlert, up to its insert, and ClearSilence.
LEMMA RulesSafe ==
  ASSUME Safe, NEW d \in Device,
         \/ \E m \in Metric \cup {AllMetrics}, n \in Durations :
              SilenceStore(d, m, n) \/ SilenceClash(d, m, n)
         \/ ClearSilence(d)
  PROVE  Safe'
<1>1. /\ UNCHANGED <<now, thr, key, last, eval, alerts, broker, history>>
      /\ rpcs' = rpcs + 1
  BY DEF SilenceStore, SilenceClash, ClearSilence, Rpc
<1>n. now \in Nat /\ rpcs \in Nat
  BY DEF Safe, TypeOK
<1>2. /\ rules' \in SUBSET Rule /\ \A r \in rules' : r \in rules \/ r.id = rpcs
      /\ caching' \in SUBSET [id : Nat, dev : Device]
  <2>1. ASSUME NEW m \in Metric \cup {AllMetrics}, NEW n \in Durations, SilenceStore(d, m, n)
        PROVE  /\ rules' \in SUBSET Rule /\ \A r \in rules' : r \in rules \/ r.id = rpcs
               /\ caching' \in SUBSET [id : Nat, dev : Device]
    <3>1. n \in Int /\ n > 0
      BY <2>1, AlertAssumption DEF SilenceStore
    <3>2. now + n \in Nat
      BY <3>1, <1>n
    <3>3. [id |-> rpcs, dev |-> d, metric |-> m, until |-> now + n] \in Rule
      BY <3>2, <1>n DEF Rule
    <3> QED
      BY <2>1, <3>3, <1>n DEF SilenceStore, Safe, TypeOK
  <2>2. ASSUME NEW m \in Metric \cup {AllMetrics}, NEW n \in Durations, SilenceClash(d, m, n)
        PROVE  UNCHANGED <<rules, caching>>
    BY <2>2 DEF SilenceClash
  <2>3. CASE ClearSilence(d)
    BY <2>3 DEF ClearSilence, Safe, TypeOK
  <2> QED
    BY <2>1, <2>2, <2>3 DEF Safe, TypeOK
<1>3. TypeOK'
  BY <1>1, <1>2 DEF Safe, TypeOK
<1>4. SilenceInv' /\ RecordInv'
  BY <1>1, <1>2, <1>3, ServiceKeeps
<1>5. KeyInv'
  BY <1>1, <1>n, KeyAsBefore, KeyKeeps
<1> QED
  BY <1>3, <1>4, <1>5 DEF Safe

\* SilenceAlert sets the key, or fails to.
LEMMA SilenceCacheSafe == ASSUME Safe, NEW c \in caching, SilenceCache(c) PROVE Safe'
<1>1. /\ UNCHANGED <<now, thr, rules, rpcs, last, eval, alerts, broker, history>>
      /\ caching' \subseteq caching
  BY DEF SilenceCache
<1>n. now \in Nat /\ TTL \in Nat /\ c.dev \in Device
  BY AlertAssumption DEF Safe, TypeOK
<1>2. key' \in [Device -> Nat]
  <2>1. now + TTL \in Nat /\ key \in [Device -> Nat]
    BY <1>n DEF Safe, TypeOK
  <2>2. key' = [key EXCEPT ![c.dev] = now + TTL] \/ key' = key
    BY DEF SilenceCache
  <2> QED
    BY <2>1, <2>2, <1>n
<1>3. TypeOK'
  BY <1>1, <1>2 DEF Safe, TypeOK
<1>4. SilenceInv' /\ RecordInv'
  <2>1. /\ UNCHANGED <<now, since, point, pc, blind, quiet, cur, alerts, published>>
        /\ rpcs' = rpcs /\ rules' = rules
    BY <1>1
  <2> QED
    BY <1>3, <2>1, ServiceKeeps
<1>5. \A i \in DOMAIN marks : marks[i].at + TTL <= key'[marks[i].dev]
  BY <1>n, KeyAsBefore, KeySetNow DEF SilenceCache
<1>6. KeyInv'
  BY <1>1, <1>5, <1>n, KeyKeeps
<1> QED
  BY <1>3, <1>4, <1>6 DEF Safe

\* An evaluation begins under the rules that are in force.
LEMMA EvaluateSafe == ASSUME Safe, NEW e \in Eval, Evaluate(e) PROVE Safe'
<1>1. /\ UNCHANGED <<now, thr, rules, caching, rpcs, key, last, over, todo, cur, hit,
                     quiet, blind, alerts, broker, checks, marks>>
      /\ pc' = [pc EXCEPT ![e] = "thresholds"]
  BY DEF Evaluate
<1>2. PICK d \in Device, m \in Metric, v \in Values :
        /\ point' = [point EXCEPT ![e] = [dev |-> d, metric |-> m, value |-> v]]
        /\ since' = [since EXCEPT ![e] = {r \in InForce(d) : r.metric \in {AllMetrics, m}}]
  BY DEF Evaluate
<1>n. now \in Nat /\ v \in Int
  BY AlertAssumption DEF Safe, TypeOK
<1>3. point' \in [Eval -> Point]
  BY <1>2, <1>n DEF Safe, TypeOK, Point
<1>4. since' \in [Eval -> SUBSET Rule]
  BY <1>2 DEF Safe, TypeOK, InForce
<1>5. pc' \in [Eval -> Place]
  BY <1>1 DEF Safe, TypeOK, Place
<1>6. TypeOK'
  BY <1>1, <1>3, <1>4, <1>5 DEF Safe, TypeOK
<1>7. SilenceInv'
  <2>1. pc'[e] = "thresholds" /\ \A f \in Eval : f # e => pc'[f] = pc[f]
    BY <1>1 DEF Safe, TypeOK
  <2>2. /\ point'[e] = [dev |-> d, metric |-> m, value |-> v]
        /\ since'[e] = {r \in InForce(d) : r.metric \in {AllMetrics, m}}
        /\ \A f \in Eval : f # e => point'[f] = point[f] /\ since'[f] = since[f]
    BY <1>2 DEF Safe, TypeOK
  <2>3. SinceCovers'
    <3> SUFFICES ASSUME NEW f \in Eval, NEW r \in since'[f]
                 PROVE  r.id < rpcs /\ r.dev = point'[f].dev /\ Covers(r, point'[f].metric)
      BY <1>1 DEF SinceCovers, Covers
    <3>1. CASE f = e
      <4>1. r \in rules /\ r.dev = d /\ r.metric \in {AllMetrics, m}
        BY <3>1, <2>2 DEF InForce
      <4>2. r.id < rpcs
        BY <4>1 DEF Safe, SilenceInv, RulesAreOld
      <4> QED
        BY <3>1, <4>1, <4>2, <2>2 DEF Covers
    <3>2. CASE f # e
      BY <3>2, <2>2 DEF Safe, SilenceInv, SinceCovers
    <3> QED
      BY <3>1, <3>2
  <2>4. Heeded'
    BY <2>1, <2>2, <1>1 DEF Safe, SilenceInv, Heeded, InLoop
  <2>5. AnnouncesAloud'
    BY <2>1, <1>1 DEF Safe, SilenceInv, AnnouncesAloud
  <2>6. RulesAreOld'
    BY <1>1 DEF Safe, SilenceInv, RulesAreOld
  <2> QED
    BY <2>3, <2>4, <2>5, <2>6 DEF SilenceInv
<1>8. KeyInv'
  BY <1>1, <1>n, KeyAsBefore, KeyKeeps
<1>9. RecordInv'
  <2>1. \A f \in Eval : pc'[f] = "publish" => pc[f] = "publish"
    BY <1>1 DEF Safe, TypeOK
  <2> QED
    BY <1>1, <2>1, RecordKeeps
<1> QED
  BY <1>6, <1>7, <1>8, <1>9 DEF Safe

\* A step of one evaluation that sets no key and publishes nothing.
LEMMA EvalKeeps ==
  ASSUME Safe, NEW e \in Eval, NEW p \in Place, pc' = [pc EXCEPT ![e] = p],
         UNCHANGED <<now, rules, rpcs, key, since, point, quiet, blind, published, checks, marks>>,
         alerts \subseteq alerts', p # "publish",
         p \in InLoop => pc[e] \in InLoop, p = "insert" => ~quiet[e],
         \A f \in Eval : f # e => cur'[f] = cur[f]
  PROVE  SilenceInv' /\ KeyInv' /\ RecordInv'
<1>n. now \in Nat /\ rpcs \in Nat
  BY DEF Safe, TypeOK
<1>1. pc'[e] = p /\ \A f \in Eval : f # e => pc'[f] = pc[f]
  BY DEF Safe, TypeOK
<1>2. SilenceInv'
  <2>1. \A f \in Eval : pc'[f] \in InLoop => pc[f] \in InLoop
    BY <1>1
  <2>2. \A f \in Eval : pc'[f] \in {"insert", "publish"} => ~quiet[f]
    BY <1>1 DEF Safe, SilenceInv, AnnouncesAloud
  <2> QED
    BY <1>n, <2>1, <2>2, SilenceKeeps
<1>3. KeyInv'
  BY <1>n, KeyAsBefore, KeyKeeps
<1>4. RecordInv'
  BY <1>1, RecordKeeps
<1> QED
  BY <1>2, <1>3, <1>4

\* The thresholds are read, or not.
LEMMA ReadThresholdsSafe ==
  ASSUME Safe, NEW e \in Eval, ReadThresholds(e) \/ ReadThresholdsFails(e) \/ Finish(e)
  PROVE  Safe'
<1>1. UNCHANGED <<now, thr, rules, caching, rpcs, key, last, point, since, over,
                  cur, hit, quiet, blind, alerts, broker, checks, marks>>
  BY DEF ReadThresholds, ReadThresholdsFails, Finish
<1>2. todo' \in [Eval -> SUBSET Threshold]
  <2>1. todo \in [Eval -> SUBSET Threshold] /\ thr \in SUBSET Threshold
    BY DEF Safe, TypeOK
  <2>2. todo' = todo \/ \E S \in SUBSET thr : todo' = [todo EXCEPT ![e] = S]
    BY DEF ReadThresholds, ReadThresholdsFails, Finish
  <2> QED
    BY <2>1, <2>2
<1>3. PICK p \in {"done", "rules"} : pc' = [pc EXCEPT ![e] = p]
  BY DEF ReadThresholds, ReadThresholdsFails, Finish
<1>p. p \in Place /\ p \notin InLoop
  BY DEF Place, InLoop
<1>4. pc' \in [Eval -> Place]
  BY <1>3, <1>p DEF Safe, TypeOK
<1>5. TypeOK'
  BY <1>1, <1>2, <1>4 DEF Safe, TypeOK
<1>6. SilenceInv' /\ KeyInv' /\ RecordInv'
  BY <1>1, <1>3, <1>p, EvalKeeps
<1> QED
  BY <1>5, <1>6 DEF Safe

\* The next threshold is compared; the last value is stored.
LEMMA CompareSafe == ASSUME Safe, NEW e \in Eval, Compare(e) \/ StoreLast(e) PROVE Safe'
<1>1. UNCHANGED <<now, thr, rules, caching, rpcs, key, point, since, over,
                  quiet, blind, alerts, broker, checks, marks>>
  BY DEF Compare, StoreLast
<1>2. PICK p \in {"store", "fired", "loop"} : pc' = [pc EXCEPT ![e] = p]
  BY DEF Compare, StoreLast
<1>p. p \in Place /\ pc[e] \in InLoop
  BY DEF Place, InLoop, Compare, StoreLast
<1>3. pc' \in [Eval -> Place]
  BY <1>2, <1>p DEF Safe, TypeOK
<1>t. todo \in [Eval -> SUBSET Threshold] /\ cur \in [Eval -> Threshold]
  BY DEF Safe, TypeOK
<1>4. todo' \in [Eval -> SUBSET Threshold]
  <2>1. todo' = todo \/ \E t \in todo[e] : todo' = [todo EXCEPT ![e] = todo[e] \ {t}]
    BY <1>t DEF Compare, StoreLast, Rest
  <2> QED
    BY <2>1, <1>t
<1>5. cur' \in [Eval -> Threshold] /\ \A f \in Eval : f # e => cur'[f] = cur[f]
  <2>1. cur' = cur \/ \E t \in todo[e] : cur' = [cur EXCEPT ![e] = t]
    BY DEF Compare, StoreLast
  <2> QED
    BY <2>1, <1>t
<1>6. hit' \in [Eval -> BOOLEAN]
  <2>1. \A t, v, l : Triggers(t, v, l) \in BOOLEAN
    BY DEF Triggers
  <2>2. hit \in [Eval -> BOOLEAN]
    BY DEF Safe, TypeOK
  <2>3. hit' = hit \/ \E t \in todo[e] : hit' = [hit EXCEPT ![e] = Triggers(t, point[e].value, LastOf(e))]
    BY DEF Compare, StoreLast
  <2> QED
    BY <2>1, <2>2, <2>3
<1>7. last' \in [Device -> [Metric -> Int \cup {NoValue}]]
  <2>1. point[e].dev \in Device /\ point[e].metric \in Metric /\ point[e].value \in Int
    BY DEF Safe, TypeOK, Point
  <2>2. last \in [Device -> [Metric -> Int \cup {NoValue}]]
    BY DEF Safe, TypeOK
  <2>3. [last[point[e].dev] EXCEPT ![point[e].metric] = point[e].value]
          \in [Metric -> Int \cup {NoValue}]
    BY <2>1, <2>2
  <2>4. \/ last' = last
        \/ last' = [last EXCEPT ![point[e].dev] =
                      [last[point[e].dev] EXCEPT ![point[e].metric] = point[e].value]]
    BY <2>1, <2>2 DEF Compare, StoreLast
  <2> QED
    BY <2>1, <2>2, <2>3, <2>4
<1>8. TypeOK'
  BY <1>1, <1>3, <1>4, <1>5, <1>6, <1>7 DEF Safe, TypeOK
<1>9. SilenceInv' /\ KeyInv' /\ RecordInv'
  BY <1>1, <1>2, <1>p, <1>5, EvalKeeps
<1> QED
  BY <1>8, <1>9 DEF Safe

\* The alert is dropped, recorded as silenced, or lost in a failed insert.
LEMMA DroppedSafe ==
  ASSUME Safe, NEW e \in Eval,
         RecordSilenced(e) \/ Skip(e) \/ PassBlindly(e) \/ InsertAlertFails(e)
  PROVE  Safe'
<1>1. UNCHANGED <<now, thr, rules, caching, rpcs, key, last, point, since, over,
                  todo, cur, hit, quiet, blind, broker, checks, marks>>
  BY DEF RecordSilenced, Skip, PassBlindly, InsertAlertFails
<1>2. PICK p \in {"loop", "insert"} : /\ pc' = [pc EXCEPT ![e] = p]
                                      /\ p = "insert" => ~quiet[e]
  BY DEF RecordSilenced, Skip, PassBlindly, InsertAlertFails
<1>p. p \in Place /\ pc[e] \in InLoop
  BY DEF Place, InLoop, RecordSilenced, Skip, PassBlindly, InsertAlertFails
<1>3. pc' \in [Eval -> Place]
  BY <1>2, <1>p DEF Safe, TypeOK
<1>4. alerts' \in SUBSET Alert /\ alerts \subseteq alerts'
  BY AlertType DEF RecordSilenced, Skip, PassBlindly, InsertAlertFails, Safe, TypeOK
<1>6. TypeOK'
  BY <1>1, <1>3, <1>4 DEF Safe, TypeOK
<1>7. SilenceInv' /\ KeyInv' /\ RecordInv'
  BY <1>1, <1>2, <1>p, <1>4, EvalKeeps
<1> QED
  BY <1>6, <1>7 DEF Safe

\* The rules are read: none that the evaluation began under is in force, or the
\* alert will be silenced, or the query failed.
LEMMA ReadRulesSafe == ASSUME Safe, NEW e \in Eval, ReadRules(e) PROVE Safe'
<1>1. /\ UNCHANGED <<now, thr, rules, caching, rpcs, key, last, point, since,
                     over, todo, cur, hit, alerts, broker, checks, marks>>
      /\ pc' = [pc EXCEPT ![e] = "loop"]
  BY DEF ReadRules
<1>n. now \in Nat /\ rpcs \in Nat
  BY DEF Safe, TypeOK
<1>2. PICK a, b \in BOOLEAN :
        /\ quiet' = [quiet EXCEPT ![e] = a] /\ blind' = [blind EXCEPT ![e] = b]
        /\ ~a /\ ~b => ~\E r \in InForce(point[e].dev) : Covers(r, point[e].metric)
  <2>1. blind \in [Eval -> BOOLEAN]
    BY DEF Safe, TypeOK
  <2>2. CASE /\ quiet' = [quiet EXCEPT ![e] =
                            \E r \in InForce(point[e].dev) : Covers(r, point[e].metric)]
             /\ blind' = blind
    <3>1. blind' = [blind EXCEPT ![e] = blind[e]] /\ blind[e] \in BOOLEAN
      BY <2>1, <2>2
    <3>2. PICK a \in BOOLEAN :
            a = \E r \in InForce(point[e].dev) : Covers(r, point[e].metric)
      OBVIOUS
    <3> QED
      BY <2>2, <3>1, <3>2
  <2>3. CASE quiet' = [quiet EXCEPT ![e] = FALSE] /\ blind' = [blind EXCEPT ![e] = TRUE]
    BY <2>3
  <2> QED
    BY <2>2, <2>3 DEF ReadRules
<1>3. quiet' \in [Eval -> BOOLEAN] /\ blind' \in [Eval -> BOOLEAN]
  BY <1>2 DEF Safe, TypeOK
<1>4. pc' \in [Eval -> Place]
  BY <1>1 DEF Safe, TypeOK, Place, InLoop
<1>5. TypeOK'
  BY <1>1, <1>3, <1>4 DEF Safe, TypeOK
<1>6. /\ pc'[e] = "loop" /\ quiet'[e] = a /\ blind'[e] = b
      /\ \A f \in Eval : f # e => pc'[f] = pc[f] /\ quiet'[f] = quiet[f] /\ blind'[f] = blind[f]
  BY <1>1, <1>2 DEF Safe, TypeOK
<1>7. SilenceInv'
  <2>1. RulesAreOld' /\ SinceCovers'
    BY <1>1 DEF Safe, SilenceInv, RulesAreOld, SinceCovers, Covers
  <2>2. AnnouncesAloud'
    BY <1>6 DEF Safe, SilenceInv, AnnouncesAloud
  <2>3. Heeded'
    <3> SUFFICES ASSUME NEW f \in Eval, pc'[f] \in InLoop, ~blind'[f], ~quiet'[f],
                        NEW r \in since[f], r \in rules, r.until > now
                 PROVE  FALSE
      BY <1>1 DEF Heeded
    <3>1. CASE f = e
      <4>1. r \in InForce(point[e].dev) /\ Covers(r, point[e].metric)
        BY <3>1 DEF InForce, Safe, SilenceInv, SinceCovers
      <4> QED
        BY <3>1, <4>1, <1>2, <1>6
    <3>2. CASE f # e
      BY <3>2, <1>6 DEF Safe, SilenceInv, Heeded
    <3> QED
      BY <3>1, <3>2
  <2> QED
    BY <2>1, <2>2, <2>3 DEF SilenceInv
<1>8. KeyInv'
  BY <1>1, <1>n, KeyAsBefore, KeyKeeps
<1>9. RecordInv'
  BY <1>1, <1>6, RecordKeeps
<1> QED
  BY <1>5, <1>7, <1>8, <1>9 DEF Safe

\* An alert passes the check only when every key that was set has run out.
LEMMA PassSafe == ASSUME Safe, NEW e \in Eval, Pass(e) PROVE Safe'
<1> DEFINE d == point[e].dev
<1> DEFINE c == [dev |-> d, at |-> now, seen |-> Len(marks)]
<1>1. /\ UNCHANGED <<now, thr, rules, caching, rpcs, key, last, point, since,
                     over, todo, cur, hit, quiet, blind, alerts, broker, marks>>
      /\ pc' = [pc EXCEPT ![e] = "insert"] /\ checks' = checks \cup {c}
      /\ pc[e] = "fired" /\ ~quiet[e] /\ ~(key[d] > now)
  BY DEF Pass, Suppresses, KeySet
<1>n. now \in Nat /\ rpcs \in Nat /\ TTL \in Nat /\ d \in Device /\ key[d] \in Nat
  BY AlertAssumption DEF Safe, TypeOK, Point
<1>m. Len(marks) \in Nat /\ DOMAIN marks = 1..Len(marks)
  BY DEF Safe, TypeOK
<1>2. pc' \in [Eval -> Place]
  BY <1>1 DEF Safe, TypeOK, Place, InLoop
<1>3. checks' \in SUBSET [dev : Device, at : Nat, seen : Nat]
  BY <1>1, <1>n, <1>m DEF Safe, TypeOK
<1>4. TypeOK'
  BY <1>1, <1>2, <1>3 DEF Safe, TypeOK
<1>5. pc'[e] = "insert" /\ \A f \in Eval : f # e => pc'[f] = pc[f]
  BY <1>1 DEF Safe, TypeOK
<1>6. SilenceInv'
  <2>1. \A f \in Eval : pc'[f] \in InLoop => pc[f] \in InLoop
    BY <1>1, <1>5 DEF InLoop
  <2>2. \A f \in Eval : pc'[f] \in {"insert", "publish"} => ~quiet[f]
    BY <1>1, <1>5 DEF Safe, SilenceInv, AnnouncesAloud
  <2> QED
    BY <1>1, <1>n, <2>1, <2>2, SilenceKeeps
<1>7. RecordInv'
  BY <1>1, <1>5, RecordKeeps
<1>8. KeyInv'
  <2>1. \A i \in 1..Len(marks) : marks[i].dev = d => marks[i].at + TTL <= now
    <3> SUFFICES ASSUME NEW i \in 1..Len(marks), marks[i].dev = d PROVE marks[i].at + TTL <= now
      OBVIOUS
    <3>1. marks[i].at \in Nat
      BY <1>m, MarkType DEF Safe
    <3>2. marks[i].at + TTL <= key[d]
      BY <1>m, KeyAsBefore
    <3> QED
      BY <3>1, <3>2, <1>1, <1>n
  <2>2. QuietPeriod'
    <3> SUFFICES ASSUME NEW k \in checks', NEW i \in 1..k.seen, marks[i].dev = k.dev
                 PROVE  marks[i].at + TTL <= k.at
      BY <1>1 DEF QuietPeriod
    <3>1. CASE k \in checks
      BY <3>1 DEF Safe, KeyInv, QuietPeriod
    <3>2. CASE k = c
      BY <3>2, <2>1
    <3> QED
      BY <3>1, <3>2, <1>1
  <2>3. ChecksArePast'
    BY <1>1, <1>m DEF Safe, KeyInv, ChecksArePast
  <2>4. KeyOutlives'
    BY <1>1 DEF Safe, KeyInv, KeyOutlives
  <2> QED
    BY <2>2, <2>3, <2>4 DEF KeyInv
<1> QED
  BY <1>4, <1>6, <1>7, <1>8 DEF Safe

\* The alert is stored, and only then published.
LEMMA InsertAlertSafe == ASSUME Safe, NEW e \in Eval, InsertAlert(e) PROVE Safe'
<1>1. /\ UNCHANGED <<now, thr, rules, caching, rpcs, key, last, point, since,
                     over, todo, cur, hit, quiet, blind, broker, checks, marks>>
      /\ pc' = [pc EXCEPT ![e] = "publish"] /\ alerts' = alerts \cup {AlertOf(e)}
      /\ pc[e] = "insert"
  BY DEF InsertAlert
<1>n. now \in Nat /\ rpcs \in Nat
  BY DEF Safe, TypeOK
<1>2. pc' \in [Eval -> Place] /\ alerts' \in SUBSET Alert
  BY <1>1, AlertType DEF Safe, TypeOK, Place, InLoop
<1>3. TypeOK'
  BY <1>1, <1>2 DEF Safe, TypeOK
<1>4. pc'[e] = "publish" /\ \A f \in Eval : f # e => pc'[f] = pc[f]
  BY <1>1 DEF Safe, TypeOK
<1>5. SilenceInv'
  <2>1. \A f \in Eval : pc'[f] \in InLoop => pc[f] \in InLoop
    BY <1>1, <1>4 DEF InLoop
  <2>2. \A f \in Eval : pc'[f] \in {"insert", "publish"} => ~quiet[f]
    BY <1>1, <1>4 DEF Safe, SilenceInv, AnnouncesAloud
  <2> QED
    BY <1>1, <1>n, <2>1, <2>2, SilenceKeeps
<1>6. KeyInv'
  BY <1>1, <1>n, KeyAsBefore, KeyKeeps
<1>7. RecordInv'
  <2>1. PublishedIsRecorded'
    BY <1>1 DEF Safe, RecordInv, PublishedIsRecorded
  <2>2. RecordedFirst'
    BY <1>1, <1>4 DEF Safe, RecordInv, RecordedFirst, AlertOf
  <2> QED
    BY <2>1, <2>2 DEF RecordInv
<1> QED
  BY <1>3, <1>5, <1>6, <1>7 DEF Safe

\* What the broker gets is on record and not silenced.
LEMMA BrokerTakesSafe == ASSUME Safe, NEW e \in Eval, BrokerTakes(e) PROVE Safe'
<1>1. /\ UNCHANGED <<now, thr, rules, caching, rpcs, key, last, pc, point, since, over,
                     todo, cur, hit, quiet, blind, alerts, checks, marks, unacked, link>>
      /\ pc[e] = "publish" /\ published' = published \cup {AlertOf(e)}
      /\ repeated' \subseteq repeated \cup {AlertOf(e)} /\ taken' = taken \cup {e}
  BY DEF BrokerTakes
<1>n. now \in Nat /\ rpcs \in Nat /\ AlertOf(e) \in Alert
  BY AlertType DEF Safe, TypeOK
<1>2. published' \in SUBSET Alert /\ repeated' \in SUBSET Alert /\ taken' \in SUBSET Eval
  BY <1>1, <1>n DEF Safe, TypeOK
<1>3. TypeOK'
  BY <1>1, <1>2 DEF Safe, TypeOK
<1>4. SilenceInv'
  BY <1>1 DEF Safe, SilenceInv, RulesAreOld, SinceCovers, Covers, Heeded, AnnouncesAloud
<1>5. KeyInv'
  BY <1>1, <1>n, KeyAsBefore, KeyKeeps
<1>6. RecordInv'
  <2>1. AlertOf(e) \in alerts /\ ~AlertOf(e).silenced
    BY <1>1 DEF Safe, RecordInv, RecordedFirst, SilenceInv, AnnouncesAloud, AlertOf
  <2>2. PublishedIsRecorded'
    BY <1>1, <2>1 DEF Safe, RecordInv, PublishedIsRecorded
  <2>3. RecordedFirst'
    BY <1>1 DEF Safe, RecordInv, RecordedFirst, AlertOf
  <2> QED
    BY <2>2, <2>3 DEF RecordInv
<1> QED
  BY <1>3, <1>4, <1>5, <1>6 DEF Safe

\* The publication is acknowledged, or fails.
LEMMA PublishSafe ==
  ASSUME Safe, NEW e \in Eval, PublishAlert(e) \/ PublishFails(e) PROVE Safe'
<1>1. /\ UNCHANGED <<now, thr, rules, caching, rpcs, key, last, point, since, over,
                     todo, cur, hit, quiet, blind, alerts, checks, marks,
                     published, repeated, unacked, link>>
      /\ pc' = [pc EXCEPT ![e] = "mark"] /\ pc[e] = "publish"
      /\ taken' = taken \ {e}
  BY DEF PublishAlert, PublishFails
<1>2. "mark" \in Place /\ "mark" \in InLoop /\ pc[e] \in InLoop
  BY <1>1 DEF Place, InLoop
<1>3. pc' \in [Eval -> Place]
  BY <1>1, <1>2 DEF Safe, TypeOK
<1>4. TypeOK'
  BY <1>1, <1>3 DEF Safe, TypeOK
<1>5. SilenceInv' /\ KeyInv' /\ RecordInv'
  BY <1>1, <1>2, EvalKeeps
<1> QED
  BY <1>4, <1>5 DEF Safe

LEMMA AppendFacts ==
  ASSUME NEW S, NEW q \in Seq(S), NEW x \in S
  PROVE  /\ Append(q, x) \in Seq(S) /\ Len(q) \in Nat /\ Len(Append(q, x)) = Len(q) + 1
         /\ DOMAIN q = 1..Len(q) /\ DOMAIN Append(q, x) = 1..(Len(q) + 1)
         /\ \A i \in 1..Len(q) : Append(q, x)[i] = q[i]
         /\ Append(q, x)[Len(q) + 1] = x
OBVIOUS

\* The key is set after an alert, or not.
LEMMA SetKeySafe == ASSUME Safe, NEW e \in Eval, SetKey(e) PROVE Safe'
<1> DEFINE d == point[e].dev
<1> DEFINE x == [dev |-> d, at |-> now]
<1>1. /\ UNCHANGED <<now, thr, rules, caching, rpcs, last, point, since, over,
                     todo, cur, hit, quiet, blind, alerts, broker, checks>>
      /\ pc' = [pc EXCEPT ![e] = "loop"] /\ pc[e] = "mark"
  BY DEF SetKey
<1>2. \/ key' = [key EXCEPT ![d] = now + TTL] /\ marks' = Append(marks, x)
      \/ UNCHANGED <<key, marks>>
  BY DEF SetKey
<1>n. now \in Nat /\ rpcs \in Nat /\ TTL \in Nat /\ d \in Device
  BY AlertAssumption DEF Safe, TypeOK, Point
<1>x. x \in [dev : Device, at : Nat] /\ now + TTL \in Nat
  BY <1>n
<1>m. marks \in Seq([dev : Device, at : Nat]) /\ key \in [Device -> Nat]
  BY DEF Safe, TypeOK
<1>3. marks' \in Seq([dev : Device, at : Nat])
  <2>1. Append(marks, x) \in Seq([dev : Device, at : Nat])
    BY <1>x, <1>m, AppendFacts
  <2> QED
    BY <2>1, <1>2, <1>m
<1>4. key' \in [Device -> Nat]
  BY <1>2, <1>x, <1>m, <1>n
<1>5. pc' \in [Eval -> Place]
  BY <1>1 DEF Safe, TypeOK, Place, InLoop
<1>6. TypeOK'
  BY <1>1, <1>3, <1>4, <1>5 DEF Safe, TypeOK
<1>7. pc'[e] = "loop" /\ \A f \in Eval : f # e => pc'[f] = pc[f]
  BY <1>1 DEF Safe, TypeOK
<1>8. SilenceInv'
  <2>1. \A f \in Eval : pc'[f] \in InLoop => pc[f] \in InLoop
    BY <1>1, <1>7 DEF InLoop
  <2>2. \A f \in Eval : pc'[f] \in {"insert", "publish"} => ~quiet[f]
    BY <1>1, <1>7 DEF Safe, SilenceInv, AnnouncesAloud
  <2> QED
    BY <1>1, <1>n, <2>1, <2>2, SilenceKeeps
<1>9. RecordInv'
  BY <1>1, <1>7, RecordKeeps
<1>10. KeyInv'
  <2>1. CASE UNCHANGED <<key, marks>>
    BY <2>1, <1>1, <1>n, KeyAsBefore, KeyKeeps
  <2>2. CASE key' = [key EXCEPT ![d] = now + TTL] /\ marks' = Append(marks, x)
    <3>1. PICK n \in Nat :
            /\ n = Len(marks) /\ DOMAIN marks = 1..n
            /\ Len(marks') = n + 1 /\ DOMAIN marks' = 1..(n + 1)
            /\ \A i \in 1..n : marks'[i] = marks[i]
            /\ marks'[n + 1] = x
      <4>1. /\ Len(marks) \in Nat /\ Len(Append(marks, x)) = Len(marks) + 1
            /\ DOMAIN marks = 1..Len(marks) /\ DOMAIN Append(marks, x) = 1..(Len(marks) + 1)
            /\ \A i \in 1..Len(marks) : Append(marks, x)[i] = marks[i]
            /\ Append(marks, x)[Len(marks) + 1] = x
        BY <1>m, <1>x, AppendFacts
      <4> QED
        BY <2>2, <4>1, Zenon
    <3>2. \A k \in checks : k.seen \in Nat /\ k.seen <= n
      BY <3>1 DEF Safe, TypeOK, KeyInv, ChecksArePast
    <3>3. ChecksArePast'
      BY <1>1, <3>1, <3>2 DEF ChecksArePast
    <3>4. QuietPeriod'
      <4> SUFFICES ASSUME NEW k \in checks, NEW i \in 1..k.seen, marks'[i].dev = k.dev
                   PROVE  marks'[i].at + TTL <= k.at
        BY <1>1 DEF QuietPeriod
      <4>1. i \in 1..n
        BY <3>2
      <4>2. marks'[i] = marks[i]
        BY <4>1, <3>1
      <4> QED
        BY <4>2 DEF Safe, KeyInv, QuietPeriod
    <3>5. KeyOutlives'
      <4> SUFFICES ASSUME NEW i \in 1..(n + 1)
                   PROVE  marks'[i].at <= now /\ marks'[i].at + TTL <= key'[marks'[i].dev]
        BY <1>1, <3>1 DEF KeyOutlives
      <4>1. CASE i \in 1..n
        <5>1. marks'[i] = marks[i] /\ i \in DOMAIN marks
          BY <4>1, <3>1
        <5>2. marks[i].at <= now
          BY <5>1 DEF Safe, KeyInv, KeyOutlives
        <5>3. marks[i].at + TTL <= key'[marks[i].dev]
          BY <5>1, <2>2, <1>n, KeySetNow
        <5> QED
          BY <5>1, <5>2, <5>3
      <4>2. CASE i = n + 1
        <5>1. marks'[i] = x
          BY <4>2, <3>1
        <5>2. marks'[i].at = now /\ key'[marks'[i].dev] = now + TTL
          BY <5>1, <2>2, <1>m, <1>n
        <5> QED
          BY <5>2, <1>n
      <4> QED
        BY <4>1, <4>2
    <3> QED
      BY <3>3, <3>4, <3>5 DEF KeyInv
  <2> QED
    BY <1>2, <2>1, <2>2
<1> QED
  BY <1>6, <1>8, <1>9, <1>10 DEF Safe

\* Time, the connection, the end of a context, a restart, and stuttering.
LEMMA OtherSafe ==
  ASSUME Safe,
         \/ Tick \/ LinkDown \/ LinkUp \/ Crash \/ UNCHANGED vars
         \/ \E e \in Eval : ContextEnds(e)
  PROVE  Safe'
<1>1. UNCHANGED <<thr, rules, caching, rpcs, key, point, since, todo, cur, hit,
                  quiet, blind, alerts, published, checks, marks>>
  BY DEF Tick, LinkDown, LinkUp, Crash, ContextEnds, vars
<1>2. now \in Nat /\ now' \in Nat /\ now' >= now /\ rpcs \in Nat /\ rpcs' = rpcs
  BY <1>1 DEF Tick, LinkDown, LinkUp, Crash, ContextEnds, vars, Safe, TypeOK
<1>3. link' \in BOOLEAN /\ over' \in [Eval -> BOOLEAN]
  BY DEF Tick, LinkDown, LinkUp, Crash, ContextEnds, vars, Safe, TypeOK
<1>b. repeated' = repeated /\ taken' \subseteq taken /\ unacked' \in SUBSET Alert
  <2>1. \A f \in taken : AlertOf(f) \in Alert
    BY AlertType DEF Safe, TypeOK
  <2> QED
    BY <2>1 DEF Tick, LinkDown, LinkUp, Crash, ContextEnds, vars, Safe, TypeOK
<1>4. /\ pc' \in [Eval -> Place]
      /\ \A e \in Eval : pc'[e] = pc[e] \/ pc'[e] = "done"
  BY DEF Tick, LinkDown, LinkUp, Crash, ContextEnds, vars, Safe, TypeOK, Place
<1>5. last' \in [Device -> [Metric -> Int \cup {NoValue}]]
  BY DEF Tick, LinkDown, LinkUp, Crash, ContextEnds, vars, Safe, TypeOK
<1>6. TypeOK'
  BY <1>1, <1>2, <1>3, <1>b, <1>4, <1>5 DEF Safe, TypeOK
<1>7. SilenceInv'
  <2>1. \A e \in Eval : pc'[e] \in InLoop => pc[e] \in InLoop
    BY <1>4 DEF InLoop
  <2>2. \A e \in Eval : pc'[e] \in {"insert", "publish"} => ~quiet[e]
    BY <1>4 DEF Safe, SilenceInv, AnnouncesAloud
  <2> QED
    BY <1>1, <1>2, <2>1, <2>2, SilenceKeeps
<1>8. KeyInv'
  BY <1>1, <1>2, KeyAsBefore, KeyKeeps
<1>9. RecordInv'
  BY <1>1, <1>4, RecordKeeps
<1> QED
  BY <1>6, <1>7, <1>8, <1>9 DEF Safe

-----------------------------------------------------------------------------
\* Safe is an invariant of the alert system.
THEOREM SafeInvariant == Spec => []Safe
<1>1. ASSUME Safe, [Next]_vars PROVE Safe'
  <2>1. CASE ServiceStep
    BY <1>1, <2>1, ThresholdsSafe, RulesSafe DEF ServiceStep
  <2>2. CASE Caching
    BY <1>1, <2>2, SilenceCacheSafe DEF Caching
  <2>3. CASE Crash \/ Tick \/ LinkDown \/ LinkUp \/ UNCHANGED vars
    BY <1>1, <2>3, OtherSafe
  <2>4. ASSUME NEW e \in Eval,
               \/ Evaluate(e) \/ EvalStep(e) \/ Publishing(e) \/ PublishFails(e)
               \/ ContextEnds(e)
        PROVE  Safe'
    BY <1>1, <2>4, EvaluateSafe, ReadThresholdsSafe, ReadRulesSafe, CompareSafe, DroppedSafe,
       PassSafe, InsertAlertSafe, BrokerTakesSafe, PublishSafe, SetKeySafe, OtherSafe
       DEF EvalStep, Reading, Deciding, Reporting, Publishing
  <2> QED
    BY <1>1, <2>1, <2>2, <2>3, <2>4 DEF Next
<1> QED
  BY <1>1, InitSafe, PTL DEF Spec

\* The variables keep their types.
THEOREM TypeCorrect == Spec => []TypeOK
<1>1. Safe => TypeOK
  BY DEF Safe
<1> QED
  BY <1>1, SafeInvariant, PTL

\* A silence that stands keeps the alerts of the points that came under it from
\* being announced.
THEOREM Silencing == Spec => []SilenceHolds
<1>1. Safe => SilenceHolds
  BY DEF Safe, SilenceInv, Heeded, AnnouncesAloud, SilenceHolds, InLoop
<1> QED
  BY <1>1, SafeInvariant, PTL

\* An alert that passed the check of the key comes a TTL after those before it.
THEOREM QuietTime == Spec => []QuietPeriod
<1>1. Safe => QuietPeriod
  BY DEF Safe, KeyInv
<1> QED
  BY <1>1, SafeInvariant, PTL

\* Published alerts are on record.
THEOREM OnRecord == Spec => []PublishedIsRecorded
<1>1. Safe => PublishedIsRecorded
  BY DEF Safe, RecordInv
<1> QED
  BY <1>1, SafeInvariant, PTL

-----------------------------------------------------------------------------
(* Each threshold once, and changes between two points. *)

FoundAt(e) ==
  /\ pc[e] \in {"fired", "insert", "publish", "mark"} => hit[e]
  /\ pc[e] \in AtThreshold \cup {"mark"} /\ cur[e].type = "CHANGE" /\ hit[e]
       => \E f \in Eval \ {e} : pc[f] # "idle" /\ Differs(e, f)
  /\ pc[e] = "store" => cur[e].type = "CHANGE"

MeetsOnceAt(e) ==
  /\ \A t, u \in todo[e] : t.type = u.type => t = u
  /\ pc[e] \in AtThreshold => \A t \in todo[e] : t.type # cur[e].type

LEMMA InitSeries == Init => SeriesInv
<1> SUFFICES ASSUME Init PROVE SeriesInv OBVIOUS
<1>1. UniqueRows BY AlertAssumption DEF Init, UniqueRows
<1>2. MeetsOnce BY DEF Init, MeetsOnce, AtThreshold
<1>3. AnnouncedInv BY DEF Init, AnnouncedInv, AnnouncedBefore, SentForAReason
<1>4. LastIsPoint BY DEF Init, LastIsPoint
<1>5. FoundChange BY DEF Init, FoundChange, AtThreshold
<1> QED BY <1>1, <1>2, <1>3, <1>4, <1>5 DEF SeriesInv

\* A step after which the broker has no more than before, and nothing more is in
\* front of an evaluation: one that begins to publish has an alert that is new.
LEMMA AnnouncedKeeps ==
  ASSUME TypeOK, AnnouncedInv, published' = published, repeated' = repeated,
         unacked \subseteq unacked',
         \A g \in Eval :
           pc[g] \notin Early => pc'[g] \notin Early /\ ToCome(g)' \subseteq ToCome(g),
         \A g \in Eval : pc'[g] = "publish" =>
           /\ cur'[g] = cur[g] /\ quiet'[g] = quiet[g]
           /\ \/ pc[g] = "insert"
              \/ pc[g] = "publish" /\ (g \in taken => g \in taken' \/ AlertOf(g) \in unacked')
  PROVE  AnnouncedInv'
<1>1. \A x \in published : x.eval \in Eval BY DEF TypeOK, Alert
<1>2. AnnouncedBefore' BY <1>1 DEF AnnouncedInv, AnnouncedBefore
<1>3. SentForAReason'
  <2> SUFFICES ASSUME NEW g \in Eval, pc'[g] = "publish", AlertOf(g)' \in published
               PROVE  g \in taken' \/ AlertOf(g)' \in unacked'
    BY DEF SentForAReason
  <2>1. AlertOf(g)' = AlertOf(g) BY DEF AlertOf
  <2>2. CASE pc[g] = "insert"
    <3>1. AlertOf(g).eval = g /\ AlertOf(g).type = cur[g].type BY DEF AlertOf
    <3>2. cur[g].type \in ToCome(g) BY <2>2 DEF ToCome
    <3> QED BY <2>1, <3>1, <3>2 DEF AnnouncedInv, AnnouncedBefore
  <2>3. CASE pc[g] = "publish" /\ (g \in taken => g \in taken' \/ AlertOf(g) \in unacked')
    BY <2>1, <2>3 DEF AnnouncedInv, SentForAReason
  <2> QED BY <2>2, <2>3
<1>4. repeated' \subseteq unacked' BY DEF AnnouncedInv
<1> QED BY <1>2, <1>3, <1>4 DEF AnnouncedInv

\* A step that leaves lastValues alone.
LEMMA LastKeeps ==
  ASSUME LastIsPoint, last' = last,
         \A g \in Eval : ~Unwritten(g) => ~Unwritten(g)' /\ point'[g] = point[g]
  PROVE  LastIsPoint'
BY DEF LastIsPoint

\* A step after which the evaluation is at the threshold it was at, or at none.
LEMMA FoundKeeps ==
  ASSUME NEW e \in Eval, FoundAt(e),
         \A g \in Eval : pc[g] # "idle" => pc'[g] # "idle" /\ point'[g] = point[g],
         pc'[e] \in AtThreshold \cup {"mark"} =>
           /\ pc[e] \in AtThreshold \cup {"mark"} /\ cur'[e] = cur[e] /\ hit'[e] = hit[e]
           /\ pc'[e] # "store" => hit[e]
           /\ pc'[e] = "store" => pc[e] = "store"
  PROVE  FoundAt(e)'
<1>1. CASE pc'[e] \in AtThreshold \cup {"mark"}
  <2>1. pc[e] # "idle" BY <1>1 DEF AtThreshold
  <2>2. point'[e] = point[e] BY <2>1
  <2>3. ASSUME NEW f \in Eval \ {e}, pc[f] # "idle", Differs(e, f)
        PROVE  pc'[f] # "idle" /\ Differs(e, f)'
    BY <1>1, <2>2, <2>3 DEF Differs, SameSeries
  <2>4. cur'[e].type = "CHANGE" /\ hit'[e] => \E f \in Eval \ {e} : pc'[f] # "idle" /\ Differs(e, f)'
    BY <1>1, <2>3 DEF FoundAt
  <2>5. pc'[e] \in {"fired", "insert", "publish", "mark"} => hit'[e] BY <1>1
  <2>6. pc'[e] = "store" => cur'[e].type = "CHANGE" BY <1>1 DEF FoundAt
  <2> QED BY <2>4, <2>5, <2>6 DEF FoundAt
<1>2. CASE pc'[e] \notin AtThreshold \cup {"mark"}
  BY <1>2 DEF FoundAt, AtThreshold
<1> QED BY <1>1, <1>2

\* The conjuncts, evaluation by evaluation.
LEMMA Pointwise ==
  /\ FoundChange <=> \A e \in Eval : FoundAt(e)
  /\ MeetsOnce <=> \A e \in Eval : MeetsOnceAt(e)
  /\ FoundChange' <=> \A e \in Eval : FoundAt(e)'
  /\ MeetsOnce' <=> \A e \in Eval : MeetsOnceAt(e)'
BY DEF FoundChange, FoundAt, MeetsOnce, MeetsOnceAt

\* Nothing of an evaluation changes that the invariant looks at.
LEMMA SeriesFrame ==
  ASSUME TypeOK, SeriesInv, UniqueRows', UNCHANGED <<pc, point, todo, cur, quiet, hit, last>>,
         published' = published, repeated' = repeated, unacked \subseteq unacked',
         \A g \in taken : g \in taken' \/ AlertOf(g) \in unacked'
  PROVE  SeriesInv'
<1>1. AnnouncedInv'
  <2>1. \A g \in Eval : ToCome(g)' = ToCome(g) BY DEF ToCome
  <2>2. \A g \in Eval : g \in taken => g \in taken' \/ AlertOf(g) \in unacked' OBVIOUS
  <2> QED BY <2>1, <2>2, AnnouncedKeeps DEF SeriesInv, SentForAReason
<1>2. MeetsOnce' BY DEF SeriesInv, MeetsOnce
<1>3. LastIsPoint' BY DEF SeriesInv, LastIsPoint, Unwritten
<1>4. FoundChange' BY DEF SeriesInv, FoundChange, Differs, SameSeries
<1> QED BY <1>1, <1>2, <1>3, <1>4 DEF SeriesInv

\* An updated threshold has the key of the old one.
LEMMA ThresholdsSeries ==
  ASSUME Safe, SeriesInv, ServiceStep PROVE SeriesInv'
<1>1. UNCHANGED <<pc, point, todo, cur, quiet, hit, last, broker>>
  BY DEF ServiceStep, CreateThreshold, UpdateThreshold, DeleteThreshold, SilenceStore,
     SilenceClash, ClearSilence
<1>2. UniqueRows'
  <2>0. UniqueRows BY DEF SeriesInv
  <2>1. ASSUME NEW t \in Thresholds, CreateThreshold(t) PROVE UniqueRows'
    BY <2>0, <2>1 DEF UniqueRows, CreateThreshold, SameThreshold
  <2>2. ASSUME NEW t \in thr, DeleteThreshold(t) PROVE UniqueRows'
    BY <2>0, <2>2 DEF UniqueRows, DeleteThreshold
  <2>3. ASSUME NEW t \in thr, NEW u \in Updates, UpdateThreshold(t, u) PROVE UniqueRows'
    <3>1. thr' = (thr \ {t}) \cup {Apply(t, u)} BY <2>3 DEF UpdateThreshold
    <3>2. \A v : SameThreshold(Apply(t, u), v) <=> SameThreshold(t, v)
      BY DEF SameThreshold, Apply
    <3>3. \A v : SameThreshold(v, Apply(t, u)) <=> SameThreshold(v, t)
      BY DEF SameThreshold, Apply
    <3> QED BY <2>0, <3>1, <3>2, <3>3 DEF UniqueRows
  <2>4. ASSUME thr' = thr PROVE UniqueRows'
    BY <2>0, <2>4 DEF UniqueRows
  <2> QED BY <2>1, <2>2, <2>3, <2>4
          DEF ServiceStep, SilenceStore, SilenceClash, ClearSilence
<1> QED BY <1>1, <1>2, SeriesFrame DEF Safe

\* Steps of others.
LEMMA OtherSeries ==
  ASSUME Safe, SeriesInv,
         Caching \/ Tick \/ LinkDown \/ LinkUp \/ UNCHANGED vars \/ \E e \in Eval : ContextEnds(e)
  PROVE  SeriesInv'
<1>1. /\ UNCHANGED <<thr, pc, point, todo, cur, quiet, hit, last, published, repeated>>
      /\ unacked \subseteq unacked'
      /\ \A g \in taken : g \in taken' \/ AlertOf(g) \in unacked'
  BY DEF Caching, SilenceCache, Tick, LinkDown, LinkUp, ContextEnds, vars
<1>2. UniqueRows' BY <1>1 DEF SeriesInv, UniqueRows
<1> QED BY <1>1, <1>2, SeriesFrame DEF Safe

\* After a restart nothing is under way and lastValues is empty.
LEMMA CrashSeries == ASSUME Safe, Safe', SeriesInv, Crash PROVE SeriesInv'
<1>t. TypeOK BY DEF Safe
<1>1. UNCHANGED <<thr, point, todo, cur, hit, published, repeated, unacked>>
      /\ last' = [d \in Device |-> [m \in Metric |-> NoValue]]
  BY DEF Crash
<1>2. \A g \in Eval : pc'[g] = IF Live(g) THEN "done" ELSE pc[g]
  BY DEF Crash
<1>3. \A g \in Eval : pc'[g] \notin AtThreshold \cup {"mark"}
  BY <1>2 DEF AtThreshold, Live
<1>4. UniqueRows' BY <1>1 DEF SeriesInv, UniqueRows
<1>5. MeetsOnce' BY <1>1, <1>3 DEF SeriesInv, MeetsOnce
<1>6. AnnouncedInv'
  <2>1. \A g \in Eval : pc[g] \notin Early => pc'[g] \notin Early /\ ToCome(g)' \subseteq ToCome(g)
    BY <1>1, <1>2, <1>3 DEF Early, ToCome, AtThreshold
  <2>2. \A g \in Eval : pc'[g] # "publish" BY <1>3 DEF AtThreshold
  <2> QED BY <1>t, <1>1, <2>1, <2>2, AnnouncedKeeps DEF SeriesInv
<1>7. LastIsPoint' BY <1>1 DEF LastIsPoint
<1>8. FoundChange' BY <1>3 DEF FoundChange, AtThreshold
<1> QED BY <1>4, <1>5, <1>6, <1>7, <1>8 DEF SeriesInv

\* One evaluation moves on without meeting another threshold.
LEMMA MoveSeries ==
  ASSUME Safe, Safe', SeriesInv, NEW e \in Eval,
         UNCHANGED <<thr, point, todo, cur, hit, last, published, repeated, unacked>>,
         \A g \in Eval \ {e} : pc'[g] = pc[g] /\ quiet'[g] = quiet[g] /\ (g \in taken => g \in taken'),
         pc'[e] = "publish" => pc[e] = "insert" /\ quiet'[e] = quiet[e],
         pc[e] \notin {"idle", "store"}, pc'[e] \notin Early \cup {"store"},
         pc'[e] \in AtThreshold => pc[e] \in AtThreshold,
         pc'[e] \in {"fired", "insert"} => pc[e] \in {"fired", "insert"},
         pc'[e] = "mark" => pc[e] = "publish"
  PROVE  SeriesInv'
<1>t. TypeOK BY DEF Safe
<1>1. UniqueRows' BY DEF SeriesInv, UniqueRows
<1>2. MeetsOnce' BY DEF SeriesInv, MeetsOnce
<1>3. AnnouncedInv'
  <2>1. \A g \in Eval : pc[g] \notin Early => pc'[g] \notin Early /\ ToCome(g)' \subseteq ToCome(g)
    BY DEF ToCome, AtThreshold
  <2> QED BY <1>t, <2>1, AnnouncedKeeps DEF SeriesInv
<1>4. LastIsPoint'
  <2>1. \A g \in Eval : ~Unwritten(g) => ~Unwritten(g)'
    BY DEF Unwritten
  <2> QED BY <2>1, LastKeeps DEF SeriesInv
<1>5. FoundChange'
  <2>1. \A g \in Eval : FoundAt(g) BY Pointwise DEF SeriesInv
  <2>2. \A g \in Eval : pc[g] # "idle" => pc'[g] # "idle" /\ point'[g] = point[g]
    BY DEF Early
  <2>3. ASSUME NEW g \in Eval PROVE FoundAt(g)'
    <3>1. pc'[g] \in AtThreshold \cup {"mark"} =>
            /\ pc[g] \in AtThreshold \cup {"mark"} /\ cur'[g] = cur[g] /\ hit'[g] = hit[g]
            /\ pc'[g] # "store" => hit[g]
            /\ pc'[g] = "store" => pc[g] = "store"
      <4>1. CASE g = e
        <5>1. pc'[e] \in AtThreshold \cup {"mark"}
                => pc[e] \in AtThreshold \cup {"mark"} /\ pc[e] # "store"
          BY DEF AtThreshold
        <5>2. pc[e] \in {"fired", "insert", "publish", "mark"} => hit[e] BY <2>1 DEF FoundAt
        <5> QED BY <4>1, <5>1, <5>2 DEF AtThreshold
      <4>2. CASE g # e
        BY <4>2, <2>1 DEF FoundAt, AtThreshold
      <4> QED BY <4>1, <4>2
    <3> QED BY <2>1, <2>2, <3>1, FoundKeeps
  <2> QED BY <2>3, Pointwise
<1> QED BY <1>1, <1>2, <1>3, <1>4, <1>5 DEF SeriesInv

\* The steps that are such moves.
LEMMA MovesSeries ==
  ASSUME Safe, Safe', SeriesInv, NEW e \in Eval,
         \/ ReadThresholdsFails(e) \/ ReadRules(e)
         \/ RecordSilenced(e) \/ Skip(e) \/ Pass(e) \/ PassBlindly(e) \/ Finish(e)
         \/ InsertAlert(e) \/ InsertAlertFails(e) \/ SetKey(e)
         \/ PublishAlert(e) \/ PublishFails(e)
  PROVE  SeriesInv'
<1>t. pc \in [Eval -> Place] /\ quiet \in [Eval -> BOOLEAN] BY DEF Safe, TypeOK
<1>1. UNCHANGED <<thr, point, todo, cur, hit, last, published, repeated, unacked>>
  BY DEF ReadThresholdsFails, ReadRules, RecordSilenced, Skip, Pass, PassBlindly, Finish,
     InsertAlert, InsertAlertFails, SetKey, PublishAlert, PublishFails
<1>q. /\ \A g \in Eval \ {e} : quiet'[g] = quiet[g] /\ (g \in taken => g \in taken')
      /\ quiet' = quiet \/ pc[e] = "rules"
  BY <1>t DEF ReadThresholdsFails, ReadRules, RecordSilenced, Skip, Pass, PassBlindly, Finish,
     InsertAlert, InsertAlertFails, SetKey, PublishAlert, PublishFails
<1>2. /\ \A g \in Eval \ {e} : pc'[g] = pc[g]
      /\ \/ pc[e] \in {"thresholds", "rules", "loop", "fired", "insert", "mark"}
              /\ pc'[e] \in {"loop", "done"}
         \/ pc[e] = "fired" /\ pc'[e] = "insert"
         \/ pc[e] = "insert" /\ pc'[e] = "publish"
         \/ pc[e] = "publish" /\ pc'[e] = "mark"
  BY <1>t DEF ReadThresholdsFails, ReadRules, RecordSilenced, Skip, Pass, PassBlindly, Finish,
     InsertAlert, InsertAlertFails, SetKey, PublishAlert, PublishFails
<1>3. /\ pc[e] \notin {"idle", "store"} /\ pc'[e] \notin Early \cup {"store"}
      /\ pc'[e] \in AtThreshold => pc[e] \in AtThreshold
      /\ pc'[e] \in {"fired", "insert"} => pc[e] \in {"fired", "insert"}
      /\ pc'[e] = "mark" => pc[e] = "publish"
      /\ pc'[e] = "publish" => pc[e] = "insert" /\ quiet'[e] = quiet[e]
  BY <1>2, <1>q DEF Early, AtThreshold
<1> QED BY <1>1, <1>q, <1>2, <1>3, MoveSeries

\* An evaluation begins, and reads its thresholds: the rows of one device and
\* metric differ in their types.
LEMMA BeginSeries ==
  ASSUME Safe, Safe', SeriesInv, NEW e \in Eval, Evaluate(e) \/ ReadThresholds(e)
  PROVE  SeriesInv'
<1>t. TypeOK /\ TypeOK' BY DEF Safe
<1>1. /\ UNCHANGED <<thr, cur, hit, quiet, last, broker>>
      /\ \A g \in Eval \ {e} : pc'[g] = pc[g] /\ todo'[g] = todo[g] /\ point'[g] = point[g]
      /\ pc[e] \in {"idle", "thresholds"}
      /\ pc'[e] \in {"thresholds", "rules", "done"}
      /\ pc[e] = "thresholds" => point'[e] = point[e]
  BY <1>t DEF Evaluate, ReadThresholds, TypeOK
<1>2. UniqueRows' BY <1>1 DEF SeriesInv, UniqueRows
<1>3. MeetsOnce'
  <2>1. \A t, u \in todo'[e] : t.type = u.type => t = u
    <3>1. CASE Evaluate(e) BY <3>1 DEF Evaluate, SeriesInv, MeetsOnce
    <3>2. CASE ReadThresholds(e)
      <4>1. todo'[e] = {t \in thr : t.dev = point[e].dev /\ t.metric = point[e].metric /\ t.on}
        BY <1>t, <3>2 DEF ReadThresholds, TypeOK
      <4> QED BY <4>1 DEF SeriesInv, UniqueRows, SameThreshold
    <3> QED BY <3>1, <3>2
  <2>2. MeetsOnceAt(e)' BY <1>1, <2>1 DEF MeetsOnceAt, AtThreshold
  <2>3. \A g \in Eval \ {e} : MeetsOnceAt(g)'
    BY <1>1 DEF SeriesInv, MeetsOnce, MeetsOnceAt
  <2> QED BY <2>2, <2>3, Pointwise
<1>4. AnnouncedInv'
  <2>1. \A g \in Eval : pc[g] \notin Early => pc'[g] \notin Early /\ ToCome(g)' \subseteq ToCome(g)
    BY <1>1 DEF ToCome, Early
  <2>2. \A g \in Eval : pc'[g] = "publish" => pc[g] = "publish" BY <1>1
  <2> QED BY <1>t, <1>1, <2>1, <2>2, AnnouncedKeeps DEF SeriesInv
<1>5. LastIsPoint'
  <2>1. \A g \in Eval : ~Unwritten(g) => ~Unwritten(g)' /\ point'[g] = point[g]
    BY <1>1 DEF Unwritten, Early
  <2> QED BY <1>1, <2>1, LastKeeps DEF SeriesInv
<1>6. FoundChange'
  <2>1. \A g \in Eval : FoundAt(g) BY Pointwise DEF SeriesInv
  <2>2. \A g \in Eval : pc[g] # "idle" => pc'[g] # "idle" /\ point'[g] = point[g]
    BY <1>1
  <2>3. ASSUME NEW g \in Eval PROVE FoundAt(g)'
    <3>1. CASE g = e BY <1>1, <3>1 DEF FoundAt, AtThreshold
    <3>2. CASE g # e
      <4>1. pc'[g] = pc[g] /\ cur'[g] = cur[g] /\ hit'[g] = hit[g] BY <1>1, <3>2
      <4>2. pc[g] \in AtThreshold \cup {"mark"} /\ pc[g] # "store" => hit[g]
        BY <2>1 DEF FoundAt, AtThreshold
      <4> QED BY <2>1, <2>2, <4>1, <4>2, FoundKeeps
    <3> QED BY <3>1, <3>2
  <2> QED BY <2>3, Pointwise
<1> QED BY <1>2, <1>3, <1>4, <1>5, <1>6 DEF SeriesInv

\* An evaluation meets a threshold.  If that is a CHANGE, the evaluation has not
\* written lastValues, so what it finds there is another one's.
LEMMA CompareSeries ==
  ASSUME Safe, Safe', SeriesInv, NEW e \in Eval, Compare(e) PROVE SeriesInv'
<1>t. TypeOK /\ TypeOK' BY DEF Safe
<1>0. PICK t \in todo[e] :
        /\ todo' = [todo EXCEPT ![e] = todo[e] \ {t}]
        /\ cur' = [cur EXCEPT ![e] = t]
        /\ hit' = [hit EXCEPT ![e] = Triggers(t, point[e].value, LastOf(e))]
        /\ pc' = [pc EXCEPT ![e] = IF t.type = "CHANGE" THEN "store"
                                   ELSE IF hit'[e] THEN "fired" ELSE "loop"]
  BY DEF Compare, Rest
<1>1. /\ UNCHANGED <<thr, point, last, quiet, broker>> /\ pc[e] = "loop"
      /\ \A g \in Eval \ {e} : /\ pc'[g] = pc[g] /\ todo'[g] = todo[g]
                               /\ cur'[g] = cur[g] /\ hit'[g] = hit[g]
      /\ todo'[e] = todo[e] \ {t} /\ cur'[e] = t
      /\ hit'[e] = Triggers(t, point[e].value, LastOf(e))
      /\ pc'[e] = IF t.type = "CHANGE" THEN "store" ELSE IF hit'[e] THEN "fired" ELSE "loop"
  BY <1>t, <1>0 DEF Compare, TypeOK
<1>2. UniqueRows' BY <1>1 DEF SeriesInv, UniqueRows
<1>3. MeetsOnce'
  <2>1. \A u, v \in todo[e] : u.type = v.type => u = v BY DEF SeriesInv, MeetsOnce
  <2>2. MeetsOnceAt(e)' BY <1>1, <2>1 DEF MeetsOnceAt
  <2>3. \A g \in Eval \ {e} : MeetsOnceAt(g)'
    BY <1>1 DEF SeriesInv, MeetsOnce, MeetsOnceAt
  <2> QED BY <2>2, <2>3, Pointwise
<1>4. AnnouncedInv'
  <2>1. pc'[e] \notin Early /\ pc'[e] # "publish" BY <1>1 DEF Early
  <2>2. ToCome(e)' \subseteq ToCome(e) BY <1>1 DEF ToCome
  <2>3. \A g \in Eval \ {e} : ToCome(g)' = ToCome(g) BY <1>1 DEF ToCome
  <2>4. \A g \in Eval : pc'[g] = "publish" => pc[g] = "publish" /\ cur'[g] = cur[g]
    BY <1>1, <2>1
  <2>5. \A g \in Eval :
          pc[g] \notin Early => pc'[g] \notin Early /\ ToCome(g)' \subseteq ToCome(g)
    BY <1>1, <2>1, <2>2, <2>3
  <2> QED BY <1>t, <1>1, <2>4, <2>5, AnnouncedKeeps DEF SeriesInv
<1>5. LastIsPoint'
  <2>1. Unwritten(e) \/ ~Unwritten(e)'
    BY <1>1 DEF Unwritten, Early
  <2>2. \A g \in Eval : ~Unwritten(g) => ~Unwritten(g)' /\ point'[g] = point[g]
    BY <1>1, <2>1 DEF Unwritten
  <2> QED BY <1>1, <2>2, LastKeeps DEF SeriesInv
<1>6. FoundChange'
  <2>1. \A g \in Eval : FoundAt(g) BY Pointwise DEF SeriesInv
  <2>2. \A g \in Eval : pc[g] # "idle" => pc'[g] # "idle" /\ point'[g] = point[g]
    BY <1>1
  <2>3. ASSUME NEW g \in Eval \ {e} PROVE FoundAt(g)'
    <3>1. pc'[g] = pc[g] /\ cur'[g] = cur[g] /\ hit'[g] = hit[g] BY <1>1
    <3>2. pc[g] \in AtThreshold \cup {"mark"} /\ pc[g] # "store" => hit[g]
      BY <2>1 DEF FoundAt, AtThreshold
    <3> QED BY <2>1, <2>2, <3>1, <3>2, FoundKeeps
  <2>4. ASSUME t.type = "CHANGE", hit'[e]
        PROVE  \E f \in Eval \ {e} : pc'[f] # "idle" /\ Differs(e, f)'
    <3>1. point[e].dev \in Device /\ point[e].metric \in Metric BY <1>t DEF TypeOK, Point
    <3>2. Changed(t.pct, point[e].value, LastOf(e)) BY <1>1, <2>4 DEF Triggers
    <3>3. LastOf(e) # NoValue BY <3>2 DEF Changed
    <3>4. PICK f \in Eval : /\ ~Unwritten(f)
                            /\ point[f] = [dev |-> point[e].dev, metric |-> point[e].metric,
                                           value |-> LastOf(e)]
      BY <3>1, <3>3 DEF SeriesInv, LastIsPoint, LastOf
    <3>5. f # e /\ pc[f] # "idle" BY <2>4, <3>4 DEF Unwritten, Early
    <3>6. /\ point[f].dev = point[e].dev /\ point[f].metric = point[e].metric
          /\ point[f].value = LastOf(e)
      BY <3>4
    <3>7. Differs(e, f)' BY <1>1, <3>2, <3>6 DEF Differs, SameSeries
    <3> QED BY <1>1, <3>5, <3>7
  <2>5. FoundAt(e)' BY <1>1, <2>4 DEF FoundAt, AtThreshold
  <2> QED BY <2>3, <2>5, Pointwise
<1> QED BY <1>2, <1>3, <1>4, <1>5, <1>6 DEF SeriesInv

\* The evaluation writes its value and will not read lastValues again.
LEMMA StoreLastSeries ==
  ASSUME Safe, Safe', SeriesInv, NEW e \in Eval, StoreLast(e) PROVE SeriesInv'
<1>t. TypeOK /\ TypeOK' BY DEF Safe
<1>1. /\ UNCHANGED <<thr, point, todo, cur, hit, quiet, broker>> /\ pc[e] = "store"
      /\ \A g \in Eval \ {e} : pc'[g] = pc[g]
      /\ pc'[e] = IF hit[e] THEN "fired" ELSE "loop"
  BY <1>t DEF StoreLast, TypeOK
<1>2. UniqueRows' BY <1>1 DEF SeriesInv, UniqueRows
<1>3. MeetsOnce' BY <1>1 DEF SeriesInv, MeetsOnce, AtThreshold
<1>4. AnnouncedInv'
  <2>1. \A g \in Eval : pc[g] \notin Early => pc'[g] \notin Early /\ ToCome(g)' \subseteq ToCome(g)
    BY <1>1 DEF ToCome, Early
  <2>2. \A g \in Eval : pc'[g] = "publish" => pc[g] = "publish" BY <1>1
  <2> QED BY <1>t, <1>1, <2>1, <2>2, AnnouncedKeeps DEF SeriesInv
<1>5. LastIsPoint'
  <2>1. cur[e].type = "CHANGE" /\ \A t \in todo[e] : t.type # "CHANGE"
    BY <1>1 DEF SeriesInv, FoundChange, MeetsOnce, AtThreshold
  <2>2. ~Unwritten(e)' BY <1>1, <2>1 DEF Unwritten, Early
  <2>3. \A g \in Eval : ~Unwritten(g) => ~Unwritten(g)'
    BY <1>1, <2>2 DEF Unwritten
  <2>4. point[e] \in [dev : Device, metric : Metric, value : Int] BY <1>t DEF TypeOK, Point
  <2>5. \A d \in Device, m \in Metric :
          last'[d][m] = IF d = point[e].dev /\ m = point[e].metric THEN point[e].value
                        ELSE last[d][m]
    BY <1>t, <2>4 DEF StoreLast, TypeOK
  <2>6. point[e] = [dev |-> point[e].dev, metric |-> point[e].metric, value |-> point[e].value]
    BY <2>4
  <2>7. ASSUME NEW d \in Device, NEW m \in Metric, last'[d][m] # NoValue
        PROVE  \E f \in Eval : /\ ~Unwritten(f)'
                               /\ point[f] = [dev |-> d, metric |-> m, value |-> last'[d][m]]
    <3>1. CASE d = point[e].dev /\ m = point[e].metric
      BY <2>2, <2>5, <2>6, <3>1
    <3>2. CASE ~(d = point[e].dev /\ m = point[e].metric)
      <4>1. last'[d][m] = last[d][m] BY <2>5, <3>2
      <4> QED BY <2>3, <2>7, <4>1 DEF SeriesInv, LastIsPoint
    <3> QED BY <3>1, <3>2
  <2> QED BY <1>1, <2>7 DEF LastIsPoint
<1>6. FoundChange'
  <2>1. \A g \in Eval : FoundAt(g) BY Pointwise DEF SeriesInv
  <2>2. \A g \in Eval : pc[g] # "idle" => pc'[g] # "idle" /\ point'[g] = point[g]
    BY <1>1
  <2>3. ASSUME NEW g \in Eval PROVE FoundAt(g)'
    <3>1. pc[g] \in AtThreshold \cup {"mark"} /\ pc[g] # "store" => hit[g]
      BY <2>1 DEF FoundAt, AtThreshold
    <3>2. pc'[g] \in AtThreshold \cup {"mark"} =>
            /\ pc[g] \in AtThreshold \cup {"mark"} /\ cur'[g] = cur[g] /\ hit'[g] = hit[g]
            /\ pc'[g] # "store" => hit[g]
            /\ pc'[g] = "store" => pc[g] = "store"
      BY <1>1, <3>1 DEF AtThreshold
    <3> QED BY <2>1, <2>2, <3>2, FoundKeeps
  <2> QED BY <2>3, Pointwise
<1> QED BY <1>2, <1>3, <1>4, <1>5, <1>6 DEF SeriesInv

\* The broker takes an alert.  It has it already only when the connection was
\* lost before the acknowledgement came.
LEMMA BrokerTakesSeries ==
  ASSUME Safe, Safe', SeriesInv, NEW e \in Eval, BrokerTakes(e) PROVE SeriesInv'
<1>1. /\ UNCHANGED <<thr, pc, point, todo, cur, hit, quiet, last, unacked>>
      /\ pc[e] = "publish" /\ e \notin taken
      /\ published' = published \cup {AlertOf(e)}
      /\ repeated' = repeated \cup ({AlertOf(e)} \cap published)
      /\ taken' = taken \cup {e}
  BY DEF BrokerTakes
<1>2. UniqueRows' BY <1>1 DEF SeriesInv, UniqueRows
<1>3. MeetsOnce' BY <1>1 DEF SeriesInv, MeetsOnce
<1>4. LastIsPoint' BY <1>1 DEF SeriesInv, LastIsPoint, Unwritten
<1>5. FoundChange' BY <1>1 DEF SeriesInv, FoundChange, Differs, SameSeries
<1>6. AlertOf(e).eval = e /\ AlertOf(e).type = cur[e].type /\ AlertOf(e)' = AlertOf(e)
  BY <1>1 DEF AlertOf
<1>7. AnnouncedBefore'
  <2>1. \A g : ToCome(g)' = ToCome(g) BY <1>1 DEF ToCome
  <2>2. \A x \in published : pc[x.eval] \notin Early /\ x.type \notin ToCome(x.eval)
    BY DEF SeriesInv, AnnouncedInv, AnnouncedBefore
  <2>3. pc[e] \notin Early /\ cur[e].type \notin ToCome(e)
    BY <1>1 DEF SeriesInv, MeetsOnce, AtThreshold, ToCome, Early
  <2> QED BY <1>1, <1>6, <2>1, <2>2, <2>3 DEF AnnouncedBefore
<1>8. SentForAReason'
  <2> SUFFICES ASSUME NEW g \in Eval, pc[g] = "publish", AlertOf(g)' \in published'
               PROVE  g \in taken' \/ AlertOf(g)' \in unacked
    BY <1>1 DEF SentForAReason
  <2>1. AlertOf(g)' = AlertOf(g) /\ AlertOf(g).eval = g BY <1>1 DEF AlertOf
  <2>2. CASE g = e BY <1>1, <2>2
  <2>3. CASE g # e
    <3>1. AlertOf(g) \in published BY <1>1, <1>6, <2>1, <2>3
    <3> QED BY <1>1, <2>1, <3>1 DEF SeriesInv, AnnouncedInv, SentForAReason
  <2> QED BY <2>2, <2>3
<1>9. repeated' \subseteq unacked'
  <2>1. AlertOf(e) \in published => AlertOf(e) \in unacked
    BY <1>1 DEF SeriesInv, AnnouncedInv, SentForAReason
  <2> QED BY <1>1, <2>1 DEF SeriesInv, AnnouncedInv
<1> QED BY <1>2, <1>3, <1>4, <1>5, <1>7, <1>8, <1>9 DEF SeriesInv, AnnouncedInv

\* An evaluation meets every type of threshold once, and lastValues holds values
\* of points whose evaluations will not read it again.
THEOREM SeriesInvariant == Spec => []SeriesInv
<1>1. ASSUME Safe, Safe', SeriesInv, [Next]_vars PROVE SeriesInv'
  <2>1. CASE ServiceStep BY <1>1, <2>1, ThresholdsSeries
  <2>2. CASE Crash BY <1>1, <2>2, CrashSeries
  <2>3. CASE Caching \/ Tick \/ LinkDown \/ LinkUp \/ UNCHANGED vars
    BY <1>1, <2>3, OtherSeries
  <2>4. ASSUME NEW e \in Eval,
               \/ Evaluate(e) \/ EvalStep(e) \/ Publishing(e) \/ PublishFails(e)
               \/ ContextEnds(e)
        PROVE  SeriesInv'
    BY <1>1, <2>4, BeginSeries, MovesSeries, CompareSeries, StoreLastSeries,
       BrokerTakesSeries, OtherSeries DEF EvalStep, Reading, Deciding, Reporting, Publishing
  <2> QED BY <1>1, <2>1, <2>2, <2>3, <2>4 DEF Next
<1> QED BY <1>1, InitSeries, SafeInvariant, PTL DEF Spec

\* However thresholds change meanwhile and however often the key expires, one
\* point is published once for each type of threshold, and the broker gets the
\* alert again only after the connection was lost between receipt and answer.
THEOREM OneAnnouncement == Spec => []AnnouncedOnce
<1>1. ASSUME SeriesInv PROVE AnnouncedOnce
  <2>1. ASSUME NEW e \in Eval, pc[e] = "insert" PROVE AlertOf(e) \notin published
    <3>1. AlertOf(e).eval = e /\ AlertOf(e).type = cur[e].type BY DEF AlertOf
    <3>2. cur[e].type \in ToCome(e) BY <2>1 DEF ToCome
    <3> QED BY <1>1, <3>1, <3>2 DEF SeriesInv, AnnouncedInv, AnnouncedBefore
  <2> QED BY <1>1, <2>1 DEF AnnouncedOnce, SeriesInv, AnnouncedInv
<1> QED BY <1>1, SeriesInvariant, PTL

\* Whatever the order in which goroutines read and write lastValues, a CHANGE
\* alert is about two points of one series that differ by more than the threshold.
THEOREM RealChange == Spec => []ChangeIsReal
<1>1. SeriesInv => ChangeIsReal
  BY DEF SeriesInv, FoundChange, ChangeIsReal, AtThreshold
<1> QED BY <1>1, SeriesInvariant, PTL
=============================================================================
