--------------------------- MODULE KafkaPublisher ---------------------------
(***************************************************************************)
(* publish/kafka: mtPublisher.Publish, called concurrently by the HTTP     *)
(* handlers and by the carbon input.  Every metric of a batch goes to      *)
(* every topic whose filters let it pass, under the org id the topic       *)
(* rewrites it to: as a full MetricData, or as a short MetricPoint when    *)
(* the key cache has seen its key.                                         *)
(*                                                                         *)
(* One step handles one metric for one topic: the key cache is all that    *)
(* the loop shares with other goroutines.  The key cache is the one        *)
(* SeenFilter specifies.  Orgs are numbers, 0 stands for "not configured". *)
(***************************************************************************)
EXTENDS Naturals, Sequences

CONSTANTS
  Publishers,    \* goroutines that may call Publish
  Keys,          \* [org, name]: the Ids that MKeyFromString can parse
  NoId,          \* the Id of a metric for which SetId was not called
  Setups         \* how a process may be started and used: [flags, callers,
                 \* batches, mayFail], the command line, the goroutines that
                 \* call Publish, the sequences of metrics they pass and
                 \* whether Kafka may reject messages

OrgIds == {k.org : k \in Keys}
Names == {k.name : k \in Keys}
MetricData == [org : OrgIds, name : Names, interval : BOOLEAN, id : Keys \cup {NoId}]

\* Every Id that SetId makes can be parsed.  The lists are what strings.Split
\* and the parsing of org ids make of the flags: there is at least one topic.
ASSUME PublisherAssumption ==
  /\ Keys = [org : OrgIds, name : Names] /\ OrgIds \subseteq Nat
  /\ \A s \in Setups :
       /\ s.callers \subseteq Publishers
       /\ \A b \in s.batches : b \in Seq(MetricData) /\ b # <<>>
       /\ s.flags.topics \in Seq(STRING) /\ s.flags.topics # <<>>
       /\ s.flags.onlyOrgIds \in Seq(Nat)
       /\ s.flags.discardPrefixes \in Seq(SUBSET Names)
       /\ s.flags.rewriteOrgId \in Seq({<<>>} \cup (Nat \X OrgIds))

VARIABLES
  setup,     \* the setup of this process
  topics,    \* mtPublisher.topics: a sequence of topic settings
  seen,      \* the keys the key cache may remember
  pc,        \* "idle", "build" or "send"
  batch,     \* the metrics being published: the caller's own objects
  given,     \* the batch as the caller passed it
  at,        \* the loops' position: at.m in the batch, at.t in the topics
  payload,   \* the messages built
  unsent,    \* indices of the messages SendMessages has not dealt with
  err,       \* SendMessages has met an error
  defined,   \* defined[t]: keys whose MetricData has reached topic t
  pointed    \* pointed[t]: keys of which a MetricPoint has reached topic t

process == <<setup, topics>>
wvars == <<pc, batch, given, at, payload, unsent, err>>
vars == <<process, seen, wvars, defined, pointed>>

Filter == INSTANCE SeenFilter WITH answer <- NoId, NoAnswer <- NoId

Start == [m |-> 1, t |-> 1]

\* parseTopicSettings accepts the lists: one only-org-id serves every topic,
\* discard prefixes and rewrites are given for all topics or for none.
Parses(flags) ==
  LET n == Len(flags.topics) IN
  /\ Len(flags.schemes) \in {1, n}
  /\ Len(flags.onlyOrgIds) \in {0, 1, n}
  /\ Len(flags.discardPrefixes) \in {0, n}
  /\ Len(flags.rewriteOrgId) \in {0, n}

\* The settings it makes of them; <<>> among the rewrites is an empty one.
ParseTopicSettings(flags) ==
  LET Rewriting(t) == flags.rewriteOrgId # <<>> /\ flags.rewriteOrgId[t] # <<>> IN
  [t \in DOMAIN flags.topics |->
     [onlyOrgId |-> CASE flags.onlyOrgIds = <<>> -> 0
                      [] Len(flags.onlyOrgIds) = 1 -> flags.onlyOrgIds[1]
                      [] OTHER -> flags.onlyOrgIds[t],
      discard   |-> IF flags.discardPrefixes = <<>> THEN {} ELSE flags.discardPrefixes[t],
      source    |-> IF Rewriting(t) THEN flags.rewriteOrgId[t][1] ELSE 0,
      target    |-> IF Rewriting(t) THEN flags.rewriteOrgId[t][2] ELSE 0]]

\* New: a process whose flags do not parse ends at once.
Init ==
  /\ setup \in {s \in Setups : Parses(s.flags)}
  /\ topics = ParseTopicSettings(setup.flags)
  /\ seen = {}
  /\ pc = [w \in Publishers |-> "idle"]
  /\ batch = [w \in Publishers |-> <<>>]
  /\ given = [w \in Publishers |-> <<>>]
  /\ at = [w \in Publishers |-> Start]
  /\ payload = [w \in Publishers |-> <<>>]
  /\ unsent = [w \in Publishers |-> {}]
  /\ err = [w \in Publishers |-> FALSE]
  /\ defined = [t \in DOMAIN topics |-> {}]
  /\ pointed = [t \in DOMAIN topics |-> {}]

-----------------------------------------------------------------------------
(* Metrics and topics *)

SetId(metric) == [metric EXCEPT !.id = [org |-> metric.org, name |-> metric.name]]

\* Do the topic's discard prefixes and its only-org-id let the metric pass?
Passes(metric, topic) ==
  /\ metric.name \notin topic.discard
  /\ topic.onlyOrgId \in {0, metric.org}

\* The metric under the org id the topic wants.
Rewrite(metric, topic) ==
  IF metric.org = topic.source THEN SetId([metric EXCEPT !.org = topic.target]) ELSE metric

\* Mutant: the caller's metric keeps the org of the topic.
NoRestore(metric, original) == metric

\* The caller's org id again, once the message is built.
Restore(metric, original) ==
  IF metric.org # original.org THEN SetId([metric EXCEPT !.org = original.org]) ELSE metric

Metric(w) == batch[w][at[w].m]
Topic(w) == topics[at[w].t]

\* Mutant: no mdBufferCache, the key cache is asked for every topic.
NotBuffered(w, org) == {}

\* mdBufferCache: the formats already chosen for the current metric and org.
Buffered(w, org) ==
  {p.full : p \in {payload[w][i] : i \in {j \in DOMAIN payload[w] :
                     payload[w][j].m = at[w].m /\ payload[w][j].org = org}}}

\* Mutant: one topic too many.
AdvancePast(w) ==
  at' = [at EXCEPT ![w] = IF @.t > Len(topics) THEN [m |-> @.m + 1, t |-> 1]
                                               ELSE [m |-> @.m, t |-> @.t + 1]]

\* The inner loop is over the topics.
Advance(w) ==
  at' = [at EXCEPT ![w] = IF @.t = Len(topics) THEN [m |-> @.m + 1, t |-> 1]
                                               ELSE [m |-> @.m, t |-> @.t + 1]]

-----------------------------------------------------------------------------
(* Publish *)

Publish(w, b) ==
  /\ pc[w] = "idle"
  /\ w \in setup.callers
  /\ topics # <<>>
  /\ batch' = [batch EXCEPT ![w] = b]
  /\ given' = [given EXCEPT ![w] = b]
  /\ pc' = [pc EXCEPT ![w] = "build"]
  /\ UNCHANGED <<process, seen, at, payload, unsent, err, defined, pointed>>

InLoop(w) == pc[w] = "build" /\ at[w].m <= Len(batch[w])

\* The metric has no interval yet.
NeedsInterval(w) == InLoop(w) /\ at[w].t = 1 /\ ~ Metric(w).interval

\* It is taken from the storage schemas.
SetInterval(w) ==
  /\ NeedsInterval(w)
  /\ setup.flags.autoInterval
  /\ batch' = [batch EXCEPT ![w][at[w].m] = SetId([@ EXCEPT !.interval = TRUE])]
  /\ UNCHANGED <<process, seen, pc, given, at, payload, unsent, err, defined, pointed>>

\* The topic's filters do not let the metric pass.
SkipTopic(w) ==
  /\ InLoop(w) /\ ~ NeedsInterval(w)
  /\ ~ Passes(Metric(w), Topic(w))
  /\ Advance(w)
  /\ UNCHANGED <<process, seen, pc, batch, given, payload, unsent, err, defined, pointed>>

\* dataFromMetricData: a MetricPoint if the key cache has seen the key.
DataFromMetricData(metric, full) ==
  \/ setup.flags.v2 /\ metric.id \in Keys /\ Filter!Answer(metric.id, ~ full)
  \/ ~ setup.flags.v2 /\ full /\ UNCHANGED seen

\* The message for the topic; topics that want the same org share a buffer.
AddMessage(w) ==
  LET metric == Rewrite(Metric(w), Topic(w)) IN
  /\ InLoop(w) /\ ~ NeedsInterval(w)
  /\ Passes(Metric(w), Topic(w))
  /\ \E full \in BOOLEAN :
       /\ \/ full \in Buffered(w, metric.org) /\ UNCHANGED seen
          \/ Buffered(w, metric.org) = {} /\ DataFromMetricData(metric, full)
       /\ payload' = [payload EXCEPT ![w] =
            Append(@, [m |-> at[w].m, t |-> at[w].t, org |-> metric.org, id |-> metric.id, full |-> full])]
  /\ batch' = [batch EXCEPT ![w][at[w].m] = Restore(metric, @)]
  /\ Advance(w)
  /\ UNCHANGED <<process, pc, given, unsent, err, defined, pointed>>

\* What remains when Publish has returned.
Idle(w) ==
  /\ pc' = [pc EXCEPT ![w] = "idle"]
  /\ batch' = [batch EXCEPT ![w] = <<>>]
  /\ given' = [given EXCEPT ![w] = <<>>]
  /\ at' = [at EXCEPT ![w] = Start]
  /\ payload' = [payload EXCEPT ![w] = <<>>]
  /\ err' = [err EXCEPT ![w] = FALSE]

\* No interval to be had, or an Id that is no key: Publish returns the error
\* and drops the messages built so far.
BuildFails(w) ==
  LET metric == Rewrite(Metric(w), Topic(w)) IN
  /\ \/ NeedsInterval(w) /\ ~ setup.flags.autoInterval
     \/ /\ InLoop(w) /\ ~ NeedsInterval(w)
        /\ Passes(Metric(w), Topic(w))
        /\ Buffered(w, metric.org) = {}
        /\ setup.flags.v2 /\ metric.id \notin Keys
  /\ Idle(w)
  /\ UNCHANGED <<process, seen, unsent, defined, pointed>>

SendMessages(w) ==
  /\ pc[w] = "build"
  /\ at[w].m > Len(batch[w])
  /\ pc' = [pc EXCEPT ![w] = "send"]
  /\ unsent' = [unsent EXCEPT ![w] = DOMAIN payload[w]]
  /\ UNCHANGED <<process, seen, batch, given, at, payload, err, defined, pointed>>

\* Kafka takes one of the messages.  Partitions are independent of each
\* other and retries reorder, so any message may be the next.
Deliver(w, i) ==
  LET msg == payload[w][i] IN
  /\ i \in unsent[w]
  /\ unsent' = [unsent EXCEPT ![w] = @ \ {i}]
  /\ IF msg.full THEN defined' = [defined EXCEPT ![msg.t] = @ \cup {msg.id}] /\ UNCHANGED pointed
                 ELSE pointed' = [pointed EXCEPT ![msg.t] = @ \cup {msg.id}] /\ UNCHANGED defined
  /\ UNCHANGED <<process, seen, pc, batch, given, at, payload, err>>

\* Kafka rejects one of the messages for good.
Reject(w, i) ==
  /\ setup.mayFail
  /\ i \in unsent[w]
  /\ unsent' = [unsent EXCEPT ![w] = @ \ {i}]
  /\ err' = [err EXCEPT ![w] = TRUE]
  /\ UNCHANGED <<process, seen, pc, batch, given, at, payload, defined, pointed>>

Sent(w) == pc[w] = "send" /\ unsent[w] = {}

\* SendMessages comes back, with an error if a message was rejected.
Return(w) ==
  /\ Sent(w)
  /\ Idle(w)
  /\ UNCHANGED <<process, seen, unsent, defined, pointed>>

\* The key cache forgets.
Forget == Filter!Forget /\ UNCHANGED <<process, wvars, defined, pointed>>

-----------------------------------------------------------------------------

Step(w) ==
  \/ SetInterval(w) \/ SkipTopic(w) \/ AddMessage(w) \/ BuildFails(w) \/ SendMessages(w)
  \/ \E i \in unsent[w] : Deliver(w, i) \/ Reject(w, i)
  \/ Return(w)

Next ==
  \/ \E w \in Publishers : (\E b \in setup.batches : Publish(w, b)) \/ Step(w)
  \/ Forget

Spec == Init /\ [][Next]_vars

\* A Publish in progress goes on: its loop runs, and the producer answers for
\* every message (it gives up after Retry.Max attempts).
FairSpec == Spec /\ \A w \in Publishers : WF_vars(Step(w))

-----------------------------------------------------------------------------

Messages == [m : Nat, t : DOMAIN topics, org : Nat, id : Keys \cup {NoId}, full : BOOLEAN]

TypeOK ==
  /\ setup \in Setups
  /\ seen \subseteq Keys
  /\ pc \in [Publishers -> {"idle", "build", "send"}]
  /\ \A w \in Publishers : /\ Len(batch[w]) = Len(given[w])
                           /\ at[w].m \in 1 .. Len(batch[w]) + 1 /\ at[w].t \in DOMAIN topics
                           /\ \A i \in DOMAIN payload[w] : payload[w][i] \in Messages
                           /\ unsent[w] \subseteq DOMAIN payload[w]
  /\ err \in [Publishers -> BOOLEAN]
  /\ defined \in [DOMAIN topics -> SUBSET (Keys \cup {NoId})]
  /\ pointed \in [DOMAIN topics -> SUBSET Keys]

\* w has a MetricData of key k in its buffer cache and topic t still to come.
AboutToAdd(w, t, k) ==
  /\ InLoop(w) /\ t >= at[w].t
  /\ Passes(Metric(w), topics[t])
  /\ Rewrite(Metric(w), topics[t]).id = k
  /\ TRUE \in Buffered(w, k.org)

\* A MetricData of key k is on its way to topic t.
OnItsWay(t, k) ==
  \E w \in Publishers :
    \/ AboutToAdd(w, t, k)
    \/ \E i \in DOMAIN payload[w] :
         /\ payload[w][i].t = t /\ payload[w][i].id = k /\ payload[w][i].full
         /\ pc[w] = "build" \/ i \in unsent[w]

\* A MetricPoint of key k has reached topic t or is about to.
Pointed(t, k) ==
  \/ k \in pointed[t]
  \/ \E w \in Publishers : \E i \in DOMAIN payload[w] :
       payload[w][i].t = t /\ payload[w][i].id = k /\ ~ payload[w][i].full

\* Some topic is configured to rewrite an org id.  Topics that see the same
\* key under different filters share one key cache.
Rewrites == \E t \in DOMAIN topics : topics[t].source # topics[t].target

\* No topic carries a MetricPoint whose key it cannot resolve: a topic that
\* has got a point of a key, or is about to, has also got the key's full
\* MetricData, or that is on its way, as long as no org id is rewritten.
PointsFollowDefinition ==
  ~ Rewrites => \A t \in DOMAIN topics, k \in Keys : Pointed(t, k) => k \in defined[t] \/ OnItsWay(t, k)

\* A topic that got a point ahead of the MetricData that another, concurrent
\* Publish is sending gets that MetricData in the end.
DefinitionArrives ==
  \A t \in UNION {DOMAIN s.flags.topics : s \in Setups}, k \in Keys :
    ~ Rewrites /\ t \in DOMAIN topics /\ k \in pointed[t] ~> k \in defined[t]

\* What the command line says of a metric and a topic: whether the topic
\* wants it, and under which org.
Selects(flags, metric, t) ==
  /\ \A i \in DOMAIN flags.onlyOrgIds : i = t \/ Len(flags.onlyOrgIds) = 1 => flags.onlyOrgIds[i] \in {0, metric.org}
  /\ \A i \in DOMAIN flags.discardPrefixes : i = t => metric.name \notin flags.discardPrefixes[i]

OrgFor(flags, metric, t) ==
  IF \E i \in DOMAIN flags.rewriteOrgId : i = t /\ flags.rewriteOrgId[i] # <<>> /\ flags.rewriteOrgId[i][1] = metric.org
  THEN flags.rewriteOrgId[t][2]
  ELSE metric.org

\* What Publish must send for a batch: a message for each metric and each
\* topic that wants it.
Wanted(flags, b) ==
  {[m |-> x[1], t |-> x[2], org |-> OrgFor(flags, b[x[1]], x[2])] :
     x \in {y \in (DOMAIN b) \X (DOMAIN flags.topics) : Selects(flags, b[y[1]], y[2])}}

Destinations(messages) ==
  {[m |-> messages[i].m, t |-> messages[i].t, org |-> messages[i].org] : i \in DOMAIN messages}

\* When Publish hands its messages to Kafka there is exactly one for each
\* metric and topic that the command line selects, though the loop rewrites
\* the org of the caller's metric in place for one topic and restores it for
\* the next.
PayloadIsExact ==
  \A w \in Publishers : pc[w] = "send" =>
    /\ Destinations(payload[w]) = Wanted(setup.flags, given[w])
    /\ \A i, j \in DOMAIN payload[w] : payload[w][i].m = payload[w][j].m /\ payload[w][i].t = payload[w][j].t => i = j

\* After a Publish the metrics carry the org they were passed with: the
\* per-org accounting in publish.Publish counts for the right org.
OrgsRestored ==
  \A w \in Publishers : pc[w] = "send" =>
    \A i \in DOMAIN batch[w] : batch[w][i].org = given[w][i].org
=============================================================================
