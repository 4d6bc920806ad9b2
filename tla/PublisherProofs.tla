-------------------------- MODULE PublisherProofs --------------------------
(***************************************************************************)
(* mtPublisher.Publish, proved for any number of publishers, topics, keys  *)
(* and batches and any command line that parses:                           *)
(*   - a Publish sends one message for each metric and topic that the      *)
(*     command line selects, and hands the metrics back with their orgs;   *)
(*   - every topic can resolve the points it gets, if nothing makes a      *)
(*     Publish fail and no topic rewrites an org id.                       *)
(***************************************************************************)
EXTENDS KafkaPublisher, TLAPS

-----------------------------------------------------------------------------
(* The command line *)

Parsed == setup \in Setups /\ Parses(setup.flags) /\ topics = ParseTopicSettings(setup.flags)

Flags(f) ==
  /\ Parses(f)
  /\ f.topics \in Seq(STRING) /\ f.topics # <<>>
  /\ f.onlyOrgIds \in Seq(Nat)
  /\ f.discardPrefixes \in Seq(SUBSET Names)
  /\ f.rewriteOrgId \in Seq({<<>>} \cup (Nat \X OrgIds))

LEMMA ParsedFlags ==
  ASSUME Parsed
  PROVE  Flags(setup.flags)
  BY PublisherAssumption, Zenon DEF Parsed, Flags

LEMMA ParsedTopics ==
  ASSUME Parsed
  PROVE  DOMAIN topics = DOMAIN setup.flags.topics /\ Len(topics) = Len(setup.flags.topics)
  <1>1. DOMAIN topics = DOMAIN setup.flags.topics
    BY Zenon DEF Parsed, ParseTopicSettings
  <1> QED
    BY <1>1, ParsedFlags DEF Parsed, Flags, ParseTopicSettings

\* What SetId, Rewrite and Restore do to a metric.
LEMMA SetIdFacts ==
  ASSUME NEW m \in MetricData
  PROVE  /\ SetId(m) \in MetricData /\ SetId(m).id \in Keys
         /\ SetId(m).org = m.org /\ SetId(m).name = m.name
  <1>1. [org |-> m.org, name |-> m.name] \in Keys
    <2>1. m.org \in OrgIds /\ m.name \in Names
      BY DEF MetricData
    <2> QED
      BY <2>1, PublisherAssumption, Zenon
  <1> QED
    BY <1>1 DEF SetId, MetricData

LEMMA RewriteFacts ==
  ASSUME NEW m \in MetricData, NEW topic, topic.target \in OrgIds \/ topic.target = topic.source
  PROVE  /\ Rewrite(m, topic) \in MetricData /\ Rewrite(m, topic).name = m.name
         /\ Rewrite(m, topic).org = IF m.org = topic.source THEN topic.target ELSE m.org
         /\ Rewrite(m, topic).id = m.id \/ Rewrite(m, topic).id \in Keys
  <1>1. CASE m.org = topic.source
    <2>1. [m EXCEPT !.org = topic.target] \in MetricData
      BY <1>1 DEF MetricData
    <2>2. [m EXCEPT !.org = topic.target].org = topic.target /\ [m EXCEPT !.org = topic.target].name = m.name
      BY DEF MetricData
    <2> QED
      BY <1>1, <2>1, <2>2, SetIdFacts, Zenon DEF Rewrite
  <1>2. CASE m.org # topic.source
    BY <1>2 DEF Rewrite
  <1> QED
    BY <1>1, <1>2, Zenon

LEMMA RestoreFacts ==
  ASSUME NEW m \in MetricData, NEW o \in MetricData, m.name = o.name
  PROVE  /\ Restore(m, o) \in MetricData /\ Restore(m, o).name = o.name /\ Restore(m, o).org = o.org
         /\ Restore(m, o).id = m.id \/ Restore(m, o).id \in Keys
  <1>1. CASE m.org # o.org
    <2>1. [m EXCEPT !.org = o.org] \in MetricData
      BY DEF MetricData
    <2>2. [m EXCEPT !.org = o.org].org = o.org /\ [m EXCEPT !.org = o.org].name = m.name
      BY DEF MetricData
    <2> QED
      BY <1>1, <2>1, <2>2, SetIdFacts, Zenon DEF Restore
  <1>2. CASE m.org = o.org
    BY <1>2 DEF Restore
  <1> QED
    BY <1>1, <1>2, Zenon

LEMMA IntervalFacts ==
  ASSUME NEW m \in MetricData, NEW n, n = SetId([m EXCEPT !.interval = TRUE])
  PROVE  n \in MetricData /\ n.org = m.org /\ n.name = m.name /\ n.id \in Keys
  <1>1. [m EXCEPT !.interval = TRUE] \in MetricData
    BY Zenon DEF MetricData
  <1>2. [m EXCEPT !.interval = TRUE].org = m.org /\ [m EXCEPT !.interval = TRUE].name = m.name
    BY DEF MetricData
  <1> QED
    BY <1>1, <1>2, SetIdFacts, Zenon

\* The settings parsed from the command line say what the command line says.
LEMMA Settings ==
  ASSUME NEW f, Flags(f), NEW t \in DOMAIN ParseTopicSettings(f), NEW metric \in MetricData
  PROVE  LET topic == ParseTopicSettings(f)[t] IN
         /\ Passes(metric, topic) <=> Selects(f, metric, t)
         /\ topic.target \in OrgIds \/ topic.target = topic.source
         /\ Rewrite(metric, topic).org = OrgFor(f, metric, t)
  <1> DEFINE topic == ParseTopicSettings(f)[t]
  <1>1. t \in 1 .. Len(f.topics) /\ Len(f.topics) \in Nat
    BY DEF Flags, ParseTopicSettings
  <1>2. topic.onlyOrgId \in {0, metric.org} <=>
          \A i \in DOMAIN f.onlyOrgIds : i = t \/ Len(f.onlyOrgIds) = 1 => f.onlyOrgIds[i] \in {0, metric.org}
    <2>1. topic.onlyOrgId = CASE f.onlyOrgIds = <<>> -> 0
                              [] Len(f.onlyOrgIds) = 1 -> f.onlyOrgIds[1]
                              [] OTHER -> f.onlyOrgIds[t]
      BY Zenon DEF ParseTopicSettings
    <2>2. CASE Len(f.onlyOrgIds) = 0
      BY <2>1, <2>2 DEF Flags
    <2>3. CASE Len(f.onlyOrgIds) = 1
      <3>1. topic.onlyOrgId = f.onlyOrgIds[1] /\ DOMAIN f.onlyOrgIds = {1}
        BY <2>1, <2>3 DEF Flags
      <3> QED
        BY <2>3, <3>1
    <2>4. CASE Len(f.onlyOrgIds) = Len(f.topics) /\ Len(f.onlyOrgIds) \notin {0, 1}
      <3>1. topic.onlyOrgId = f.onlyOrgIds[t] /\ t \in DOMAIN f.onlyOrgIds
        BY <1>1, <2>1, <2>4 DEF Flags
      <3> QED
        BY <2>4, <3>1, Zenon
    <2> QED
      BY <2>2, <2>3, <2>4, Zenon DEF Flags, Parses
  <1>3. metric.name \notin topic.discard <=>
          \A i \in DOMAIN f.discardPrefixes : i = t => metric.name \notin f.discardPrefixes[i]
    <2>1. topic.discard = IF f.discardPrefixes = <<>> THEN {} ELSE f.discardPrefixes[t]
      BY Zenon DEF ParseTopicSettings
    <2>2. CASE f.discardPrefixes = <<>>
      BY <2>1, <2>2
    <2>3. CASE f.discardPrefixes # <<>>
      BY <1>1, <2>1, <2>3 DEF Flags, Parses
    <2> QED
      BY <2>2, <2>3, Zenon
  <1>4. /\ topic.target \in OrgIds \/ topic.target = topic.source
        /\ (IF metric.org = topic.source THEN topic.target ELSE metric.org) = OrgFor(f, metric, t)
    <2>1. CASE f.rewriteOrgId # <<>> /\ f.rewriteOrgId[t] # <<>>
      <3>1. topic.source = f.rewriteOrgId[t][1] /\ topic.target = f.rewriteOrgId[t][2]
        BY <2>1, Zenon DEF ParseTopicSettings
      <3>2. t \in DOMAIN f.rewriteOrgId /\ f.rewriteOrgId[t] \in Nat \X OrgIds
        BY <1>1, <2>1 DEF Flags, Parses
      <3> QED
        BY <2>1, <3>1, <3>2, Zenon DEF OrgFor
    <2>2. CASE f.rewriteOrgId = <<>> \/ f.rewriteOrgId[t] = <<>>
      <3>1. topic.source = 0 /\ topic.target = 0
        BY <2>2, Zenon DEF ParseTopicSettings
      <3>2. OrgFor(f, metric, t) = metric.org
        BY <2>2 DEF OrgFor
      <3> QED
        BY <3>1, <3>2, Zenon
    <2> QED
      BY <2>1, <2>2, Zenon
  <1> QED
    BY <1>2, <1>3, <1>4, RewriteFacts, Zenon DEF Passes, Selects

-----------------------------------------------------------------------------
(* The loop *)

Items == [m : Nat, t : Nat, org : OrgIds, id : Keys \cup {NoId}, full : BOOLEAN]
Positions == [m : Nat \ {0}, t : Nat \ {0}]

\* The position after a.
After(f, a) == IF a.t = Len(f.topics) THEN [m |-> a.m + 1, t |-> 1] ELSE [m |-> a.m, t |-> a.t + 1]

\* The messages wanted of the metrics and topics before the position a.
SoFar(f, g, a) == {x \in Wanted(f, g) : x.m < a.m \/ (x.m = a.m /\ x.t < a.t)}

OneEach(messages) ==
  \A i, j \in DOMAIN messages : messages[i].m = messages[j].m /\ messages[i].t = messages[j].t => i = j

\* b is the batch g with nothing changed that the topics look at.
SameMetrics(b, g) ==
  /\ b \in Seq(MetricData) /\ g \in Seq(MetricData) /\ Len(b) = Len(g)
  /\ \A i \in DOMAIN b : b[i].org = g[i].org /\ b[i].name = g[i].name

\* The point messages have keys, and so has the metric of the loop once there is a
\* message for it in a buffer that topics share.
Keyed(f, b, a, messages) ==
  /\ \A i \in DOMAIN messages : ~ messages[i].full => messages[i].id \in Keys /\ f.v2
  /\ f.v2 /\ a.m \in DOMAIN b /\ (\E i \in DOMAIN messages : messages[i].m = a.m) => b[a.m].id \in Keys

\* The loop at position a, with the flags f and the batch b given as g.
Builds(f, b, g, a, messages) ==
  /\ SameMetrics(b, g)
  /\ a \in Positions /\ a.m <= Len(b) + 1 /\ a.t \in DOMAIN f.topics
  /\ messages \in Seq(Items)
  /\ Destinations(messages) = SoFar(f, g, a)
  /\ OneEach(messages)
  /\ Keyed(f, b, a, messages)

\* The position moves past one metric and topic.
LEMMA SoFarAfter ==
  ASSUME NEW f, Flags(f), NEW g \in Seq(MetricData), NEW a \in Positions, a.m \in DOMAIN g, a.t \in DOMAIN f.topics
  PROVE  /\ Selects(f, g[a.m], a.t) =>
              SoFar(f, g, After(f, a)) = SoFar(f, g, a) \cup {[m |-> a.m, t |-> a.t, org |-> OrgFor(f, g[a.m], a.t)]}
         /\ ~ Selects(f, g[a.m], a.t) => SoFar(f, g, After(f, a)) = SoFar(f, g, a)
         /\ After(f, a) \in Positions /\ After(f, a).m <= Len(g) + 1 /\ After(f, a).t \in DOMAIN f.topics
  <1>1. DOMAIN f.topics = 1 .. Len(f.topics) /\ Len(f.topics) \in Nat \ {0}
    BY DEF Flags
  <1>2. DOMAIN g = 1 .. Len(g) /\ Len(g) \in Nat
    OBVIOUS
  <1>3. /\ After(f, a) \in Positions /\ After(f, a).m <= Len(g) + 1 /\ After(f, a).t \in DOMAIN f.topics
    BY <1>1, <1>2 DEF After, Positions
  <1>4. \A x \in Wanted(f, g) : x.m \in DOMAIN g /\ x.t \in DOMAIN f.topics /\ Selects(f, g[x.m], x.t)
                              /\ x = [m |-> x.m, t |-> x.t, org |-> OrgFor(f, g[x.m], x.t)]
    BY DEF Wanted
  <1>5. \A x \in Wanted(f, g) : x.m < After(f, a).m \/ (x.m = After(f, a).m /\ x.t < After(f, a).t)
                              <=> x.m < a.m \/ (x.m = a.m /\ x.t <= a.t)
    BY <1>1, <1>2, <1>4 DEF After, Positions
  <1>6. Selects(f, g[a.m], a.t) => [m |-> a.m, t |-> a.t, org |-> OrgFor(f, g[a.m], a.t)] \in Wanted(f, g)
    <2> SUFFICES ASSUME Selects(f, g[a.m], a.t)
                 PROVE  [m |-> a.m, t |-> a.t, org |-> OrgFor(f, g[a.m], a.t)] \in Wanted(f, g)
      BY Zenon
    <2>1. PICK y : y = <<a.m, a.t>>
      BY Zenon
    <2>2. y \in {x \in (DOMAIN g) \X (DOMAIN f.topics) : Selects(f, g[x[1]], x[2])}
      BY <2>1, Zenon
    <2> QED
      BY <2>1, <2>2 DEF Wanted
  <1>7. ASSUME NEW x
        PROVE  x \in SoFar(f, g, After(f, a)) <=>
                 \/ x \in SoFar(f, g, a)
                 \/ Selects(f, g[a.m], a.t) /\ x = [m |-> a.m, t |-> a.t, org |-> OrgFor(f, g[a.m], a.t)]
    <2>1. CASE x \notin Wanted(f, g)
      BY <1>6, <2>1, Zenon DEF SoFar
    <2>2. CASE x \in Wanted(f, g) /\ x.m = a.m /\ x.t = a.t
      BY <1>1, <1>2, <1>4, <1>5, <2>2 DEF SoFar
    <2>3. CASE x \in Wanted(f, g) /\ ~ (x.m = a.m /\ x.t = a.t)
      <3>1. x # [m |-> a.m, t |-> a.t, org |-> OrgFor(f, g[a.m], a.t)]
        BY <2>3
      <3>2. x.m < a.m \/ (x.m = a.m /\ x.t <= a.t) <=> x.m < a.m \/ (x.m = a.m /\ x.t < a.t)
        BY <1>1, <1>2, <1>4, <2>3 DEF Positions
      <3> QED
        BY <1>5, <2>3, <3>1, <3>2, Zenon DEF SoFar
    <2> QED
      BY <2>1, <2>2, <2>3, Zenon
  <1> QED
    BY <1>3, <1>7, Zenon

\* Passes sees the same in the batch as it was given.
LEMMA SelectsSame ==
  ASSUME NEW f, NEW m \in MetricData, NEW o \in MetricData, m.org = o.org, m.name = o.name, NEW t
  PROVE  (Selects(f, m, t) <=> Selects(f, o, t)) /\ OrgFor(f, m, t) = OrgFor(f, o, t)
  BY Zenon DEF Selects, OrgFor

LEMMA BuildStarts ==
  ASSUME NEW f, Flags(f), NEW b \in Seq(MetricData)
  PROVE  Builds(f, b, b, Start, <<>>)
  <1>1. Start \in Positions /\ Start.m <= Len(b) + 1 /\ Start.t \in DOMAIN f.topics
    BY DEF Start, Positions, Flags
  <1>2. SoFar(f, b, Start) = {}
    BY DEF SoFar, Wanted, Start, Flags
  <1>3. Destinations(<<>>) = {} /\ OneEach(<<>>) /\ Keyed(f, b, Start, <<>>)
    BY DEF Destinations, OneEach, Keyed
  <1> QED
    BY <1>1, <1>2, <1>3 DEF Builds, SameMetrics

LEMMA SameReplaced ==
  ASSUME NEW b, NEW g, SameMetrics(b, g), NEW k \in DOMAIN b, NEW n \in MetricData, n.org = b[k].org, n.name = b[k].name
  PROVE  SameMetrics([b EXCEPT ![k] = n], g)
  <1>1. [b EXCEPT ![k] = n] \in Seq(MetricData) /\ Len([b EXCEPT ![k] = n]) = Len(b)
    BY DEF SameMetrics
  <1>2. \A i \in DOMAIN b : [b EXCEPT ![k] = n][i].org = b[i].org /\ [b EXCEPT ![k] = n][i].name = b[i].name
    OBVIOUS
  <1> QED
    BY <1>1, <1>2, Zenon DEF SameMetrics

\* The interval is set: SetId leaves the org and the name alone.
LEMMA IntervalBuilds ==
  ASSUME NEW f, NEW b, NEW g, NEW a, NEW ms, Builds(f, b, g, a, ms), a.m \in DOMAIN b,
         NEW n, n = SetId([b[a.m] EXCEPT !.interval = TRUE])
  PROVE  Builds(f, [b EXCEPT ![a.m] = n], g, a, ms)
  <1>1. b[a.m] \in MetricData
    BY DEF Builds, SameMetrics
  <1>2. n \in MetricData /\ n.org = b[a.m].org /\ n.name = b[a.m].name /\ n.id \in Keys
    BY <1>1, IntervalFacts, Zenon
  <1>3. SameMetrics([b EXCEPT ![a.m] = n], g)
    BY <1>2, SameReplaced, Zenon DEF Builds
  <1>4. Keyed(f, [b EXCEPT ![a.m] = n], a, ms)
    BY <1>2, Zenon DEF Builds, Keyed, SameMetrics
  <1> QED
    BY <1>3, <1>4, Zenon DEF Builds, SameMetrics

\* The messages so far are for earlier positions.
LEMMA MessagesBefore ==
  ASSUME NEW f, NEW b, NEW g, NEW a, NEW ms, Builds(f, b, g, a, ms), NEW i \in DOMAIN ms
  PROVE  /\ ms[i].m \in Nat /\ ms[i].m <= a.m
         /\ ~ (ms[i].m = a.m /\ ms[i].t = a.t)
  <1>1. [m |-> ms[i].m, t |-> ms[i].t, org |-> ms[i].org] \in SoFar(f, g, a)
    BY Zenon DEF Builds, Destinations
  <1>2. ms[i] \in Items
    BY DEF Builds
  <1>3. ms[i].m \in Nat /\ ms[i].t \in Nat /\ a.m \in Nat /\ a.t \in Nat
    BY <1>2, Zenon DEF Items, Builds, Positions
  <1> QED
    BY <1>1, <1>3 DEF SoFar

\* A topic is passed over.
LEMMA SkipBuilds ==
  ASSUME NEW f, Flags(f), NEW b, NEW g, NEW a, NEW ms, Builds(f, b, g, a, ms), a.m \in DOMAIN b,
         ~ Selects(f, b[a.m], a.t)
  PROVE  Builds(f, b, g, After(f, a), ms)
  <1>1. a.m \in DOMAIN g /\ g[a.m] \in MetricData /\ b[a.m] \in MetricData
    BY DEF Builds, SameMetrics
  <1>2. ~ Selects(f, g[a.m], a.t)
    BY <1>1, SelectsSame, Zenon DEF Builds, SameMetrics
  <1>3. /\ SoFar(f, g, After(f, a)) = SoFar(f, g, a)
        /\ After(f, a) \in Positions /\ After(f, a).m <= Len(b) + 1 /\ After(f, a).t \in DOMAIN f.topics
    <2>1. g \in Seq(MetricData) /\ Len(b) = Len(g) /\ a \in Positions /\ a.t \in DOMAIN f.topics
      BY Zenon DEF Builds, SameMetrics
    <2> QED
      BY <1>1, <1>2, <2>1, SoFarAfter, Zenon
  <1>4. \A i \in DOMAIN ms : ms[i].m <= a.m /\ ms[i].m \in Nat
    BY MessagesBefore, Zenon
  <1>5. Keyed(f, b, After(f, a), ms)
    BY <1>4 DEF Builds, Keyed, After, Positions
  <1> QED
    BY <1>3, <1>5, Zenon DEF Builds

\* A message is added.
LEMMA AddBuilds ==
  ASSUME NEW f, Flags(f), NEW b, NEW g, NEW a, NEW ms, Builds(f, b, g, a, ms), a.m \in DOMAIN b,
         NEW topic, topic = ParseTopicSettings(f)[a.t], Passes(b[a.m], topic),
         NEW metric, metric = Rewrite(b[a.m], topic),
         NEW full \in BOOLEAN, f.v2 => metric.id \in Keys, ~ full => f.v2,
         NEW msg, msg = [m |-> a.m, t |-> a.t, org |-> metric.org, id |-> metric.id, full |-> full]
  PROVE  Builds(f, [b EXCEPT ![a.m] = Restore(metric, b[a.m])], g, After(f, a), Append(ms, msg))
  <1>1. /\ a.m \in DOMAIN g /\ g[a.m] \in MetricData /\ b[a.m] \in MetricData
        /\ g \in Seq(MetricData) /\ Len(b) = Len(g) /\ a \in Positions /\ a.t \in DOMAIN f.topics
        /\ b[a.m].org = g[a.m].org /\ b[a.m].name = g[a.m].name
    BY DEF Builds, SameMetrics
  <1>2. a.t \in DOMAIN ParseTopicSettings(f)
    BY <1>1, Zenon DEF ParseTopicSettings
  <1>3. /\ Selects(f, b[a.m], a.t) /\ metric.org = OrgFor(f, b[a.m], a.t)
        /\ topic.target \in OrgIds \/ topic.target = topic.source
    BY <1>1, <1>2, Settings, Zenon
  <1>4. metric \in MetricData /\ metric.name = b[a.m].name
    BY <1>1, <1>3, RewriteFacts, Zenon
  <1>5. PICK n : n = Restore(metric, b[a.m])
    BY Zenon
  <1>6. n \in MetricData /\ n.name = b[a.m].name /\ n.org = b[a.m].org /\ (f.v2 => n.id \in Keys)
    BY <1>1, <1>4, <1>5, RestoreFacts, Zenon
  <1>7. Selects(f, g[a.m], a.t) /\ metric.org = OrgFor(f, g[a.m], a.t)
    BY <1>1, <1>3, SelectsSame
  <1>8. SoFar(f, g, After(f, a)) = SoFar(f, g, a) \cup {[m |-> a.m, t |-> a.t, org |-> metric.org]}
    BY <1>1, <1>7, SoFarAfter
  <1>9. After(f, a) \in Positions /\ After(f, a).m <= Len(b) + 1 /\ After(f, a).t \in DOMAIN f.topics
    BY <1>1, SoFarAfter, Zenon
  <1>10. msg \in Items
    BY <1>1, <1>4, Zenon DEF Items, MetricData, Positions
  <1>11. msg.m = a.m /\ msg.t = a.t /\ msg.org = metric.org /\ msg.id = metric.id /\ msg.full = full
    BY Zenon
  <1>12. PICK ns : ns = Append(ms, msg)
    BY Zenon
  <1>13. /\ ms \in Seq(Items) /\ ns \in Seq(Items) /\ Len(ns) = Len(ms) + 1 /\ ns[Len(ms) + 1] = msg
         /\ Len(ms) \in Nat /\ DOMAIN ms = 1 .. Len(ms) /\ DOMAIN ns = 1 .. (Len(ms) + 1)
         /\ \A i \in DOMAIN ms : ns[i] = ms[i]
    BY <1>10, <1>12 DEF Builds
  <1>14. Destinations(ns) = Destinations(ms) \cup {[m |-> a.m, t |-> a.t, org |-> metric.org]}
    <2>1. DOMAIN ns = DOMAIN ms \cup {Len(ms) + 1}
      BY <1>13
    <2> QED
      BY <1>11, <1>13, <2>1 DEF Destinations
  <1>15. OneEach(ns)
    <2> SUFFICES ASSUME NEW i \in DOMAIN ns, NEW j \in DOMAIN ns, ns[i].m = ns[j].m, ns[i].t = ns[j].t
                 PROVE  i = j
      BY Zenon DEF OneEach
    <2>1. \A k \in DOMAIN ms : ~ (ms[k].m = a.m /\ ms[k].t = a.t)
      BY MessagesBefore, Zenon
    <2>2. \A k \in DOMAIN ns : k \in DOMAIN ms \/ k = Len(ms) + 1
      BY <1>13
    <2>3. CASE i \in DOMAIN ms /\ j \in DOMAIN ms
      BY <1>13, <2>3, Zenon DEF Builds, OneEach
    <2>4. CASE i \notin DOMAIN ms \/ j \notin DOMAIN ms
      BY <1>11, <1>13, <2>1, <2>2, <2>4
    <2> QED
      BY <2>3, <2>4, Zenon
  <1>16. PICK c : c = [b EXCEPT ![a.m] = n]
    BY Zenon
  <1>17. SameMetrics(c, g) /\ Len(c) = Len(b) /\ c[a.m] = n
    <2>1. SameMetrics(c, g)
      BY <1>6, <1>16, SameReplaced, Zenon DEF Builds
    <2> QED
      BY <1>1, <1>16, <2>1, Zenon DEF SameMetrics
  <1>18. Keyed(f, c, After(f, a), ns)
    <2>1. \A i \in DOMAIN ns : ~ ns[i].full => ns[i].id \in Keys /\ f.v2
      <3>1. \A i \in DOMAIN ms : ~ ms[i].full => ms[i].id \in Keys /\ f.v2
        BY Zenon DEF Builds, Keyed
      <3>2. \A k \in DOMAIN ns : k \in DOMAIN ms \/ k = Len(ms) + 1
        BY <1>13
      <3> QED
        BY <1>11, <1>13, <3>1, <3>2, Zenon
    <2>2. CASE After(f, a).m = a.m
      BY <1>6, <1>17, <2>1, <2>2, Zenon DEF Keyed
    <2>3. CASE After(f, a).m = a.m + 1
      <3>1. \A i \in DOMAIN ms : ms[i].m # a.m + 1
        BY <1>1, MessagesBefore DEF Positions
      <3>2. \A i \in DOMAIN ns : ns[i].m # a.m + 1
        <4>1. \A k \in DOMAIN ns : k \in DOMAIN ms \/ k = Len(ms) + 1
          BY <1>13
        <4>2. a.m # a.m + 1
          BY <1>1 DEF Positions
        <4> QED
          BY <1>11, <1>13, <3>1, <4>1, <4>2, Zenon
      <3> QED
        BY <2>1, <2>3, <3>2, Zenon DEF Keyed
    <2> QED
      BY <2>2, <2>3, Zenon DEF After
  <1>19. Destinations(ns) = SoFar(f, g, After(f, a))
    BY <1>8, <1>14, Zenon DEF Builds
  <1>20. Builds(f, c, g, After(f, a), ns)
    BY <1>9, <1>13, <1>15, <1>17, <1>18, <1>19, Zenon DEF Builds
  <1> QED
    BY <1>5, <1>12, <1>16, <1>20, Zenon

-----------------------------------------------------------------------------
(* Publish *)

Worker(w) ==
  /\ Builds(setup.flags, batch[w], given[w], at[w], payload[w])
  /\ pc[w] = "idle" => batch[w] = <<>> /\ given[w] = <<>> /\ at[w] = Start /\ payload[w] = <<>>
  /\ pc[w] = "send" => at[w].m > Len(batch[w])
  /\ pc[w] # "send" => unsent[w] = {}
  /\ unsent[w] \subseteq DOMAIN payload[w]

Workers ==
  /\ pc \in [Publishers -> {"idle", "build", "send"}]
  /\ batch = [w \in Publishers |-> batch[w]] /\ given = [w \in Publishers |-> given[w]]
  /\ at = [w \in Publishers |-> at[w]] /\ payload = [w \in Publishers |-> payload[w]]
  /\ unsent = [w \in Publishers |-> unsent[w]]

WorkInv == Parsed /\ Workers /\ \A w \in Publishers : Worker(w)

LEMMA InitWork ==
  ASSUME Init
  PROVE  WorkInv
  <1>1. Parsed
    BY Zenon DEF Init, Parsed
  <1>2. <<>> \in Seq(MetricData)
    OBVIOUS
  <1>3. Builds(setup.flags, <<>>, <<>>, Start, <<>>)
    BY <1>1, <1>2, ParsedFlags, BuildStarts, Zenon
  <1> QED
    BY <1>1, <1>3, Zenon DEF Init, WorkInv, Workers, Worker

\* A step of w leaves the other publishers alone.
Alone(w) ==
  \A q \in Publishers \ {w} : /\ pc'[q] = pc[q] /\ batch'[q] = batch[q] /\ given'[q] = given[q] /\ at'[q] = at[q]
                              /\ payload'[q] = payload[q] /\ unsent'[q] = unsent[q]

LEMMA WorkSuffices ==
  ASSUME WorkInv, NEW w \in Publishers, UNCHANGED process, Workers', Alone(w), Worker(w)'
  PROVE  WorkInv'
  <1>1. ASSUME NEW q \in Publishers \ {w}
        PROVE  Worker(q)'
    BY <1>1, Zenon DEF WorkInv, Worker, Alone, process
  <1> QED
    BY <1>1 DEF WorkInv, Parsed, process

LEMMA PublishWork ==
  ASSUME WorkInv, NEW w \in Publishers, NEW b \in setup.batches, Publish(w, b)
  PROVE  WorkInv' /\ Alone(w)
  <1>1. b \in Seq(MetricData)
    BY PublisherAssumption, Zenon DEF WorkInv, Parsed
  <1>2. Builds(setup.flags, b, b, Start, <<>>)
    BY <1>1, ParsedFlags, BuildStarts DEF WorkInv
  <1>3. Workers' /\ Alone(w) /\ UNCHANGED process
    BY Zenon DEF WorkInv, Workers, Alone, Publish
  <1>4. /\ batch'[w] = b /\ given'[w] = b /\ pc'[w] = "build" /\ at'[w] = Start /\ payload'[w] = <<>>
        /\ unsent'[w] = {} /\ setup' = setup
    BY Zenon DEF WorkInv, Workers, Worker, Publish, process
  <1>5. Worker(w)'
    BY <1>2, <1>4, Zenon DEF Worker
  <1> QED
    BY <1>3, <1>5, WorkSuffices

\* The position of the loop.
LEMMA InLoopFacts ==
  ASSUME WorkInv, NEW w \in Publishers, InLoop(w)
  PROVE  /\ at[w].m \in DOMAIN batch[w] /\ at[w].t \in DOMAIN topics /\ pc[w] = "build" /\ unsent[w] = {}
         /\ Flags(setup.flags) /\ Builds(setup.flags, batch[w], given[w], at[w], payload[w])
         /\ Topic(w) = ParseTopicSettings(setup.flags)[at[w].t] /\ Metric(w) = batch[w][at[w].m]
         /\ Metric(w) \in MetricData
  <1>1. /\ Flags(setup.flags) /\ Builds(setup.flags, batch[w], given[w], at[w], payload[w])
        /\ pc[w] = "build" /\ at[w].m <= Len(batch[w]) /\ unsent[w] = {}
    BY ParsedFlags, Zenon DEF WorkInv, Worker, InLoop
  <1>2. batch[w] \in Seq(MetricData) /\ at[w].m \in Nat \ {0} /\ at[w].t \in DOMAIN setup.flags.topics
    BY <1>1, Zenon DEF Builds, SameMetrics, Positions
  <1>3. at[w].m \in DOMAIN batch[w] /\ batch[w][at[w].m] \in MetricData
    BY <1>1, <1>2
  <1>4. topics = ParseTopicSettings(setup.flags) /\ DOMAIN topics = DOMAIN setup.flags.topics
    BY ParsedTopics DEF WorkInv, Parsed
  <1> QED
    BY <1>1, <1>2, <1>3, <1>4, Zenon DEF Topic, Metric

LEMMA SetIntervalWork ==
  ASSUME WorkInv, NEW w \in Publishers, SetInterval(w)
  PROVE  WorkInv' /\ Alone(w)
  <1>1. InLoop(w)
    BY Zenon DEF SetInterval, NeedsInterval
  <1>2. PICK n : n = SetId([batch[w][at[w].m] EXCEPT !.interval = TRUE])
    BY Zenon
  <1>3. batch' = [batch EXCEPT ![w] = [batch[w] EXCEPT ![at[w].m] = n]]
    BY <1>2, Zenon DEF SetInterval
  <1>4. UNCHANGED <<process, pc, given, at, payload, unsent>>
    BY Zenon DEF SetInterval
  <1>5. Workers' /\ Alone(w)
    BY <1>3, <1>4, Zenon DEF WorkInv, Workers, Alone
  <1>6. Builds(setup.flags, [batch[w] EXCEPT ![at[w].m] = n], given[w], at[w], payload[w])
    BY <1>1, <1>2, InLoopFacts, IntervalBuilds, Zenon
  <1>7. batch'[w] = [batch[w] EXCEPT ![at[w].m] = n] /\ setup' = setup
    BY <1>3, <1>4, Zenon DEF WorkInv, Workers, process
  <1>8. Worker(w)'
    BY <1>1, <1>4, <1>6, <1>7, InLoopFacts, Zenon DEF Worker
  <1> QED
    BY <1>4, <1>5, <1>8, WorkSuffices

LEMMA AdvanceIsAfter ==
  ASSUME WorkInv, NEW w \in Publishers, Advance(w)
  PROVE  at' = [at EXCEPT ![w] = After(setup.flags, at[w])] /\ at'[w] = After(setup.flags, at[w])
  BY ParsedTopics, Zenon DEF Advance, After, WorkInv, Workers

LEMMA SkipTopicWork ==
  ASSUME WorkInv, NEW w \in Publishers, SkipTopic(w)
  PROVE  WorkInv' /\ Alone(w)
  <1>1. InLoop(w) /\ ~ Passes(Metric(w), Topic(w)) /\ Advance(w) /\ UNCHANGED <<process, pc, batch, given, payload, unsent>>
    BY DEF SkipTopic
  <1>2. at[w].t \in DOMAIN ParseTopicSettings(setup.flags)
    BY <1>1, InLoopFacts, Zenon DEF WorkInv, Parsed
  <1>3. ~ Selects(setup.flags, batch[w][at[w].m], at[w].t)
    BY <1>1, <1>2, InLoopFacts, Settings
  <1>4. Builds(setup.flags, batch[w], given[w], After(setup.flags, at[w]), payload[w])
    BY <1>1, <1>3, InLoopFacts, SkipBuilds, Zenon
  <1>5. Workers' /\ Alone(w) /\ at'[w] = After(setup.flags, at[w])
    BY <1>1, AdvanceIsAfter DEF WorkInv, Workers, Alone
  <1>6. Worker(w)'
    BY <1>1, <1>4, <1>5, InLoopFacts, Zenon DEF Worker, process
  <1> QED
    BY <1>1, <1>5, <1>6, WorkSuffices, Zenon

\* The format is one that the key allows: a buffer that another topic has
\* filled for the org comes from a metric whose Id was a key.
LEMMA AddMessageWork ==
  ASSUME WorkInv, NEW w \in Publishers, AddMessage(w)
  PROVE  WorkInv' /\ Alone(w)
  <1> DEFINE metric == Rewrite(Metric(w), Topic(w))
  <1>1. InLoop(w) /\ Passes(Metric(w), Topic(w)) /\ Advance(w) /\ UNCHANGED <<process, pc, given, unsent>>
    BY Zenon DEF AddMessage
  <1>2. PICK full \in BOOLEAN :
          /\ full \in Buffered(w, metric.org) \/ DataFromMetricData(metric, full)
          /\ payload' = [payload EXCEPT ![w] =
               Append(@, [m |-> at[w].m, t |-> at[w].t, org |-> metric.org, id |-> metric.id, full |-> full])]
    BY Zenon DEF AddMessage
  <1>3. batch' = [batch EXCEPT ![w] = [batch[w] EXCEPT ![at[w].m] = Restore(metric, batch[w][at[w].m])]]
    BY Zenon DEF AddMessage
  <1>4. at[w].t \in DOMAIN ParseTopicSettings(setup.flags)
    BY <1>1, InLoopFacts, Zenon DEF WorkInv, Parsed
  <1>5. metric.id = Metric(w).id \/ metric.id \in Keys
    <2>1. Topic(w).target \in OrgIds \/ Topic(w).target = Topic(w).source
      BY <1>1, <1>4, InLoopFacts, Settings
    <2> QED
      BY <1>1, <2>1, InLoopFacts, RewriteFacts, Zenon
  <1>6. (setup.flags.v2 => metric.id \in Keys) /\ (~ full => setup.flags.v2)
    <2>1. CASE full \in Buffered(w, metric.org)
      <3>1. PICK i \in DOMAIN payload[w] : payload[w][i].m = at[w].m /\ payload[w][i].full = full
        BY <2>1, Zenon DEF Buffered
      <3>2. Keyed(setup.flags, batch[w], at[w], payload[w]) /\ at[w].m \in DOMAIN batch[w] /\ Metric(w) = batch[w][at[w].m]
        BY <1>1, InLoopFacts, Zenon DEF Builds
      <3> QED
        BY <1>5, <3>1, <3>2, Zenon DEF Keyed
    <2>2. CASE DataFromMetricData(metric, full)
      BY <2>2, Zenon DEF DataFromMetricData
    <2> QED
      BY <1>2, <2>1, <2>2, Zenon
  <1>7. PICK msg : msg = [m |-> at[w].m, t |-> at[w].t, org |-> metric.org, id |-> metric.id, full |-> full]
    BY Zenon
  <1>8. PICK c : c = [batch[w] EXCEPT ![at[w].m] = Restore(metric, batch[w][at[w].m])]
    BY Zenon
  <1>9. PICK r : r = metric
    OBVIOUS
  <1>10. /\ r = Rewrite(batch[w][at[w].m], Topic(w)) /\ (setup.flags.v2 => r.id \in Keys)
         /\ msg = [m |-> at[w].m, t |-> at[w].t, org |-> r.org, id |-> r.id, full |-> full]
         /\ c = [batch[w] EXCEPT ![at[w].m] = Restore(r, batch[w][at[w].m])]
    BY <1>1, <1>6, <1>7, <1>8, <1>9, InLoopFacts, Zenon
  <1>11. batch' = [batch EXCEPT ![w] = c] /\ payload' = [payload EXCEPT ![w] = Append(payload[w], msg)]
    BY <1>2, <1>3, <1>7, <1>8, Zenon
  <1> HIDE DEF metric
  <1>12. /\ Flags(setup.flags) /\ Builds(setup.flags, batch[w], given[w], at[w], payload[w]) /\ at[w].m \in DOMAIN batch[w]
         /\ Topic(w) = ParseTopicSettings(setup.flags)[at[w].t] /\ Passes(batch[w][at[w].m], Topic(w))
    BY <1>1, InLoopFacts, Zenon
  <1>13. Builds(setup.flags, c, given[w], After(setup.flags, at[w]), Append(payload[w], msg))
    BY <1>6, <1>10, <1>12, AddBuilds, Zenon
  <1>14. at' = [at EXCEPT ![w] = After(setup.flags, at[w])] /\ at'[w] = After(setup.flags, at[w])
    BY <1>1, AdvanceIsAfter, Zenon
  <1>15. Workers' /\ Alone(w)
    BY <1>1, <1>11, <1>14, Zenon DEF WorkInv, Workers, Alone
  <1>16. batch'[w] = c /\ payload'[w] = Append(payload[w], msg)
    BY <1>11, Zenon DEF WorkInv, Workers
  <1>17. Worker(w)'
    BY <1>1, <1>13, <1>14, <1>16, InLoopFacts, Zenon DEF Worker, process
  <1> QED
    BY <1>1, <1>15, <1>17, WorkSuffices

LEMMA IdleWork ==
  ASSUME WorkInv, NEW w \in Publishers, Idle(w), unsent[w] = {}, UNCHANGED <<process, unsent>>
  PROVE  WorkInv' /\ Alone(w)
  <1>1. /\ batch'[w] = <<>> /\ given'[w] = <<>> /\ pc'[w] = "idle" /\ at'[w] = Start /\ payload'[w] = <<>>
        /\ unsent'[w] = {} /\ setup' = setup
    BY Zenon DEF WorkInv, Workers, Idle, process
  <1>2. Workers' /\ Alone(w)
    BY Zenon DEF WorkInv, Workers, Alone, Idle
  <1>3. <<>> \in Seq(MetricData)
    OBVIOUS
  <1>4. Builds(setup.flags, <<>>, <<>>, Start, <<>>)
    BY <1>3, ParsedFlags, BuildStarts, Zenon DEF WorkInv
  <1>5. Worker(w)'
    BY <1>1, <1>4, Zenon DEF Worker
  <1> QED
    BY <1>2, <1>5, WorkSuffices

LEMMA SendWork ==
  ASSUME WorkInv, NEW w \in Publishers,
         SendMessages(w) \/ \E i \in unsent[w] : Deliver(w, i) \/ Reject(w, i)
  PROVE  WorkInv' /\ Alone(w)
  <1>1. UNCHANGED <<process, batch, given, at, payload>>
    BY Zenon DEF SendMessages, Deliver, Reject
  <1>2. Workers' /\ Alone(w)
    <2>1. /\ pc' = pc \/ pc' = [pc EXCEPT ![w] = "send"]
          /\ \E u : unsent' = [unsent EXCEPT ![w] = u]
      BY Zenon DEF SendMessages, Deliver, Reject
    <2> QED
      BY <1>1, <2>1, Zenon DEF WorkInv, Workers, Alone
  <1>3. Builds(setup.flags, batch[w], given[w], at[w], payload[w])'
    BY <1>1, Zenon DEF WorkInv, Worker, process
  <1>4. Worker(w)'
    <2>1. CASE SendMessages(w)
      BY <1>1, <1>3, <2>1, Zenon DEF WorkInv, Workers, Worker, SendMessages
    <2>2. ASSUME NEW i \in unsent[w], Deliver(w, i) \/ Reject(w, i)
          PROVE  Worker(w)'
      <3>1. unsent' = [unsent EXCEPT ![w] = @ \ {i}] /\ pc' = pc
        BY <2>2, Zenon DEF Deliver, Reject
      <3> QED
        BY <1>1, <1>3, <3>1, Zenon DEF WorkInv, Workers, Worker
    <2> QED
      BY <2>1, <2>2
  <1> QED
    BY <1>1, <1>2, <1>4, WorkSuffices

LEMMA NextWork ==
  ASSUME WorkInv, [Next]_vars
  PROVE  WorkInv'
  <1>1. CASE UNCHANGED <<process, wvars>>
    BY <1>1, Zenon DEF WorkInv, Parsed, Workers, Worker, process, wvars
  <1>2. Forget \/ UNCHANGED vars => UNCHANGED <<process, wvars>>
    BY DEF Forget, vars
  <1>3. ASSUME NEW w \in Publishers, BuildFails(w) \/ Return(w)
        PROVE  WorkInv'
    <2>1. Idle(w) /\ UNCHANGED <<process, unsent>>
      BY <1>3, Zenon DEF BuildFails, Return
    <2>2. unsent[w] = {}
      BY <1>3, InLoopFacts, Zenon DEF BuildFails, Return, Sent, NeedsInterval
    <2> QED
      BY <2>1, <2>2, IdleWork
  <1> QED
    BY <1>1, <1>2, <1>3, PublishWork, SetIntervalWork, SkipTopicWork, AddMessageWork, SendWork, Zenon DEF Next, Step

\* For any command line that parses, any number of topics and any batches:
\* one message for each metric and topic that the flags select.
THEOREM PayloadsAreExact == Spec => []PayloadIsExact
  <1>1. WorkInv => PayloadIsExact
    <2> SUFFICES ASSUME WorkInv, NEW w \in Publishers, pc[w] = "send"
                 PROVE  Destinations(payload[w]) = Wanted(setup.flags, given[w]) /\ OneEach(payload[w])
      BY Zenon DEF PayloadIsExact, OneEach
    <2>1. Builds(setup.flags, batch[w], given[w], at[w], payload[w]) /\ at[w].m > Len(batch[w])
      BY Zenon DEF WorkInv, Worker
    <2>2. \A x \in Wanted(setup.flags, given[w]) : x.m \in DOMAIN given[w]
      BY DEF Wanted
    <2>3. SoFar(setup.flags, given[w], at[w]) = Wanted(setup.flags, given[w])
      BY <2>1, <2>2 DEF SoFar, Builds, SameMetrics, Positions
    <2> QED
      BY <2>1, <2>3, Zenon DEF Builds
  <1> QED
    BY <1>1, InitWork, NextWork, PTL DEF Spec

\* Whatever the topics rewrite, the caller gets the metrics back with the org
\* ids they came with.
THEOREM OrgsAreRestored == Spec => []OrgsRestored
  <1>1. WorkInv => OrgsRestored
    BY Zenon DEF WorkInv, Worker, Builds, SameMetrics, OrgsRestored
  <1> QED
    BY <1>1, InitWork, NextWork, PTL DEF Spec

\* The types of what goes to Kafka and of the key cache.
KafkaTypes ==
  /\ seen \subseteq Keys
  /\ err \in [Publishers -> BOOLEAN]
  /\ defined \in [DOMAIN topics -> SUBSET (Keys \cup {NoId})]
  /\ pointed \in [DOMAIN topics -> SUBSET Keys]

LEMMA WorkTypes ==
  ASSUME WorkInv, NEW w \in Publishers
  PROVE  /\ Len(batch[w]) = Len(given[w])
         /\ at[w].m \in 1 .. Len(batch[w]) + 1 /\ at[w].t \in DOMAIN topics
         /\ \A i \in DOMAIN payload[w] : payload[w][i] \in Messages /\ (~ payload[w][i].full => payload[w][i].id \in Keys)
         /\ unsent[w] \subseteq DOMAIN payload[w]
  <1>1. Builds(setup.flags, batch[w], given[w], at[w], payload[w]) /\ unsent[w] \subseteq DOMAIN payload[w]
    BY Zenon DEF WorkInv, Worker
  <1>2. DOMAIN topics = DOMAIN setup.flags.topics
    BY ParsedTopics DEF WorkInv, Parsed
  <1>3. Len(batch[w]) = Len(given[w]) /\ at[w].m \in 1 .. Len(batch[w]) + 1 /\ at[w].t \in DOMAIN topics
    BY <1>1, <1>2 DEF Builds, SameMetrics, Positions
  <1>4. ASSUME NEW i \in DOMAIN payload[w]
        PROVE  payload[w][i] \in Messages /\ (~ payload[w][i].full => payload[w][i].id \in Keys)
    <2>1. payload[w][i] \in Items
      BY <1>1 DEF Builds
    <2>2. [m |-> payload[w][i].m, t |-> payload[w][i].t, org |-> payload[w][i].org] \in Wanted(setup.flags, given[w])
      BY <1>1, Zenon DEF Builds, Destinations, SoFar
    <2>3. payload[w][i].t \in DOMAIN topics
      BY <1>2, <2>2, Zenon DEF Wanted
    <2>4. payload[w][i].org \in Nat
      BY <2>1, PublisherAssumption, Zenon DEF Items
    <2> QED
      BY <1>1, <2>1, <2>3, <2>4, Zenon DEF Items, Messages, Builds, Keyed
  <1> QED
    BY <1>1, <1>3, <1>4, Zenon

LEMMA NextTypes ==
  ASSUME WorkInv, KafkaTypes, [Next]_vars
  PROVE  KafkaTypes'
  <1>1. topics' = topics
    BY Zenon DEF Next, Publish, Step, SetInterval, SkipTopic, AddMessage, BuildFails, SendMessages, Deliver, Reject, Return,
           Forget, process, vars
  <1>2. seen' \subseteq Keys
    <2>1. ASSUME NEW w \in Publishers, AddMessage(w)
          PROVE  seen' \subseteq Keys
      BY <2>1, Zenon DEF KafkaTypes, AddMessage, DataFromMetricData, Filter!Answer
    <2>2. Forget => seen' \subseteq Keys
      BY DEF KafkaTypes, Forget, Filter!Forget
    <2> QED
      BY <2>1, <2>2, Zenon DEF KafkaTypes, Next, Publish, Step, SetInterval, SkipTopic, BuildFails, SendMessages,
                               Deliver, Reject, Return, vars
  <1>3. err' \in [Publishers -> BOOLEAN]
    BY Zenon DEF KafkaTypes, Next, Publish, Step, SetInterval, SkipTopic, AddMessage, BuildFails, SendMessages,
                 Deliver, Reject, Return, Idle, Forget, wvars, vars
  <1>4. /\ defined' \in [DOMAIN topics -> SUBSET (Keys \cup {NoId})]
        /\ pointed' \in [DOMAIN topics -> SUBSET Keys]
    <2>1. ASSUME NEW w \in Publishers, NEW i \in unsent[w], Deliver(w, i)
          PROVE  /\ defined' \in [DOMAIN topics -> SUBSET (Keys \cup {NoId})]
                 /\ pointed' \in [DOMAIN topics -> SUBSET Keys]
      <3>1. PICK msg : msg = payload[w][i]
        OBVIOUS
      <3>2. msg.t \in DOMAIN topics /\ msg.id \in Keys \cup {NoId} /\ (~ msg.full => msg.id \in Keys)
        <4>1. i \in DOMAIN payload[w]
          BY <2>1, WorkTypes, Zenon
        <4>2. msg \in Messages /\ (~ msg.full => msg.id \in Keys)
          BY <3>1, <4>1, WorkTypes, Zenon
        <4> QED
          BY <4>2 DEF Messages
      <3>3. IF msg.full THEN defined' = [defined EXCEPT ![msg.t] = @ \cup {msg.id}] /\ UNCHANGED pointed
                        ELSE pointed' = [pointed EXCEPT ![msg.t] = @ \cup {msg.id}] /\ UNCHANGED defined
        BY <2>1, <3>1, Zenon DEF Deliver
      <3> QED
        BY <3>2, <3>3 DEF KafkaTypes
    <2>2. UNCHANGED <<defined, pointed>> \/ \E w \in Publishers : \E i \in unsent[w] : Deliver(w, i)
      BY Zenon DEF Next, Publish, Step, SetInterval, SkipTopic, AddMessage, BuildFails, SendMessages, Reject, Return,
                   Forget, vars
    <2> QED
      BY <2>1, <2>2, Zenon DEF KafkaTypes
  <1> QED
    BY <1>1, <1>2, <1>3, <1>4 DEF KafkaTypes

\* The loop stays within the batch and the topics, and points are sent for
\* keys only.
THEOREM PublisherTypes == Spec => []TypeOK
  <1>1. Init => KafkaTypes
    BY Zenon DEF Init, KafkaTypes
  <1>2. WorkInv /\ KafkaTypes => TypeOK
    BY WorkTypes, Zenon DEF WorkInv, Parsed, Workers, KafkaTypes, TypeOK
  <1> QED
    BY <1>1, <1>2, InitWork, NextWork, NextTypes, PTL DEF Spec

-----------------------------------------------------------------------------
(* Points and the MetricData they need *)

\* Metrics with a valid Id.
Metrics == {m \in MetricData : m.id = [org |-> m.org, name |-> m.name]}

\* Nothing that callers pass, and nothing in Kafka, makes a Publish fail.
Reliable ==
  \A s \in Setups :
    /\ ~ s.mayFail
    /\ \A b \in s.batches : b \in Seq(Metrics) /\ \A i \in DOMAIN b : b[i].interval \/ s.flags.autoInterval

\* The message p is for a metric of the batch, and its topic lets that pass.
Fits(f, b, p) ==
  /\ p.m \in DOMAIN b /\ p.id = b[p.m].id /\ p.org = b[p.m].org
  /\ p.t \in DOMAIN f.topics /\ Selects(f, p.id, p.t)

\* All messages for a metric are what the metric is and have the same format.
Even(f, b, messages) ==
  /\ b \in Seq(Metrics) /\ \A i \in DOMAIN b : b[i].interval \/ f.autoInterval
  /\ \A i \in DOMAIN messages : Fits(f, b, messages[i])
  /\ \A i, j \in DOMAIN messages : messages[i].m = messages[j].m => messages[i].full = messages[j].full

\* A MetricData of key k is to be built for topic t, or is among the messages
\* s that are on their way.
Way(f, b, a, messages, s, t, k) ==
  \/ /\ a.m \in DOMAIN b /\ a.t <= t /\ b[a.m].id = k /\ Selects(f, k, t)
     /\ \E j \in DOMAIN messages : messages[j].m = a.m /\ messages[j].full
  \/ \E i \in s : messages[i].t = t /\ messages[i].id = k /\ messages[i].full

\* The keys of the points among the messages.
Points(messages) == {messages[i].id : i \in {j \in DOMAIN messages : ~ messages[j].full}}

\* The messages of w that Kafka may still get.
Going(w) == IF pc[w] = "send" THEN unsent[w] ELSE DOMAIN payload[w]

From(w, t, k) == Way(setup.flags, batch[w], at[w], payload[w], Going(w), t, k)

\* The MetricData of k has reached topic t or is on its way there.
Covered(t, k) == k \in defined[t] \/ \E w \in Publishers : From(w, t, k)

\* What the cache has seen, and every point, is covered in all topics that
\* let it pass.
Covers ==
  /\ \A t \in DOMAIN topics, k \in Keys :
       Selects(setup.flags, k, t) /\ (k \in seen \/ \E w \in Publishers : k \in Points(payload[w])) => Covered(t, k)
  /\ \A t \in DOMAIN topics, k \in Keys : k \in pointed[t] => Covered(t, k)

Resolved == (\A w \in Publishers : Even(setup.flags, batch[w], payload[w])) /\ Covers

PointInv == ~ Rewrites => Resolved

LEMMA MetricFacts ==
  ASSUME NEW m \in Metrics
  PROVE  /\ m \in MetricData /\ m.id \in Keys /\ m.id.org = m.org /\ m.id.name = m.name
         /\ \A f, t : Selects(f, m, t) <=> Selects(f, m.id, t)
  <1>1. m \in MetricData /\ m.id = [org |-> m.org, name |-> m.name]
    BY DEF Metrics
  <1>2. m.id \in Keys
    BY <1>1, PublisherAssumption DEF MetricData
  <1> QED
    BY <1>1, <1>2 DEF Selects

LEMMA IntervalMetric ==
  ASSUME NEW m \in Metrics, NEW n, n = SetId([m EXCEPT !.interval = TRUE])
  PROVE  n \in Metrics /\ n.id = m.id /\ n.org = m.org /\ n.interval
  <1>1. m \in MetricData /\ m.id = [org |-> m.org, name |-> m.name]
    BY DEF Metrics
  <1>2. PICK l : l = [m EXCEPT !.interval = TRUE]
    BY Zenon
  <1>3. l \in MetricData /\ l.id = m.id /\ l.org = m.org /\ l.name = m.name /\ l.interval
    BY <1>1, <1>2, Zenon DEF MetricData
  <1>4. SetId(l) = l
    <2>1. [org |-> l.org, name |-> l.name] = l.id
      BY <1>1, <1>3
    <2>2. [l EXCEPT !.id = l.id] = l
      BY <1>3 DEF MetricData
    <2> QED
      BY <2>1, <2>2 DEF SetId
  <1> QED
    BY <1>1, <1>2, <1>3, <1>4, Zenon DEF Metrics

\* Without rewriting, every topic gets the metric as it is, and the metric is
\* the same again afterwards.
LEMMA NoRewrite ==
  ASSUME ~ Rewrites, NEW m \in Metrics, NEW t \in DOMAIN topics
  PROVE  Rewrite(m, topics[t]) = m /\ Restore(m, m) = m
  <1>1. m \in MetricData /\ m.id = [org |-> m.org, name |-> m.name]
    BY DEF Metrics
  <1>2. m.org = topics[t].source => [m EXCEPT !.org = topics[t].target] = m
    BY <1>1 DEF Rewrites, MetricData
  <1>3. SetId(m) = m
    BY <1>1 DEF SetId, MetricData
  <1> QED
    BY <1>2, <1>3, Zenon DEF Rewrite, Restore

LEMMA EvenStarts ==
  ASSUME NEW f, NEW b \in Seq(Metrics), \A i \in DOMAIN b : b[i].interval \/ f.autoInterval
  PROVE  Even(f, b, <<>>) /\ Points(<<>>) = {}
  BY DEF Even, Points

\* There is a message for the metric of the loop as soon as the loop has passed
\* a topic that lets the metric pass.
LEMMA Earlier ==
  ASSUME NEW f, NEW b, NEW g, NEW a, NEW ms, Builds(f, b, g, a, ms), a.m \in DOMAIN b,
         NEW t \in DOMAIN f.topics, t < a.t, Selects(f, b[a.m], t)
  PROVE  \E i \in DOMAIN ms : ms[i].m = a.m
  <1>1. a.m \in DOMAIN g /\ Selects(f, g[a.m], t)
    <2>1. /\ a.m \in DOMAIN g /\ b[a.m] \in MetricData /\ g[a.m] \in MetricData
          /\ b[a.m].org = g[a.m].org /\ b[a.m].name = g[a.m].name
      BY DEF Builds, SameMetrics
    <2> QED
      BY <2>1, SelectsSame, Zenon
  <1>2. PICK y : y = <<a.m, t>>
    BY Zenon
  <1>3. y \in {x \in (DOMAIN g) \X (DOMAIN f.topics) : Selects(f, g[x[1]], x[2])}
    BY <1>1, <1>2, Zenon
  <1>4. [m |-> a.m, t |-> t, org |-> OrgFor(f, g[a.m], t)] \in SoFar(f, g, a)
    BY <1>2, <1>3 DEF Wanted, SoFar
  <1> QED
    BY <1>4 DEF Builds, Destinations

\* The interval is set.
LEMMA IntervalWay ==
  ASSUME NEW f, NEW b, NEW a, NEW ms, Even(f, b, ms), a.m \in DOMAIN b,
         NEW c, c = [b EXCEPT ![a.m] = SetId([b[a.m] EXCEPT !.interval = TRUE])]
  PROVE  /\ Even(f, c, ms)
         /\ \A s, t, k : Way(f, b, a, ms, s, t, k) => Way(f, c, a, ms, s, t, k)
  <1>1. b \in Seq(Metrics) /\ b[a.m] \in Metrics
    BY DEF Even
  <1>2. PICK n : n = SetId([b[a.m] EXCEPT !.interval = TRUE])
    OBVIOUS
  <1>3. n \in Metrics /\ n.id = b[a.m].id /\ n.org = b[a.m].org /\ n.interval
    BY <1>1, <1>2, IntervalMetric, Zenon
  <1>4. /\ c \in Seq(Metrics) /\ DOMAIN c = DOMAIN b
        /\ \A i \in DOMAIN b : c[i].id = b[i].id /\ c[i].org = b[i].org /\ (b[i].interval => c[i].interval)
    <2>1. c = [b EXCEPT ![a.m] = n]
      BY <1>2
    <2>2. c \in Seq(Metrics) /\ DOMAIN c = DOMAIN b
      BY <1>1, <1>3, <2>1
    <2>3. \A i \in DOMAIN b : c[i] = IF i = a.m THEN n ELSE b[i]
      BY <2>1, Zenon
    <2> QED
      BY <1>3, <2>2, <2>3, Zenon
  <1>5. Even(f, c, ms)
    <2>1. \A i \in DOMAIN ms : Fits(f, b, ms[i]) => Fits(f, c, ms[i])
      BY <1>4, Zenon DEF Fits
    <2> QED
      BY <1>4, <2>1, Zenon DEF Even
  <1>6. c[a.m].id = b[a.m].id /\ DOMAIN c = DOMAIN b
    BY <1>4, Zenon
  <1> QED
    BY <1>5, <1>6, Zenon DEF Way

\* A topic is passed over.
LEMMA SkipWay ==
  ASSUME NEW f, Flags(f), NEW a \in Positions, a.t \in DOMAIN f.topics, NEW b, a.m \in DOMAIN b, b[a.m] \in Metrics,
         ~ Selects(f, b[a.m], a.t), NEW ms, NEW s, NEW t \in DOMAIN f.topics, NEW k, Way(f, b, a, ms, s, t, k)
  PROVE  Way(f, b, After(f, a), ms, s, t, k)
  <1>1. CASE \E i \in s : ms[i].t = t /\ ms[i].id = k /\ ms[i].full
    BY <1>1, Zenon DEF Way
  <1>2. CASE /\ a.t <= t /\ b[a.m].id = k /\ Selects(f, k, t)
             /\ \E j \in DOMAIN ms : ms[j].m = a.m /\ ms[j].full
    <2>1. t # a.t
      <3>1. Selects(f, b[a.m], t) <=> Selects(f, b[a.m].id, t)
        BY MetricFacts, Zenon
      <3> QED
        BY <1>2, <3>1, Zenon
    <2>2. After(f, a).m = a.m /\ After(f, a).t <= t
      BY <1>2, <2>1 DEF After, Positions, Flags
    <2> QED
      BY <1>2, <2>2, Zenon DEF Way
  <1> QED
    BY <1>1, <1>2, Zenon DEF Way

\* A message for the metric of the loop, in the format of the earlier ones.
Fitting(f, b, a, ms, msg) ==
  /\ Flags(f) /\ a \in Positions /\ a.t \in DOMAIN f.topics /\ a.m \in DOMAIN b /\ b[a.m] \in Metrics
  /\ Selects(f, b[a.m], a.t) /\ ms \in Seq(Items) /\ Even(f, b, ms)
  /\ msg \in Items /\ msg.m = a.m /\ msg.t = a.t /\ msg.org = b[a.m].org /\ msg.id = b[a.m].id
  /\ \A i \in DOMAIN ms : ms[i].m = a.m => ms[i].full = msg.full

\* It is added: a MetricData is built for this topic and is to be built for the
\* later ones.
LEMMA AddWay ==
  ASSUME NEW f, NEW b, NEW a, NEW ms, NEW msg, Fitting(f, b, a, ms, msg), NEW ns, ns = Append(ms, msg)
  PROVE  /\ Even(f, b, ns)
         /\ msg.full => \A t \in DOMAIN f.topics : a.t <= t /\ Selects(f, msg.id, t) =>
                          Way(f, b, After(f, a), ns, DOMAIN ns, t, msg.id)
         /\ \A t \in DOMAIN f.topics : \A k :
              Way(f, b, a, ms, DOMAIN ms, t, k) => Way(f, b, After(f, a), ns, DOMAIN ns, t, k)
         /\ \A k \in Points(ns) : k \in Points(ms) \/ (k = msg.id /\ ~ msg.full)
  <1>1. PICK n : n = Len(ms) + 1
    OBVIOUS
  <1>2. DOMAIN ns = DOMAIN ms \cup {n} /\ ns[n] = msg /\ \A i \in DOMAIN ms : ns[i] = ms[i]
    BY <1>1 DEF Fitting
  <1>3. Fits(f, b, msg)
    BY MetricFacts, Zenon DEF Fitting, Fits
  <1>4. Even(f, b, ns)
    <2>1. \A i \in DOMAIN ns : Fits(f, b, ns[i])
      BY <1>2, <1>3, Zenon DEF Fitting, Even
    <2>2. \A i, j \in DOMAIN ns : ns[i].m = ns[j].m => ns[i].full = ns[j].full
      <3>1. \A i, j \in DOMAIN ms : ns[i].m = ns[j].m => ns[i].full = ns[j].full
        BY <1>2 DEF Fitting, Even
      <3>2. \A i \in DOMAIN ms : ns[i].m = ns[n].m => ns[i].full = ns[n].full
        BY <1>2, Zenon DEF Fitting
      <3> QED
        BY <1>2, <3>1, <3>2
    <2> QED
      BY <2>1, <2>2, Zenon DEF Fitting, Even
  <1>5. ASSUME msg.full, NEW t \in DOMAIN f.topics, a.t <= t, Selects(f, msg.id, t)
        PROVE  Way(f, b, After(f, a), ns, DOMAIN ns, t, msg.id)
    <2>1. CASE t = a.t
      BY <1>2, <1>5, <2>1 DEF Way, Fitting
    <2>2. CASE t # a.t
      <3>1. After(f, a).m = a.m /\ After(f, a).t <= t
        BY <1>5, <2>2 DEF After, Positions, Flags, Fitting
      <3> QED
        BY <1>2, <1>5, <3>1 DEF Way, Fitting
    <2> QED
      BY <2>1, <2>2, Zenon
  <1>6. ASSUME NEW t \in DOMAIN f.topics, NEW k, Way(f, b, a, ms, DOMAIN ms, t, k)
        PROVE  Way(f, b, After(f, a), ns, DOMAIN ns, t, k)
    <2>1. CASE \E i \in DOMAIN ms : ms[i].t = t /\ ms[i].id = k /\ ms[i].full
      BY <1>2, <2>1, Zenon DEF Way
    <2>2. CASE a.t <= t /\ b[a.m].id = k /\ Selects(f, k, t) /\ \E j \in DOMAIN ms : ms[j].m = a.m /\ ms[j].full
      <3>1. msg.full /\ k = msg.id
        BY <2>2, Zenon DEF Fitting
      <3> QED
        BY <1>5, <2>2, <3>1, Zenon
    <2> QED
      BY <1>6, <2>1, <2>2, Zenon DEF Way
  <1>7. \A k \in Points(ns) : k \in Points(ms) \/ (k = msg.id /\ ~ msg.full)
    BY <1>2 DEF Points
  <1> QED
    BY <1>4, <1>5, <1>6, <1>7, Zenon

\* A message that is sent is on its way no more.
LEMMA DeliverWay ==
  ASSUME NEW f, NEW b, NEW a, NEW ms, NEW s, NEW i, NEW t, NEW k, Way(f, b, a, ms, s, t, k)
  PROVE  Way(f, b, a, ms, s \ {i}, t, k) \/ (ms[i].t = t /\ ms[i].id = k /\ ms[i].full)
  BY Zenon DEF Way

\* What a step of w must show: a point is one that was there before or is made
\* for a key that was seen, and what is on its way stays so or arrives.
LEMMA PointsSuffice ==
  ASSUME Resolved, NEW w \in Publishers, Alone(w), UNCHANGED process,
         Even(setup.flags, batch'[w], payload'[w]),
         \A t \in DOMAIN topics : defined[t] \subseteq defined'[t],
         \A t \in DOMAIN topics, k \in Keys : From(w, t, k) => From(w, t, k)' \/ k \in defined'[t],
         \A k \in Points(payload'[w]) : k \in Points(payload[w]) \cup seen,
         \A t \in DOMAIN topics, k \in Keys : Selects(setup.flags, k, t) /\ k \in seen' => k \in seen \/ Covered(t, k)',
         \A t \in DOMAIN topics, k \in Keys : k \in pointed'[t] => k \in pointed[t] \/ Covered(t, k)
  PROVE  Resolved'
  <1>1. setup' = setup /\ topics' = topics
    BY Zenon DEF process
  <1>2. \A q \in Publishers : Even(setup.flags, batch[q], payload[q])'
    BY <1>1, Zenon DEF Resolved, Alone
  <1>3. \A q \in Publishers \ {w} : \A t, k : From(q, t, k) => From(q, t, k)'
    BY <1>1, Zenon DEF Alone, From, Going
  <1>4. ASSUME NEW t \in DOMAIN topics, NEW k \in Keys, Covered(t, k)
        PROVE  Covered(t, k)'
    BY <1>3, <1>4, Zenon DEF Covered
  <1>5. ASSUME NEW k \in Keys, NEW q \in Publishers, k \in Points(payload'[q])
        PROVE  k \in seen \/ \E p \in Publishers : k \in Points(payload[p])
    BY <1>5, Zenon DEF Alone
  <1>6. Covers'
    BY <1>1, <1>4, <1>5, Zenon DEF Resolved, Covers
  <1> QED
    BY <1>2, <1>6, Zenon DEF Resolved

LEMMA PublishPoints ==
  ASSUME Reliable, WorkInv, Resolved, NEW w \in Publishers, NEW b \in setup.batches, Publish(w, b)
  PROVE  Resolved'
  <1>1. b \in Seq(Metrics) /\ \A i \in DOMAIN b : b[i].interval \/ setup.flags.autoInterval
    BY DEF Reliable, WorkInv, Parsed
  <1>2. Even(setup.flags, b, <<>>) /\ Points(<<>>) = {}
    BY <1>1, EvenStarts, Zenon
  <1>3. /\ UNCHANGED <<process, seen, payload, defined, pointed>> /\ Alone(w)
        /\ batch'[w] = b /\ payload[w] = <<>> /\ batch[w] = <<>> /\ Going(w) = {}
    <2>1. UNCHANGED <<process, seen, payload, defined, pointed>> /\ pc[w] = "idle" /\ batch'[w] = b
      BY Zenon DEF Publish, WorkInv, Workers
    <2>2. payload[w] = <<>> /\ batch[w] = <<>>
      BY <2>1, Zenon DEF WorkInv, Worker
    <2> QED
      BY <2>1, <2>2, PublishWork DEF Going
  <1>4. \A t, k : ~ From(w, t, k)
    BY <1>3 DEF From, Way
  <1> QED
    BY <1>2, <1>3, <1>4, PointsSuffice, Zenon

LEMMA SetIntervalPoints ==
  ASSUME WorkInv, Resolved, NEW w \in Publishers, SetInterval(w)
  PROVE  Resolved'
  <1>1. /\ InLoop(w) /\ UNCHANGED <<process, seen, pc, at, payload, unsent, defined, pointed>> /\ Alone(w)
        /\ batch'[w] = [batch[w] EXCEPT ![at[w].m] = SetId([@ EXCEPT !.interval = TRUE])]
    <2>1. batch' = [batch EXCEPT ![w] = [batch[w] EXCEPT ![at[w].m] = SetId([@ EXCEPT !.interval = TRUE])]]
      BY Zenon DEF SetInterval
    <2>2. InLoop(w) /\ UNCHANGED <<process, seen, pc, at, payload, unsent, defined, pointed>>
      BY Zenon DEF SetInterval, NeedsInterval
    <2> QED
      BY <2>1, <2>2, SetIntervalWork, Zenon DEF WorkInv, Workers
  <1>2. PICK c : c = [batch[w] EXCEPT ![at[w].m] = SetId([batch[w][at[w].m] EXCEPT !.interval = TRUE])]
    BY Zenon
  <1>3. /\ Even(setup.flags, c, payload[w])
        /\ \A s, t, k : Way(setup.flags, batch[w], at[w], payload[w], s, t, k) =>
                          Way(setup.flags, c, at[w], payload[w], s, t, k)
    BY <1>1, <1>2, InLoopFacts, IntervalWay DEF Resolved
  <1>4. batch'[w] = c /\ Going(w)' = Going(w) /\ setup' = setup
    BY <1>1, <1>2, Zenon DEF Going, process
  <1>5. \A t, k : From(w, t, k) => From(w, t, k)'
    BY <1>1, <1>3, <1>4, Zenon DEF From
  <1> QED
    BY <1>1, <1>3, <1>4, <1>5, PointsSuffice, Zenon

LEMMA SkipTopicPoints ==
  ASSUME WorkInv, Resolved, NEW w \in Publishers, SkipTopic(w)
  PROVE  Resolved'
  <1>1. /\ InLoop(w) /\ UNCHANGED <<process, seen, pc, batch, payload, unsent, defined, pointed>> /\ Alone(w)
        /\ ~ Passes(Metric(w), Topic(w)) /\ at'[w] = After(setup.flags, at[w])
    BY SkipTopicWork, AdvanceIsAfter, Zenon DEF SkipTopic
  <1>2. /\ Flags(setup.flags) /\ at[w] \in Positions /\ at[w].t \in DOMAIN setup.flags.topics
        /\ at[w].m \in DOMAIN batch[w] /\ DOMAIN topics = DOMAIN setup.flags.topics
    BY <1>1, InLoopFacts, ParsedTopics, Zenon DEF Builds, WorkInv
  <1>3. Even(setup.flags, batch[w], payload[w]) /\ batch[w][at[w].m] \in Metrics
    BY <1>2 DEF Resolved, Even
  <1>4. ~ Selects(setup.flags, batch[w][at[w].m], at[w].t)
    <2>1. /\ Topic(w) = ParseTopicSettings(setup.flags)[at[w].t] /\ Metric(w) = batch[w][at[w].m]
          /\ Metric(w) \in MetricData /\ at[w].t \in DOMAIN ParseTopicSettings(setup.flags)
      BY <1>1, InLoopFacts, Zenon DEF WorkInv, Parsed
    <2>2. Passes(Metric(w), Topic(w)) <=> Selects(setup.flags, Metric(w), at[w].t)
      BY <1>2, <2>1, Settings, Zenon
    <2> QED
      BY <1>1, <2>1, <2>2, Zenon
  <1>5. Going(w)' = Going(w) /\ setup' = setup
    BY <1>1 DEF Going, process
  <1>6. \A t \in DOMAIN topics, k \in Keys : From(w, t, k) => From(w, t, k)'
    BY <1>1, <1>2, <1>3, <1>4, <1>5, SkipWay, Zenon DEF From
  <1> QED
    BY <1>1, <1>3, <1>5, <1>6, PointsSuffice, Zenon

LEMMA SendMessagesPoints ==
  ASSUME WorkInv, Resolved, NEW w \in Publishers, SendMessages(w)
  PROVE  Resolved'
  <1>1. UNCHANGED <<process, seen, batch, at, payload, defined, pointed>> /\ Alone(w)
    BY SendWork, Zenon DEF SendMessages
  <1>2. Going(w)' = Going(w) /\ setup' = setup
    BY <1>1, Zenon DEF SendMessages, Going, WorkInv, Workers, process
  <1>3. \A t, k : From(w, t, k) => From(w, t, k)'
    BY <1>1, <1>2 DEF From
  <1> QED
    BY <1>1, <1>2, <1>3, PointsSuffice, Zenon DEF Resolved

LEMMA ReturnPoints ==
  ASSUME WorkInv, Resolved, NEW w \in Publishers, Return(w)
  PROVE  Resolved'
  <1>1. /\ UNCHANGED <<process, seen, defined, pointed>> /\ Alone(w) /\ Going(w) = {}
        /\ batch'[w] = <<>> /\ payload'[w] = <<>>
    <2>1. UNCHANGED <<process, seen, unsent, defined, pointed>> /\ Idle(w) /\ pc[w] = "send" /\ unsent[w] = {}
      BY DEF Return, Sent
    <2>2. batch'[w] = <<>> /\ payload'[w] = <<>>
      BY <2>1, Zenon DEF Idle, WorkInv, Workers
    <2> QED
      BY <2>1, <2>2, IdleWork, Zenon DEF Going
  <1>2. at[w].m \notin DOMAIN batch[w]
    BY DEF Return, Sent, WorkInv, Worker, Builds, SameMetrics
  <1>3. \A t, k : ~ From(w, t, k)
    BY <1>1, <1>2, Zenon DEF From, Way
  <1>4. Even(setup.flags, <<>>, <<>>) /\ Points(<<>>) = {}
    BY DEF Even, Points
  <1> QED
    BY <1>1, <1>3, <1>4, PointsSuffice, Zenon

LEMMA DeliverPoints ==
  ASSUME WorkInv, KafkaTypes, Resolved, NEW w \in Publishers, NEW i \in unsent[w], Deliver(w, i)
  PROVE  Resolved'
  <1>1. UNCHANGED <<process, seen, pc, batch, at, payload>> /\ Alone(w)
    BY SendWork, Zenon DEF Deliver
  <1>2. i \in DOMAIN payload[w] /\ Going(w) = unsent[w] /\ Going(w)' = unsent[w] \ {i}
    BY <1>1, Zenon DEF Deliver, WorkInv, Workers, Worker, Going
  <1>3. PICK msg : msg = payload[w][i]
    OBVIOUS
  <1>4. Even(setup.flags, batch[w], payload[w]) /\ setup' = setup
    BY <1>1 DEF Resolved, process
  <1>5. msg.t \in DOMAIN topics /\ msg.id \in Keys /\ Selects(setup.flags, msg.id, msg.t)
    <2>1. Fits(setup.flags, batch[w], msg) /\ batch[w] \in Seq(Metrics)
      BY <1>2, <1>3, <1>4, Zenon DEF Even
    <2>2. batch[w][msg.m] \in Metrics
      BY <2>1 DEF Fits
    <2> QED
      BY <2>1, <2>2, MetricFacts, ParsedTopics, Zenon DEF Fits, WorkInv
  <1>6. /\ \A t \in DOMAIN topics : defined[t] \subseteq defined'[t]
        /\ \A t \in DOMAIN topics, k \in Keys :
             k \in pointed'[t] => k \in pointed[t] \/ (t = msg.t /\ k = msg.id /\ ~ msg.full)
        /\ msg.full => msg.id \in defined'[msg.t]
    <2>1. CASE msg.full
      <3>1. pointed' = pointed /\ defined' = [defined EXCEPT ![msg.t] = @ \cup {msg.id}]
        BY <1>3, <2>1, Zenon DEF Deliver
      <3> QED
        BY <1>5, <3>1, Zenon DEF KafkaTypes
    <2>2. CASE ~ msg.full
      <3>1. defined' = defined /\ pointed' = [pointed EXCEPT ![msg.t] = @ \cup {msg.id}]
        BY <1>3, <2>2, Zenon DEF Deliver
      <3> QED
        BY <1>5, <2>2, <3>1, Zenon DEF KafkaTypes
    <2> QED
      BY <2>1, <2>2, Zenon
  <1>7. \A t \in DOMAIN topics, k \in Keys : From(w, t, k) => From(w, t, k)' \/ k \in defined'[t]
    <2>1. \A t, k : From(w, t, k) <=> Way(setup.flags, batch[w], at[w], payload[w], unsent[w], t, k)
      BY <1>2 DEF From
    <2>2. \A t, k : From(w, t, k)' <=> Way(setup.flags, batch[w], at[w], payload[w], unsent[w] \ {i}, t, k)
      BY <1>1, <1>2, <1>4, Zenon DEF From
    <2> QED
      BY <1>3, <1>6, <2>1, <2>2, DeliverWay, Zenon
  <1>8. ~ msg.full => Covered(msg.t, msg.id)
    <2>1. ~ msg.full => msg.id \in Points(payload[w])
      BY <1>2, <1>3, Zenon DEF Points
    <2> QED
      BY <1>5, <2>1, Zenon DEF Resolved, Covers
  <1> QED
    BY <1>1, <1>4, <1>6, <1>7, <1>8, PointsSuffice, Zenon

\* The message has the format that was chosen for an earlier topic, or there
\* was none and the key cache was asked: then, if a MetricData was chosen, it
\* is built for this topic and all that follow.
LEMMA AddMessagePoints ==
  ASSUME ~ Rewrites, WorkInv, Resolved, NEW w \in Publishers, AddMessage(w)
  PROVE  Resolved'
  <1>1. /\ InLoop(w) /\ Passes(Metric(w), Topic(w)) /\ UNCHANGED <<process, pc, unsent, defined, pointed>>
        /\ Alone(w) /\ at'[w] = After(setup.flags, at[w])
    BY AddMessageWork, AdvanceIsAfter, Zenon DEF AddMessage
  <1>2. PICK f, b, a, ms : f = setup.flags /\ b = batch[w] /\ a = at[w] /\ ms = payload[w]
    BY Zenon
  <1>3. /\ Flags(f) /\ Builds(f, b, given[w], a, ms) /\ a.m \in DOMAIN b /\ a.t \in DOMAIN topics
        /\ topics = ParseTopicSettings(f) /\ Metric(w) = b[a.m] /\ Topic(w) = topics[a.t] /\ pc[w] = "build"
    BY <1>1, <1>2, InLoopFacts, Zenon DEF WorkInv, Parsed, Topic
  <1>4. a \in Positions /\ ms \in Seq(Items) /\ a.t \in DOMAIN f.topics /\ DOMAIN topics = DOMAIN f.topics
    BY <1>2, <1>3, ParsedTopics, Zenon DEF Builds, WorkInv
  <1>5. Even(f, b, ms)
    BY <1>2 DEF Resolved
  <1>6. PICK m \in Metrics : m = b[a.m]
    BY <1>3, <1>5 DEF Even
  <1>7. Rewrite(m, Topic(w)) = m /\ Restore(m, m) = m
    BY <1>3, NoRewrite
  <1>8. Selects(f, m, a.t)
    BY <1>1, <1>3, <1>6, MetricFacts, Settings
  <1>9. batch'[w] = b
    <2>1. batch' = [batch EXCEPT ![w] = [b EXCEPT ![a.m] = Restore(Rewrite(m, Topic(w)), m)]]
      BY <1>2, <1>3, <1>6, Zenon DEF AddMessage
    <2> QED
      BY <1>3, <1>5, <1>6, <1>7, <2>1 DEF Even, WorkInv, Workers
  <1>10. PICK full \in BOOLEAN :
           /\ \/ full \in Buffered(w, m.org) /\ UNCHANGED seen
              \/ Buffered(w, m.org) = {} /\ DataFromMetricData(m, full)
           /\ payload' = [payload EXCEPT ![w] = Append(@, [m |-> a.m, t |-> a.t, org |-> m.org, id |-> m.id, full |-> full])]
    BY <1>2, <1>3, <1>6, <1>7, Zenon DEF AddMessage
  <1>11. PICK msg : msg = [m |-> a.m, t |-> a.t, org |-> m.org, id |-> m.id, full |-> full]
    BY Zenon
  <1>12. PICK ns : ns = Append(ms, msg)
    BY Zenon
  <1>13. payload'[w] = ns
    BY <1>2, <1>10, <1>11, <1>12, Zenon DEF WorkInv, Workers
  <1>14. \/ (\E j \in DOMAIN ms : ms[j].m = a.m /\ ms[j].full = full) /\ seen' = seen
         \/ (\A j \in DOMAIN ms : ms[j].m # a.m) /\ seen' \subseteq seen \cup {m.id} /\ (~ full => m.id \in seen)
    <2>1. Buffered(w, m.org) = {ms[j].full : j \in {i \in DOMAIN ms : ms[i].m = a.m}}
      <3>1. \A j \in DOMAIN ms : ms[j].m = a.m => ms[j].org = m.org
        BY <1>5, <1>6, Zenon DEF Even, Fits
      <3> QED
        BY <1>2, <3>1, Zenon DEF Buffered
    <2>2. DataFromMetricData(m, full) => seen' \subseteq seen \cup {m.id} /\ (~ full => m.id \in seen)
      BY DEF DataFromMetricData, Filter!Answer
    <2> QED
      BY <1>10, <2>1, <2>2, Zenon
  <1>15. \A j \in DOMAIN ms : ms[j].m = a.m => ms[j].full = full /\ ms[j].id = m.id
    BY <1>5, <1>6, <1>14 DEF Even, Fits
  <1>16. /\ msg \in Items /\ msg.m = a.m /\ msg.t = a.t /\ msg.org = m.org /\ msg.id = m.id /\ msg.full = full
    BY <1>4, <1>6, <1>11, MetricFacts, Zenon DEF Items, MetricData, Positions
  <1>17. /\ Even(f, b, ns)
         /\ msg.full => \A t \in DOMAIN f.topics : a.t <= t /\ Selects(f, msg.id, t) =>
                          Way(f, b, After(f, a), ns, DOMAIN ns, t, msg.id)
         /\ \A t \in DOMAIN f.topics : \A k :
              Way(f, b, a, ms, DOMAIN ms, t, k) => Way(f, b, After(f, a), ns, DOMAIN ns, t, k)
         /\ \A k \in Points(ns) : k \in Points(ms) \/ (k = msg.id /\ ~ msg.full)
    <2>1. Fitting(f, b, a, ms, msg)
      BY <1>3, <1>4, <1>5, <1>6, <1>8, <1>15, <1>16, Zenon DEF Fitting
    <2> QED
      BY <1>12, <2>1, AddWay, Zenon
  <1>18. /\ \A t, k : From(w, t, k) <=> Way(f, b, a, ms, DOMAIN ms, t, k)
         /\ \A t, k : From(w, t, k)' <=> Way(f, b, After(f, a), ns, DOMAIN ns, t, k)
    BY <1>1, <1>2, <1>3, <1>9, <1>13, Zenon DEF From, Going, process
  <1>19. \A k \in Points(ns) : k \in Points(ms) \cup seen
    <2>1. ASSUME NEW j \in DOMAIN ms, ms[j].m = a.m, ~ ms[j].full
          PROVE  m.id \in Points(ms)
      BY <1>15, <2>1 DEF Points
    <2> QED
      BY <1>14, <1>16, <1>17, <2>1, Zenon
  <1>20. ASSUME NEW t \in DOMAIN topics, NEW k \in Keys, Selects(f, k, t), k \in seen', k \notin seen
         PROVE  Covered(t, k)'
    <2>1. (\A j \in DOMAIN ms : ms[j].m # a.m) /\ k = m.id /\ full
      BY <1>14, <1>20
    <2>2. Selects(f, m, t)
      BY <1>20, <2>1, MetricFacts
    <2>3. ~ (t < a.t)
      BY <1>3, <1>4, <1>6, <2>1, <2>2, Earlier
    <2>4. a.t <= t
      BY <1>3, <1>4, <2>3 DEF Flags, Positions
    <2> QED
      BY <1>4, <1>16, <1>17, <1>18, <1>20, <2>1, <2>4, Zenon DEF Covered
  <1> QED
    BY <1>1, <1>2, <1>4, <1>9, <1>13, <1>17, <1>18, <1>19, <1>20, PointsSuffice, Zenon

LEMMA NextPoints ==
  ASSUME Reliable, WorkInv, KafkaTypes, PointInv, [Next]_vars
  PROVE  PointInv'
  <1>1. UNCHANGED process
    BY Zenon DEF Next, Publish, Step, SetInterval, SkipTopic, AddMessage, BuildFails, SendMessages, Deliver, Reject, Return,
           Forget, vars
  <1>2. SUFFICES ASSUME ~ Rewrites
                 PROVE  Resolved'
    BY <1>1 DEF PointInv, Rewrites, process
  <1>3. Resolved
    BY <1>2 DEF PointInv
  <1>4. ASSUME NEW w \in Publishers
        PROVE  ~ BuildFails(w) /\ \A i \in unsent[w] : ~ Reject(w, i)
    <2>1. ASSUME InLoop(w)
          PROVE  ~ BuildFails(w)
      <3>1. /\ at[w].m \in DOMAIN batch[w] /\ Metric(w) = batch[w][at[w].m] /\ Topic(w) = topics[at[w].t]
            /\ at[w].t \in DOMAIN topics
        BY <2>1, InLoopFacts, Zenon DEF Topic
      <3>2. Metric(w) \in Metrics /\ (Metric(w).interval \/ setup.flags.autoInterval)
        BY <1>3, <3>1 DEF Resolved, Even
      <3>3. Rewrite(Metric(w), Topic(w)).id \in Keys
        BY <1>2, <3>1, <3>2, NoRewrite, MetricFacts, Zenon
      <3> QED
        BY <3>2, <3>3, Zenon DEF BuildFails, NeedsInterval
    <2> QED
      BY <2>1, Zenon DEF BuildFails, NeedsInterval, Reject, Reliable, WorkInv, Parsed
  <1>5. CASE UNCHANGED <<wvars, defined, pointed>> /\ seen' \subseteq seen
    <2>1. \A w \in Publishers : \A t, k : From(w, t, k) <=> From(w, t, k)'
      BY <1>1, <1>5, Zenon DEF From, Going, process, wvars
    <2>2. \A t, k : Covered(t, k) => Covered(t, k)'
      BY <1>5, <2>1 DEF Covered
    <2> QED
      BY <1>1, <1>3, <1>5, <2>2, Zenon DEF Resolved, Covers, process, wvars
  <1>6. CASE Forget \/ UNCHANGED vars
    BY <1>5, <1>6 DEF Forget, Filter!Forget, vars
  <1>7. ASSUME NEW w \in Publishers, Step(w)
        PROVE  Resolved'
    BY <1>2, <1>3, <1>4, <1>7, SetIntervalPoints, SkipTopicPoints, AddMessagePoints, SendMessagesPoints, DeliverPoints,
       ReturnPoints, Zenon DEF Step
  <1> QED
    BY <1>3, <1>6, <1>7, PublishPoints DEF Next

\* However many publishers share the key cache, and whatever it forgets: no
\* topic has a point, or is about to get one, without the MetricData of its
\* key or one on its way.  A Publish that fails breaks this, since the key
\* cache has then seen a key whose MetricData is lost.
THEOREM PointsAreResolved ==
  ASSUME Reliable
  PROVE  Spec => []PointsFollowDefinition
  <1>1. Init => KafkaTypes /\ PointInv
    <2>1. Init => KafkaTypes
      BY Zenon DEF Init, KafkaTypes
    <2>2. Init => Resolved
      BY DEF Init, Resolved, Even, Covers, Points
    <2> QED
      BY <2>1, <2>2 DEF PointInv
  <1>2. WorkInv /\ PointInv => PointsFollowDefinition
    <2> SUFFICES ASSUME WorkInv, ~ Rewrites, Resolved, NEW t \in DOMAIN topics, NEW k \in Keys, Pointed(t, k)
                 PROVE  k \in defined[t] \/ OnItsWay(t, k)
      BY DEF PointInv, PointsFollowDefinition
    <2>1. Covered(t, k)
      <3>1. ASSUME NEW w \in Publishers, NEW i \in DOMAIN payload[w],
                   payload[w][i].t = t, payload[w][i].id = k, ~ payload[w][i].full
            PROVE  Covered(t, k)
        <4>1. k \in Points(payload[w]) /\ Selects(setup.flags, k, t)
          BY <3>1, Zenon DEF Points, Resolved, Even, Fits
        <4> QED
          BY <4>1, Zenon DEF Resolved, Covers
      <3> QED
        BY <3>1, Zenon DEF Pointed, Resolved, Covers
    <2>2. ASSUME NEW w \in Publishers, From(w, t, k)
          PROVE  OnItsWay(t, k)
      <3>1. CASE \E i \in Going(w) : payload[w][i].t = t /\ payload[w][i].id = k /\ payload[w][i].full
        BY <3>1 DEF OnItsWay, Going, WorkInv, Workers, Worker
      <3>2. CASE /\ at[w].m \in DOMAIN batch[w] /\ at[w].t <= t
                 /\ batch[w][at[w].m].id = k /\ Selects(setup.flags, k, t)
                 /\ \E j \in DOMAIN payload[w] : payload[w][j].m = at[w].m /\ payload[w][j].full
        <4>1. InLoop(w)
          BY <3>2 DEF InLoop, WorkInv, Workers, Worker, Builds, SameMetrics, Positions
        <4>2. PICK m \in Metrics : m = batch[w][at[w].m] /\ m = Metric(w)
          BY <3>2 DEF Resolved, Even, Metric
        <4>3. Passes(m, topics[t]) /\ Rewrite(m, topics[t]).id = k
          BY <3>2, <4>2, MetricFacts, NoRewrite, Settings, ParsedFlags, Zenon DEF WorkInv, Parsed
        <4>4. PICK j \in DOMAIN payload[w] : payload[w][j].m = at[w].m /\ payload[w][j].full = TRUE
          BY <3>2, Zenon DEF WorkInv, Worker, Builds, Items
        <4>5. payload[w][j].org = k.org
          <5>1. Fits(setup.flags, batch[w], payload[w][j])
            BY <4>4, Zenon DEF Resolved, Even
          <5>2. m.id.org = m.org
            BY MetricFacts
          <5> QED
            BY <3>2, <4>2, <4>4, <5>1, <5>2, Zenon DEF Fits
        <4>6. TRUE \in Buffered(w, k.org)
          BY <4>4, <4>5, Zenon DEF Buffered
        <4> QED
          BY <3>2, <4>1, <4>2, <4>3, <4>6, Zenon DEF OnItsWay, AboutToAdd
      <3> QED
        BY <2>2, <3>1, <3>2, Zenon DEF From, Way
    <2> QED
      BY <2>1, <2>2 DEF Covered
  <1> QED
    BY <1>1, <1>2, InitWork, NextWork, NextTypes, NextPoints, PTL DEF Spec
=============================================================================
