-------------------------- MODULE MCKafkaPublisher --------------------------
(* Command lines and batches for model checking KafkaPublisher. *)
EXTENDS KafkaPublisher

MCKeys == [org : {1, 2}, name : {"a", "b"}]

Point(org, name) == SetId([org |-> org, name |-> name, interval |-> TRUE, id |-> NoId])
NoInterval(org, name) == [Point(org, name) EXCEPT !.interval = FALSE]
AdminPoint(org, name) == [Point(org, name) EXCEPT !.id = NoId]

\* Two topics; the lists are only-org-id, discard-prefixes and rewrite-org-id.
CommandLine(v2, auto, only, discard, rewrite) ==
  [v2 |-> v2, autoInterval |-> auto, topics |-> <<"mdm", "mdm2">>, schemes |-> <<"bySeries">>,
   onlyOrgIds |-> only, discardPrefixes |-> discard, rewriteOrgId |-> rewrite]

\* The second topic has filters; the flags are the defaults otherwise.
Plain == CommandLine(TRUE, TRUE, <<0, 1>>, <<{}, {"b"}>>, <<>>)

\* The first topic rewrites org 1 into org 2, and the second has filters of
\* its own, or both are restricted to org 1; the last two do not parse.
Rewriting ==
  {CommandLine(v2, auto, only, <<{}, {"b"}>>, <<<<1, 2>>, <<>>>>) :
     v2 \in BOOLEAN, auto \in BOOLEAN, only \in {<<0, 1>>, <<1>>}}
    \cup {CommandLine(TRUE, TRUE, <<0, 1, 2>>, <<>>, <<>>), CommandLine(TRUE, TRUE, <<>>, <<{"b"}>>, <<>>)}

\* Two concurrent calls of Publish, metrics of one key, nothing is rejected.
ConcurrentSetup ==
  [flags |-> Plain, callers |-> Publishers, mayFail |-> FALSE,
   batches |-> {<<Point(1, "a")>>, <<Point(1, "a"), Point(1, "a")>>}]

\* One call at a time, rewriting, mixed batches and Kafka errors.
RewritingSetups ==
  {[flags |-> f, callers |-> {CHOOSE w \in Publishers : TRUE}, mayFail |-> TRUE,
    batches |-> {<<NoInterval(1, "a"), Point(2, "a")>>, <<Point(1, "b"), AdminPoint(2, "a")>>}] : f \in Rewriting}

MCSetups == {ConcurrentSetup} \cup RewritingSetups

\* One call at a time and Kafka errors, nothing is rewritten.
FailingSetups ==
  {[flags |-> Plain, callers |-> Publishers, mayFail |-> TRUE,
    batches |-> {<<Point(1, "a"), Point(1, "a")>>, <<Point(1, "b"), Point(1, "a")>>}]}
=============================================================================
