--------------------------- MODULE MetricsIngest ---------------------------
(***************************************************************************)
(* POST /metrics: the middleware chain, the rate limiter of an org and the *)
(* handlers metricsJson and metricsBinary, which differ only in how they   *)
(* decode a body.                                                          *)
(*                                                                         *)
(* The unit of time is what a limiter takes to earn one token; a limiter   *)
(* reads the clock and changes its state in one step.                      *)
(***************************************************************************)
EXTENDS Integers, Sequences, FiniteSets, SequencesExt

CONSTANTS
  MaxRequests, \* bound on the number of requests
  Senders,     \* [org, admin, publisher]: what Auth makes of the credentials
  Bodies,      \* sequences of [org, err]: the metrics of a body, and what
               \* Validate returns for them
  Reasons,     \* the errors of Validate; NoError is its success
  Limited,     \* the orgs with a rate limit
  Burst,       \* their limit, which is also their burst
  EnforceRoles,
  Nobody, NoError,
  MaxArrival   \* bound on the time at which requests arrive

ASSUME IngestAssumption ==
  /\ Burst \in Nat \ {0} /\ MaxArrival \in Nat /\ MaxRequests \in Nat
  /\ EnforceRoles \in BOOLEAN /\ Nobody \notin Senders /\ NoError \notin Reasons
  /\ \A b \in Bodies : /\ b \in Seq({b[i] : i \in DOMAIN b})
                        /\ \A i \in DOMAIN b : b[i].err \in Reasons \cup {NoError}

VARIABLES
  now,
  lim,       \* lim[o]: the rate.Limiter of org o
  st,        \* st[r]: where the goroutine of r is, or the status r was answered with
  from,      \* from[r]: who sent r
  canceled,  \* canceled[r]: the context of r is done
  body,      \* body[r]: the metrics received
  batch,     \* batch[r]: toPublish, the metrics under their places in the body
  resp,      \* resp[r]: the MetricsResponse, but for Published
  grants,    \* grants[r]: what the limiter has given r: n tokens at some time
  misled     \* history: the orgs whose limiter has taken tokens back while its
             \* lastEvent was earlier than the time of a grant

data == <<body, batch, resp>>
vars == <<now, lim, st, from, canceled, data, grants, misled>>

\* The goroutines of the HTTP server, numbered as their requests arrive.
Requests == 1 .. MaxRequests

\* Status 200, and all others.
Answers == {"ok", "refused"}
NoTime == - Burst

NewMetricsResponse == [invalid |-> 0, errors |-> [e \in Reasons |-> [count |-> 0, examples |-> <<>>]]]

Init ==
  /\ now = 0
  /\ lim = [o \in Limited |-> [tokens |-> 0, last |-> NoTime, lastEvent |-> NoTime]]
  /\ st = [r \in Requests |-> "new"]
  /\ from = [r \in Requests |-> Nobody]
  /\ canceled = [r \in Requests |-> FALSE]
  /\ body = [r \in Requests |-> <<>>]
  /\ batch = [r \in Requests |-> <<>>]
  /\ resp = [r \in Requests |-> NewMetricsResponse]
  /\ grants = [r \in Requests |-> <<>>]
  /\ misled = {}

Active(r) == st[r] \notin Answers \cup {"new"}
Org(r) == from[r].org

-----------------------------------------------------------------------------
(* rate.Limiter *)

\* Mutant: the limiter forgets to cap what it earns.
AdvanceUncapped(l) == l.tokens + (now - l.last)

\* The tokens at this time: what was earned since last, up to the burst.
Advance(l) == Min({Burst, l.tokens + (now - l.last)})

\* The limiter after a reservation of n; lastEvent is when it may be used.
ReserveN(l, n) ==
  LET tokens == Advance(l) - n IN
  [tokens |-> tokens, last |-> now, lastEvent |-> now + Max({0, - tokens})]

\* Mutant: all tokens are given back, also those reserved by others since.
CancelAtFull(l, t, n) ==
  IF n = 0 \/ t < now THEN l ELSE [l EXCEPT !.tokens = Min({Burst, Advance(l) + n}), !.last = now]

\* CancelAt, for a reservation of n to be used at time t: tokens reserved
\* after it are not given back.
CancelAt(l, t, n) ==
  LET restore == n - (l.lastEvent - t)
      prevEvent == t - n
  IN  IF n = 0 \/ t < now \/ restore <= 0
      THEN l
      ELSE [tokens |-> Min({Burst, Advance(l) + restore}),
            last |-> now,
            lastEvent |-> IF t = l.lastEvent /\ prevEvent >= now THEN prevEvent ELSE l.lastEvent]

-----------------------------------------------------------------------------
(* The middleware *)

Goto(r, s) == st' = [st EXCEPT ![r] = s]

\* The goroutine writes its answer and ends.
Answer(r, a) ==
  /\ Goto(r, a)
  /\ body' = [body EXCEPT ![r] = <<>>]
  /\ batch' = [batch EXCEPT ![r] = <<>>]
  /\ resp' = [resp EXCEPT ![r] = NewMetricsResponse]
  /\ canceled' = [canceled EXCEPT ![r] = FALSE]

\* Auth has accepted the credentials.
Arrive(r, s) ==
  /\ st[r] = "new" /\ \A q \in 1 .. r - 1 : st[q] # "new"
  /\ now <= MaxArrival
  /\ from' = [from EXCEPT ![r] = s]
  /\ UNCHANGED <<now, canceled, data, misled>>

MayPublish(s) == EnforceRoles => s.publisher

\* RequirePublisher: 401.
Unauthorized(r, s) ==
  /\ Arrive(r, s)
  /\ ~ MayPublish(s)
  /\ Goto(r, "refused")
  /\ UNCHANGED <<lim, grants>>

\* IngestRateLimiter: Allow takes one token if there is one.
Allow(r, s) ==
  /\ Arrive(r, s)
  /\ MayPublish(s)
  /\ s.org \in Limited /\ Advance(lim[s.org]) >= 1
  /\ lim' = [lim EXCEPT ![s.org] = ReserveN(@, 1)]
  /\ grants' = [grants EXCEPT ![r] = <<[at |-> now, n |-> 1]>>]
  /\ Goto(r, "body")

\* 429.
Reject(r, s) ==
  /\ Arrive(r, s)
  /\ MayPublish(s)
  /\ s.org \in Limited /\ Advance(lim[s.org]) < 1
  /\ Goto(r, "refused")
  /\ UNCHANGED <<lim, grants>>

PassUnlimited(r, s) ==
  /\ Arrive(r, s)
  /\ MayPublish(s)
  /\ s.org \notin Limited
  /\ Goto(r, "body")
  /\ UNCHANGED <<lim, grants>>

-----------------------------------------------------------------------------
(* The handler *)

\* No body or one that does not decode (400), or a read error (500, or 499
\* once the context is done).
RefuseBody(r) ==
  /\ st[r] = "body"
  /\ Answer(r, "refused")
  /\ UNCHANGED <<now, lim, from, grants, misled>>

\* Mutant: examples without end.
AddInvalidAlways(res, e, i) ==
  [invalid |-> res.invalid + 1,
   errors |-> [res.errors EXCEPT ![e] = [count |-> @.count + 1, examples |-> Append(@.examples, i)]]]

\* One more invalid metric, at index i; the first ones are kept as examples.
AddInvalid(res, e, i) ==
  LET v == res.errors[e] IN
  [invalid |-> res.invalid + 1,
   errors |-> [res.errors EXCEPT ![e] =
                 [count |-> v.count + 1,
                  examples |-> IF v.count + 1 < 10 THEN Append(v.examples, i) ELSE v.examples]]]

\* The metric as it is published: only an admin chooses the org.
Stamped(r, m) == IF from[r].admin THEN m ELSE [m EXCEPT !.org = Org(r)]

\* The loop over a body: toPublish keeps the metrics that are valid, under
\* their place in the body, and every other is added to the response.
ToPublish(r, metrics) ==
  LET valid == {i \in DOMAIN metrics : metrics[i].err = NoError} IN [i \in valid |-> Stamped(r, metrics[i])]
Round(res, metrics, i) == IF metrics[i].err = NoError THEN res ELSE AddInvalid(res, metrics[i].err, i)
Response(metrics) ==
  LET after[n \in 0 .. Len(metrics)] == IF n = 0 THEN NewMetricsResponse ELSE Round(after[n - 1], metrics, n)
  IN  after[Len(metrics)]

\* rateLimit has nothing to do for an org without a limiter.
PrepareIngest(r, metrics) ==
  /\ st[r] = "body"
  /\ body' = [body EXCEPT ![r] = metrics]
  /\ batch' = [batch EXCEPT ![r] = ToPublish(r, metrics)]
  /\ resp' = [resp EXCEPT ![r] = Response(metrics)]
  /\ Goto(r, IF Org(r) \in Limited THEN "limit" ELSE "check")
  /\ UNCHANGED <<now, lim, from, canceled, grants, misled>>

\* The number of metrics in the batch.
Size(r) == Cardinality(DOMAIN batch[r])

\* rateLimit returns an error, which is ignored: the context is done.
RateLimitCanceled(r) ==
  /\ st[r] = "limit"
  /\ canceled[r]
  /\ Goto(r, "check")
  /\ UNCHANGED <<now, lim, from, canceled, data, grants, misled>>

\* 413: the batch is larger than the burst.
TooLarge(r) ==
  /\ st[r] = "limit"
  /\ Size(r) > Burst /\ ~ canceled[r]
  /\ Answer(r, "refused")
  /\ UNCHANGED <<now, lim, from, grants, misled>>

\* WaitN sleeps unless the tokens were there.
AfterReserve(l) == IF l.lastEvent = now THEN "check" ELSE "wait"

\* rateLimit: WaitN makes its reservation.
WaitN(r) ==
  LET l == ReserveN(lim[Org(r)], Size(r)) IN
  /\ st[r] = "limit"
  /\ Size(r) <= Burst /\ ~ canceled[r]
  /\ lim' = [lim EXCEPT ![Org(r)] = l]
  /\ grants' = [grants EXCEPT ![r] = Append(@, [at |-> l.lastEvent, n |-> Size(r)])]
  /\ Goto(r, AfterReserve(l))
  /\ UNCHANGED <<now, from, canceled, data, misled>>

Reservation(r) == grants[r][2]

WaitOver(r) ==
  /\ st[r] = "wait"
  /\ now >= Reservation(r).at
  /\ Goto(r, "check")
  /\ UNCHANGED <<now, lim, from, canceled, data, grants, misled>>

\* The places of the grants of org o.
Slots(o) == {x \in Requests \X {1, 2} : x[2] \in DOMAIN grants[x[1]] /\ Org(x[1]) = o}
Grant(x) == grants[x[1]][x[2]]

\* The context is done before the timer fires, or both are.
WaitCanceled(r) ==
  /\ st[r] = "wait"
  /\ canceled[r]
  /\ lim' = [lim EXCEPT ![Org(r)] = CancelAt(@, Reservation(r).at, Reservation(r).n)]
  /\ grants' = [grants EXCEPT ![r] = <<@[1]>>]
  /\ misled' = IF \E x \in Slots(Org(r)) : Grant(x).at > lim[Org(r)].lastEvent THEN misled \cup {Org(r)} ELSE misled
  /\ Goto(r, "check")
  /\ UNCHANGED <<now, from, canceled, data>>

\* Mutant: whoever comes back from rateLimit publishes.
GivenUpNever(r) == FALSE

\* A canceled request is given up (499), whatever rateLimit has returned for it.
GivenUp(r) == canceled[r]

Check(r) ==
  /\ st[r] = "check"
  /\ IF GivenUp(r) THEN Answer(r, "refused") ELSE Goto(r, "publish") /\ UNCHANGED <<canceled, data>>
  /\ UNCHANGED <<now, lim, from, grants, misled>>

\* Publish does nothing for an empty batch, and succeeds; an
\* error is a 500.
Publish(r) ==
  /\ st[r] = "publish"
  /\ \/ Answer(r, "ok")
     \/ Size(r) > 0 /\ Answer(r, "refused")
  /\ UNCHANGED <<now, lim, from, grants, misled>>

-----------------------------------------------------------------------------
(* The environment *)

\* The client hangs up.
Cancel(r) ==
  /\ Active(r) /\ ~ canceled[r]
  /\ canceled' = [canceled EXCEPT ![r] = TRUE]
  /\ UNCHANGED <<now, lim, st, from, data, grants, misled>>

\* Time is let go by while requests may arrive or are waiting.
Tick ==
  /\ now <= MaxArrival \/ \E r \in Requests : st[r] = "wait" /\ now < Reservation(r).at
  /\ now' = now + 1
  /\ UNCHANGED <<lim, st, from, canceled, data, grants, misled>>

Step(r) ==
  \/ RefuseBody(r) \/ \E b \in Bodies : PrepareIngest(r, b)
  \/ RateLimitCanceled(r) \/ TooLarge(r) \/ WaitN(r) \/ WaitOver(r) \/ WaitCanceled(r)
  \/ Check(r) \/ Publish(r)

Next ==
  \/ \E r \in Requests : \/ \E s \in Senders : \/ Unauthorized(r, s) \/ Allow(r, s)
                                                 \/ Reject(r, s) \/ PassUnlimited(r, s)
                         \/ Step(r) \/ Cancel(r)
  \/ Tick

Spec == Init /\ [][Next]_vars

-----------------------------------------------------------------------------

TypeOK ==
  /\ now \in Nat
  /\ \A o \in Limited : lim[o].tokens <= Burst /\ lim[o].last <= now
  /\ st \in [Requests -> Answers \cup {"new", "body", "limit", "wait", "check", "publish"}]
  /\ from \in [Requests -> Senders \cup {Nobody}]
  /\ canceled \in [Requests -> BOOLEAN]
  /\ \A r \in Requests : Len(grants[r]) <= 2

\* A request that goes on to publish accounts for each metric of its body: it
\* is in the batch or counted as invalid under its own error, with the first
\* of them, and at most ten, as examples.
ResponseIsExact ==
  \A r \in Requests : st[r] = "publish" =>
    LET Of(e) == {i \in DOMAIN body[r] : body[r][i].err = e} IN
    /\ resp[r].invalid + Size(r) = Len(body[r])
    /\ \A e \in Reasons :
         LET v == resp[r].errors[e] IN
         /\ v.count = Cardinality(Of(e))
         /\ Len(v.examples) <= 10 /\ (Of(e) # {} => v.examples # <<>>)
         /\ \A k \in DOMAIN v.examples : /\ v.examples[k] \in Of(e)
                                         /\ Cardinality({i \in Of(e) : i < v.examples[k]}) = k - 1

\* The number of tokens org o was given for the window a .. b.
Used(o, a, b) ==
  Cardinality({y \in Slots(o) \X (1 .. Burst) : Grant(y[1]).at \in a .. b /\ y[2] <= Grant(y[1]).n})

\* In no window of time does an org get more tokens for its requests and
\* datapoints than the burst and what the window earns, in every order of
\* requests that check the budget, reserve, wait and give back: as long as
\* lastEvent is what CancelAt takes it for, the last event there is.
RateBounded ==
  \A o \in Limited \ misled :
    LET times == {Grant(x).at : x \in Slots(o)}
    IN  \A a, b \in times : a <= b => Used(o, a, b) <= Burst + (b - a)

\* Datapoints of a limited org are published only with tokens for all of
\* them, at the time of the reservation or later: rateLimit's errors, which
\* the handlers ignore once the context is done, never let a batch through.
PublishIsPaid ==
  \A r \in Requests :
    st[r] = "publish" /\ Org(r) \in Limited =>
      Len(grants[r]) = 2 /\ Reservation(r).n = Size(r) /\ Reservation(r).at <= now
=============================================================================
