----------------------------- MODULE GcomCache -----------------------------
(***************************************************************************)
(* auth/gcom: the two caches of what grafana.com has said, and the         *)
(* background validation of their items.  Auth uses the TokenCache for API *)
(* keys, CheckInstance the InstanceCache for pairs of an instance and a    *)
(* key.  The code of the two differs in what the cached value is and in    *)
(* what a response of grafana.com comes to; a behaviour has one of them.   *)
(*                                                                         *)
(* Time is counted in seconds, as lastRead is.  Goroutines run promptly:   *)
(* only requests to grafana.com take time, at most Timeout.  The ticker    *)
(* keeps one tick for a validator that is busy and drops the others.       *)
(***************************************************************************)
EXTENDS Integers, FiniteSets

CONSTANTS
  Keys,      \* keys of the cache
  Callers,   \* goroutines that call Auth or CheckInstance
  TTL,       \* cacheTTL, a multiple of 2
  Timeout,   \* of the HTTP client
  NoKey, None,
  MaxTime    \* bound on the time of a behaviour

\* How grafana.com responds: not at all, with a server error, with a refusal,
\* with a body that does not decode, for an org or an instance that is not the
\* one allowed or asked for, for an instance of the wrong type or cluster, or
\* as it should.
Responses == {"none", "5xx", "refused", "garbled", "mismatch", "unfit", "good"}
Outage == {"none", "5xx"}

\* What a validation comes to: valid, ErrInvalidApiKey or ErrInvalidInstanceID,
\* ErrInvalidOrgId, or another error.
Results == {"valid", "invalid", "invalidOrg", "error"}

\* The ones that validate takes for a decision.
Decisions == {"valid", "invalid"}

\* TokenResp and InstanceResp; asOf and outage are for the properties.
Item == [valid : BOOLEAN, retrieved : Int, lastRead : Int, asOf : Int, outage : BOOLEAN]

\* What a request comes to, and when and how grafana.com responded.
Answer == [result : Results, asOf : Int, outage : BOOLEAN]

\* A request in progress.
Request == [deadline : Int, got : Answer \cup {None}]

ASSUME GcomCacheAssumption ==
  /\ TTL \in Nat \ {0} /\ TTL % 2 = 0
  /\ Timeout \in Nat /\ MaxTime \in Nat
  /\ IsFiniteSet(Keys) /\ NoKey \notin Keys
  /\ None \notin Item \cup Answer \cup Request \cup Int

Period == TTL \div 2
Times == -1 .. MaxTime + Period

VARIABLES
  kind,     \* "token" or "instance"
  dryRun,   \* validationDryRun
  now,
  items,    \* items: valid stands for User # nil too, asOf and outage say when
            \* and how grafana.com responded
  used,     \* used[k]: when a caller last asked about key k and found it
  undecided, \* some request has come to no decision the validator accepts
  flight,   \* singleflight's call in progress for the key
  apc,      \* caller: "idle", "miss", "wait" or "set"
  akey,     \* the key it asks about
  answer,   \* what the validation came to, and asOf and outage
  nextTick, \* when the ticker fires next
  pending,  \* the tick in the ticker's channel, or None
  vpc,      \* validator: "select", "loop", "wait", "apply" or "off"
  vnow,     \* the time of the tick it works on
  vkeys,    \* keys it has still to validate
  vkey,     \* the key it is validating
  vanswer

config == <<kind, dryRun>>
callVars == <<apc, akey, answer>>
tickVars == <<nextTick, pending>>
valVars == <<vpc, vnow, vkeys, vkey, vanswer>>
vars == <<config, now, items, used, undecided, flight, callVars, tickVars, valVars>>

Init ==
  /\ kind \in {"token", "instance"} /\ dryRun \in BOOLEAN
  /\ now = 0
  /\ items = [k \in Keys |-> None]
  /\ used = [k \in Keys |-> 0]
  /\ undecided = FALSE
  /\ flight = [k \in Keys |-> None]
  /\ apc = [c \in Callers |-> "idle"]
  /\ akey = [c \in Callers |-> NoKey]
  /\ answer = [c \in Callers |-> None]
  /\ nextTick = Period /\ pending = None
  /\ vpc = "select" /\ vnow = 0 /\ vkeys = {} /\ vkey = NoKey /\ vanswer = None

-----------------------------------------------------------------------------
(* Auth, CheckInstance *)

\* Mutant: reading an item leaves no trace.
ReadNoTrace(item) == item

\* What Get leaves in the item.
Read(item) == [item EXCEPT !.lastRead = now]

\* The key is cached: the caller gets its answer at once.
AuthCached(k) ==
  /\ items[k] # None
  /\ items' = [items EXCEPT ![k] = Read(@)]
  /\ used' = [used EXCEPT ![k] = now]
  /\ UNCHANGED <<config, undecided, now, flight, callVars, tickVars, valVars>>

AuthMiss(c, k) ==
  /\ apc[c] = "idle"
  /\ items[k] = None
  /\ apc' = [apc EXCEPT ![c] = "miss"]
  /\ akey' = [akey EXCEPT ![c] = k]
  /\ UNCHANGED <<config, undecided, now, items, used, flight, answer, tickVars, valVars>>

\* Mutant: a request without a timeout.
JoinForever(k) ==
  flight' = IF flight[k] = None THEN [flight EXCEPT ![k] = [deadline |-> MaxTime, got |-> None]] ELSE flight

\* ValidateToken and ValidateInstance join the request for the key, or make one.
Join(k) ==
  flight' = IF flight[k] = None THEN [flight EXCEPT ![k] = [deadline |-> now + Timeout, got |-> None]] ELSE flight

AuthValidate(c) ==
  /\ apc[c] = "miss"
  /\ Join(akey[c])
  /\ apc' = [apc EXCEPT ![c] = "wait"]
  /\ UNCHANGED <<config, undecided, now, items, used, akey, answer, tickVars, valVars>>

\* Set, if grafana.com has decided on the key.
AuthSet(c) ==
  /\ apc[c] = "set"
  /\ IF answer[c].result = "error" THEN UNCHANGED <<items, used>>
     ELSE /\ items' = [items EXCEPT ![akey[c]] =
                         [valid |-> answer[c].result = "valid", retrieved |-> now, lastRead |-> now,
                          asOf |-> answer[c].asOf, outage |-> answer[c].outage]]
          /\ used' = [used EXCEPT ![akey[c]] = now]
  /\ apc' = [apc EXCEPT ![c] = "idle"]
  /\ akey' = [akey EXCEPT ![c] = NoKey]
  /\ answer' = [answer EXCEPT ![c] = None]
  /\ UNCHANGED <<config, undecided, now, flight, tickVars, valVars>>

-----------------------------------------------------------------------------
(* Requests to grafana.com *)

\* Mutant: a server error is a status other than 200.
ValidateTokenNo5xx(response) ==
  CASE response \in {"none", "garbled"} -> "error"
    [] response \in {"refused", "5xx"} -> "invalid"
    [] response = "mismatch" -> "invalidOrg"
    [] OTHER -> "valid"

\* What a response says of a token ...
ValidateToken(response) ==
  CASE response \in {"none", "5xx", "garbled"} -> "error"
    [] response = "refused" -> "invalid"
    [] response = "mismatch" -> "invalidOrg"
    [] OTHER -> "valid"

\* ... and of an instance: for a server error, validateInstance returns the
\* error of reading the body, which is nil.
ValidateInstance(response) ==
  CASE response \in {"none", "garbled"} -> "error"
    [] response \in {"refused", "mismatch"} -> "invalid"
    [] response = "unfit" /\ ~ dryRun -> "error"
    [] OTHER -> "valid"

\* grafana.com takes its decision.
Decide(k, response) ==
  LET result == IF kind = "token" THEN ValidateToken(response) ELSE ValidateInstance(response) IN
  /\ flight[k] # None
  /\ flight[k].got = None
  /\ flight' = [flight EXCEPT ![k].got = [result |-> result, asOf |-> now, outage |-> response \in Outage]]
  /\ undecided' = (undecided \/ result \notin Decisions \/ response \in Outage)
  /\ UNCHANGED <<config, now, items, used, callVars, tickVars, valVars>>

\* The response arrives and goes to all who wait for it.
Respond(k) ==
  /\ flight[k] # None
  /\ flight[k].got # None
  /\ flight' = [flight EXCEPT ![k] = None]
  /\ LET Waits(c) == apc[c] = "wait" /\ akey[c] = k IN
     /\ apc' = [c \in Callers |-> IF Waits(c) THEN "set" ELSE apc[c]]
     /\ answer' = [c \in Callers |-> IF Waits(c) THEN flight[k].got ELSE answer[c]]
  /\ IF vpc = "wait" /\ vkey = k THEN vpc' = "apply" /\ vanswer' = flight[k].got ELSE UNCHANGED <<vpc, vanswer>>
  /\ UNCHANGED <<config, undecided, now, items, used, akey, tickVars, vnow, vkeys, vkey>>

-----------------------------------------------------------------------------
(* backgroundValidation *)

\* The ticker fires.
Tick ==
  /\ now = nextTick
  /\ nextTick' = nextTick + Period
  /\ pending' = IF pending = None THEN now ELSE pending
  /\ UNCHANGED <<config, undecided, now, items, used, flight, callVars, valVars>>

\* Mutant: only items twice as old are validated.
ExpiredLate(item, t) == item.retrieved < t - 2 * TTL

Expired(item, t) == item.retrieved < t - TTL

\* validate collects the keys whose items are past their time.
Validate ==
  /\ vpc = "select" /\ pending # None
  /\ pending' = None
  /\ vnow' = pending
  /\ vkeys' = {k \in Keys : items[k] # None /\ Expired(items[k], pending)}
  /\ vpc' = "loop"
  /\ UNCHANGED <<config, undecided, now, items, used, flight, callVars, nextTick, vkey, vanswer>>

ValidateNext(k) ==
  /\ vpc = "loop"
  /\ k \in vkeys
  /\ vkeys' = vkeys \ {k}
  /\ vkey' = k
  /\ Join(k)
  /\ vpc' = "wait"
  /\ UNCHANGED <<config, undecided, now, items, used, callVars, tickVars, vnow, vanswer>>

ValidateDone ==
  /\ vpc = "loop" /\ vkeys = {}
  /\ vpc' = "select"
  /\ vnow' = 0
  /\ UNCHANGED <<config, undecided, now, items, used, flight, callVars, tickVars, vkeys, vkey, vanswer>>

\* Mutant: an item is never dropped.
UnusedNever(item) == FALSE

\* The item has not been read since it was last validated.
Unused(item) == item.lastRead < item.retrieved

\* The outcome is applied: no decision keeps the item, an unused item is
\* dropped, another one gets what grafana.com has decided.
ValidateApply ==
  LET k == vkey IN
  /\ vpc = "apply"
  /\ items' =
       IF vanswer.result \notin Decisions \/ items[k] = None THEN items
       ELSE IF Unused(items[k]) THEN [items EXCEPT ![k] = None]
       ELSE [items EXCEPT ![k] = [@ EXCEPT !.retrieved = vnow, !.valid = (vanswer.result = "valid"),
                                            !.asOf = vanswer.asOf, !.outage = vanswer.outage]]
  /\ vpc' = "loop"
  /\ vkey' = NoKey
  /\ vanswer' = None
  /\ UNCHANGED <<config, undecided, now, used, flight, callVars, tickVars, vnow, vkeys>>

\* StopTokenCache, StopInstanceCache: the goroutine returns.
Stop ==
  /\ vpc = "select"
  /\ vpc' = "off"
  /\ UNCHANGED <<config, undecided, now, items, used, flight, callVars, tickVars, vnow, vkeys, vkey, vanswer>>

-----------------------------------------------------------------------------

\* Nothing that is to happen without delay remains to be done at this time.
Settled ==
  /\ now < nextTick
  /\ vpc \in {"wait", "off"} \/ (vpc = "select" /\ pending = None)
  /\ \A c \in Callers : apc[c] \in {"idle", "wait"}
  /\ \A k \in Keys : flight[k] # None => now < flight[k].deadline

Advance ==
  /\ now < MaxTime
  /\ Settled
  /\ now' = now + 1
  /\ UNCHANGED <<config, undecided, items, used, flight, callVars, tickVars, valVars>>

Next ==
  \/ \E k \in Keys : AuthCached(k) \/ (\E c \in Callers : AuthMiss(c, k))
  \/ \E c \in Callers : AuthValidate(c) \/ AuthSet(c)
  \/ \E k \in Keys : (\E response \in Responses : Decide(k, response)) \/ Respond(k)
  \/ Tick \/ Validate \/ (\E k \in Keys : ValidateNext(k)) \/ ValidateDone \/ ValidateApply \/ Stop
  \/ Advance

Spec == Init /\ [][Next]_vars

-----------------------------------------------------------------------------

TypeOK ==
  /\ now \in 0 .. MaxTime
  /\ \A k \in Keys : items[k] = None \/ items[k] \in Item
  /\ \A k \in Keys : flight[k] # None => /\ flight[k].deadline \in now .. now + Timeout
                                         /\ flight[k].got = None \/ flight[k].got \in Answer
  /\ apc \in [Callers -> {"idle", "miss", "wait", "set"}]
  /\ \A c \in Callers : /\ apc[c] = "idle" <=> akey[c] = NoKey
                        /\ apc[c] = "set" <=> answer[c] # None
  /\ nextTick \in Times /\ pending \in Times \cup {None}
  /\ vpc \in {"select", "loop", "wait", "apply", "off"}
  /\ vkeys \subseteq Keys

\* How long the validator may take for the keys it has collected: it asks for
\* one after the other.
Round == Cardinality(Keys) * Timeout

\* How late it may begin with a tick: a round that takes longer than a period
\* is still going on when the ticker fires next.
Lateness == IF Round <= Period THEN 0 ELSE Round

\* How old an item may be at the tick for which it is collected: that is the
\* first one kept after its TTL, and a late validator misses ticks.
MaxDue == TTL + Period + Lateness

\* How old a cached decision may become: it may take Timeout to arrive, and
\* its item is dealt with by the end of the round for which it is collected.
MaxAge == Timeout + MaxDue + Lateness + Round

\* While grafana.com decides every request and the validator runs, no cached
\* answer is based on a decision older than MaxAge, however lookups, shared
\* requests and the background validation interleave.
AgeBounded ==
  ~ undecided /\ vpc # "off" => \A k \in Keys : items[k] # None => now - items[k].asOf <= MaxAge

\* How long an unused key may stay: it is validated once after its last
\* use, and dropped the second time.
MaxIdle == MaxDue + MaxDue + Lateness + Round

\* While grafana.com decides every request and the validator runs, a key that
\* nobody asks about leaves the cache within MaxIdle.
IdleItemsLeave ==
  ~ undecided /\ vpc # "off" => \A k \in Keys : items[k] # None => now - used[k] <= MaxIdle

\* Only keys that were not asked about during the last TTL are dropped.
DropsUnused == \A k \in Keys : items[k] # None /\ items'[k] = None => now - used[k] > TTL

\* A key that was asked about during the last TTL is never dropped.
ActiveItemsStay == [][DropsUnused]_vars

\* Key k is answered otherwise than before because grafana.com was down.
TurnedByOutage(k) ==
  items[k] # None /\ items'[k] # None /\ items'[k].valid # items[k].valid /\ items'[k].outage

KeepsAnswers == \A k \in Keys : TurnedByOutage(k) => kind = "instance" /\ items'[k].valid

\* A cached answer is turned only by what grafana.com has decided, never by a
\* request it did not serve, whoever made the request.  The one exception is an
\* instance, for which a server error counts as an approval: an outage may
\* admit it, but never shuts out whom grafana.com has approved.
OutagesKeepAnswers == [][KeepsAnswers]_vars
=============================================================================
