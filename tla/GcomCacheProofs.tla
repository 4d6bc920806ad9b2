-------------------------- MODULE GcomCacheProofs --------------------------
(***************************************************************************)
(* What auth/gcom's caches promise, for any numbers of keys and callers    *)
(* and any TTL and timeout.  None of it is inductive.                      *)
(*                                                                         *)
(*   - A key in use is not dropped.  This rests on what holds of the keys  *)
(*     the validator has collected when lookups and Set change their items *)
(*     before it gets to them (Collected).                                 *)
(*   - An outage of grafana.com does not turn an answer.  This rests on    *)
(*     what an unserved request can come to, wherever its outcome is on    *)
(*     its way into the cache (Outcomes, Travels).                         *)
(*   - Answers stay fresh and unused keys leave, as long as grafana.com    *)
(*     decides.  This rests on when requests end (Requests), on how late   *)
(*     the validator is and which tick it gets next (Ticks), and on the    *)
(*     tick for which every key is looked at (Due).                        *)
(***************************************************************************)
EXTENDS GcomCache, FiniteSetTheorems, TLAPS

\* What requests come to.  One that grafana.com did not serve is an error or,
\* for an instance, an approval.
Outcomes == {g \in Answer : g.outage => g.result = "error" \/ (kind = "instance" /\ g.result = "valid")}

Call == [deadline : Int, got : Outcomes \cup {None}]

\* Every outcome on its way to the cache is one of those.
Travels ==
  /\ kind \in {"token", "instance"}
  /\ flight \in [Keys -> Call \cup {None}]
  /\ apc \in [Callers -> {"idle", "miss", "wait", "set"}]
  /\ akey \in [Callers -> Keys \cup {NoKey}]
  /\ \A c \in Callers : apc[c] # "idle" => akey[c] \in Keys
  /\ answer \in [Callers -> Outcomes \cup {None}]
  /\ \A c \in Callers : apc[c] = "set" => answer[c] \in Outcomes
  /\ vpc \in {"wait", "apply"} => vkey \in Keys
  /\ vpc = "apply" => vanswer \in Outcomes

\* The clocks: nothing in the cache, in the ticker's channel or in the hands
\* of the validator is from the future.
Clocks ==
  /\ now \in Int /\ nextTick \in Int
  /\ pending # None => pending \in Int /\ pending <= now
  /\ vpc \in {"loop", "wait", "apply"} => vnow \in Int /\ vnow <= now
  /\ items \in [Keys -> Item \cup {None}]
  /\ used \in [Keys -> Int]
  /\ \A k \in Keys : items[k] # None => /\ items[k].lastRead = used[k]
                                        /\ items[k].lastRead <= now
                                        /\ items[k].retrieved <= now

\* The keys the validator has collected and not dealt with.
Working == IF vpc = "loop" THEN vkeys ELSE IF vpc \in {"wait", "apply"} THEN vkeys \cup {vkey} ELSE {}

\* Their items are past their time or have been read since.
Collected ==
  /\ vpc \in {"loop", "wait", "apply"} => vkeys \subseteq Keys
  /\ vpc \in {"wait", "apply"} => vkey \notin vkeys
  /\ \A k \in Working : items[k] # None => \/ items[k].retrieved < vnow - TTL
                                           \/ items[k].retrieved <= items[k].lastRead

CacheInv == Travels /\ Clocks /\ Collected

-----------------------------------------------------------------------------
(* Outcomes *)

LEMMA OutcomeIsSound ==
  ASSUME kind \in {"token", "instance"}, now \in Int, NEW response \in Responses,
         NEW result, result = (IF kind = "token" THEN ValidateToken(response) ELSE ValidateInstance(response))
  PROVE  [result |-> result, asOf |-> now, outage |-> response \in Outage] \in Outcomes
<1>1. result \in Results
  BY DEF Responses, Results, ValidateToken, ValidateInstance
<1>2. response \in Outage => result = "error" \/ (kind = "instance" /\ result = "valid")
  BY Zenon DEF Responses, Outage, ValidateToken, ValidateInstance
<1>3. (response \in Outage) \in BOOLEAN
  OBVIOUS
<1> DEFINE g == [result |-> result, asOf |-> now, outage |-> response \in Outage]
<1>4. g \in Answer
  BY <1>1, <1>3, Zenon DEF Answer
<1>5. g.outage => g.result = "error" \/ (kind = "instance" /\ g.result = "valid")
  BY <1>2, Zenon
<1> QED BY <1>4, <1>5, Zenon DEF Outcomes

\* What a request has come to when grafana.com has decided.
LEMMA DecideOutcome ==
  ASSUME Travels, now \in Int, NEW k \in Keys, NEW response \in Responses, Decide(k, response)
  PROVE  \E g \in Outcomes : /\ flight' = [flight EXCEPT ![k].got = g]
                             /\ [flight[k] EXCEPT !.got = g] \in Call
                             /\ g.asOf = now
                             /\ ~ undecided' => g.result \in Decisions
<1> DEFINE result == IF kind = "token" THEN ValidateToken(response) ELSE ValidateInstance(response)
           g == [result |-> result, asOf |-> now, outage |-> response \in Outage]
<1>1. g \in Outcomes
  BY OutcomeIsSound, Zenon DEF Travels
<1>2. g.asOf = now /\ g.result = result
  BY Zenon
<1>3. flight' = [flight EXCEPT ![k].got = g] /\ (~ undecided' => result \in Decisions)
  BY Zenon DEF Decide
<1> HIDE DEF g, result
<1>4. flight[k] \in Call
  BY Zenon DEF Decide, Travels
<1>5. [flight[k] EXCEPT !.got = g] \in Call
  BY <1>1, <1>4, Zenon DEF Call
<1> QED BY <1>1, <1>2, <1>3, <1>5, Zenon

\* The variables the three invariants depend on.
LEMMA InvStutters ==
  ASSUME CacheInv, UNCHANGED vars
  PROVE  CacheInv'
BY Zenon DEF CacheInv, Travels, Clocks, Collected, Working, Outcomes, Call, vars, config, callVars, tickVars, valVars

LEMMA InvInit == Init => CacheInv
<1> SUFFICES ASSUME Init PROVE CacheInv
  OBVIOUS
<1> USE DEF Init
<1>1. Travels
  BY Zenon DEF Travels
<1>2. Period \in Int
  BY GcomCacheAssumption DEF Period
<1>3. Clocks
  BY <1>2 DEF Clocks
<1>4. Collected
  BY Zenon DEF Collected, Working
<1> QED BY <1>1, <1>3, <1>4, Zenon DEF CacheInv

-----------------------------------------------------------------------------
(* The steps *)

LEMMA TravelsStep ==
  ASSUME CacheInv, Next
  PROVE  Travels'
<1>0. Travels /\ now \in Int
  BY Zenon DEF CacheInv, Clocks
<1>k. kind' = kind
  BY Zenon DEF Next, AuthCached, AuthMiss, AuthValidate, AuthSet, Decide, Respond, Tick, Validate, ValidateNext,
         ValidateDone, ValidateApply, Stop, Advance, config
<1>o. Outcomes' = Outcomes /\ Call' = Call
  BY <1>k DEF Outcomes, Call
<1>j. ASSUME NEW k \in Keys, Join(k) PROVE flight' \in [Keys -> Call \cup {None}]
  <2>1. now + Timeout \in Int
    BY <1>0, GcomCacheAssumption
  <2>2. [deadline |-> now + Timeout, got |-> None] \in Call
    BY <2>1, Zenon DEF Call
  <2> QED BY <1>0, <1>j, <2>2, Zenon DEF Join, Travels
<1> USE <1>0, <1>k, <1>o DEF Travels, config, callVars, tickVars, valVars
<1>1. ASSUME NEW k \in Keys, AuthCached(k) PROVE Travels'
  BY <1>1, Zenon DEF AuthCached
<1>2. ASSUME NEW k \in Keys, NEW c \in Callers, AuthMiss(c, k) PROVE Travels'
  BY <1>2, Zenon DEF AuthMiss
<1>3. ASSUME NEW c \in Callers, AuthValidate(c) PROVE Travels'
  <2>1. akey[c] \in Keys
    BY <1>3, Zenon DEF AuthValidate
  <2>2. flight' \in [Keys -> Call \cup {None}]
    BY <1>3, <1>j, <2>1, Zenon DEF AuthValidate
  <2> QED BY <1>3, <2>1, <2>2, Zenon DEF AuthValidate
<1>4. ASSUME NEW c \in Callers, AuthSet(c) PROVE Travels'
  BY <1>4, Zenon DEF AuthSet
<1>5. ASSUME NEW k \in Keys, NEW response \in Responses, Decide(k, response) PROVE Travels'
  <2>1. PICK g : flight' = [flight EXCEPT ![k].got = g] /\ [flight[k] EXCEPT !.got = g] \in Call
    BY <1>5, DecideOutcome, Zenon
  <2>2. flight' \in [Keys -> Call \cup {None}]
    BY <2>1, Zenon
  <2> QED BY <1>5, <2>2, Zenon DEF Decide
<1>6. ASSUME NEW k \in Keys, Respond(k) PROVE Travels'
  <2>1. flight[k].got \in Outcomes
    BY <1>6, Zenon DEF Respond, Call
  <2>2. flight' \in [Keys -> Call \cup {None}]
    BY <1>6, Zenon DEF Respond
  <2>3. apc' = [c \in Callers |-> IF apc[c] = "wait" /\ akey[c] = k THEN "set" ELSE apc[c]]
    BY <1>6, Zenon DEF Respond
  <2>4. answer' = [c \in Callers |-> IF apc[c] = "wait" /\ akey[c] = k THEN flight[k].got ELSE answer[c]]
    BY <1>6, Zenon DEF Respond
  <2>5. apc' \in [Callers -> {"idle", "miss", "wait", "set"}] /\ answer' \in [Callers -> Outcomes \cup {None}]
    BY <2>1, <2>3, <2>4, Zenon
  <2>6. \A c \in Callers : apc'[c] = "set" => answer'[c] \in Outcomes
    BY <2>1, <2>3, <2>4, Zenon
  <2>7. \A c \in Callers : apc'[c] # "idle" => akey'[c] \in Keys
    BY <1>6, <2>3, Zenon DEF Respond
  <2>8. /\ vpc' \in {"wait", "apply"} => vkey' \in Keys
        /\ vpc' = "apply" => vanswer' \in Outcomes
    BY <1>6, <2>1, Zenon DEF Respond
  <2> QED BY <1>6, <2>2, <2>5, <2>6, <2>7, <2>8, Zenon DEF Respond
<1>7. CASE Tick
  BY <1>7, Zenon DEF Tick
<1>8. CASE Validate
  BY <1>8, Zenon DEF Validate
<1>9. ASSUME NEW k \in Keys, ValidateNext(k) PROVE Travels'
  <2>1. flight' \in [Keys -> Call \cup {None}]
    BY <1>9, <1>j, Zenon DEF ValidateNext
  <2> QED BY <1>9, <2>1, Zenon DEF ValidateNext
<1>10. CASE ValidateDone
  BY <1>10, Zenon DEF ValidateDone
<1>11. CASE ValidateApply
  BY <1>11, Zenon DEF ValidateApply
<1>12. CASE Stop
  BY <1>12, Zenon DEF Stop
<1>13. CASE Advance
  BY <1>13, Zenon DEF Advance
<1> QED BY <1>1, <1>2, <1>3, <1>4, <1>5, <1>6, <1>7, <1>8, <1>9, <1>10, <1>11, <1>12, <1>13, Zenon DEF Next

\* What Set and an applied outcome leave in the cache is an entry.
LEMMA NewEntry ==
  ASSUME NEW t \in Int, NEW r \in Int, NEW g \in Outcomes
  PROVE  [valid |-> g.result = "valid", retrieved |-> t, lastRead |-> r,
          asOf |-> g.asOf, outage |-> g.outage] \in Item
<1>1. g.asOf \in Int /\ g.outage \in BOOLEAN
  BY DEF Outcomes, Answer
<1>2. (g.result = "valid") \in BOOLEAN
  BY Zenon
<1> QED BY <1>1, <1>2, Zenon DEF Item

\* What Set does.
LEMMA SetEntry ==
  ASSUME CacheInv, NEW c \in Callers, AuthSet(c), answer[c].result # "error"
  PROVE  /\ akey[c] \in Keys /\ answer[c] \in Outcomes
         /\ \E e \in Item : /\ items' = [items EXCEPT ![akey[c]] = e]
                             /\ e.retrieved = now /\ e.lastRead = now
                             /\ e.valid = (answer[c].result = "valid") /\ e.outage = answer[c].outage
                             /\ e.asOf = answer[c].asOf
         /\ used' = [used EXCEPT ![akey[c]] = now]
<1>1. akey[c] \in Keys /\ answer[c] \in Outcomes /\ now \in Int
  BY Zenon DEF CacheInv, Travels, Clocks, AuthSet
<1> DEFINE e == [valid |-> answer[c].result = "valid", retrieved |-> now, lastRead |-> now,
                 asOf |-> answer[c].asOf, outage |-> answer[c].outage]
<1>2. e \in Item
  BY <1>1, NewEntry, Zenon
<1>3. items' = [items EXCEPT ![akey[c]] = e] /\ used' = [used EXCEPT ![akey[c]] = now]
  BY Zenon DEF AuthSet
<1>4. /\ e.retrieved = now /\ e.lastRead = now
      /\ e.valid = (answer[c].result = "valid") /\ e.outage = answer[c].outage /\ e.asOf = answer[c].asOf
  BY Zenon
<1> HIDE DEF e
<1> QED BY <1>1, <1>2, <1>3, <1>4, Zenon

\* What the validator does with an outcome.
LEMMA ApplyEntry ==
  ASSUME CacheInv, ValidateApply
  PROVE  /\ vkey \in Keys /\ vanswer \in Outcomes
         /\ \/ items' = items /\ (vanswer.result \notin Decisions \/ items[vkey] = None)
            \/ /\ items[vkey] # None /\ items[vkey].lastRead < items[vkey].retrieved
               /\ items' = [items EXCEPT ![vkey] = None]
            \/ \E e \in Item : /\ vanswer.result \in Decisions /\ items[vkey] # None
                                /\ items' = [items EXCEPT ![vkey] = e]
                                /\ items[vkey].retrieved <= items[vkey].lastRead
                                /\ e.retrieved = vnow /\ e.lastRead = items[vkey].lastRead
                                /\ e.valid = (vanswer.result = "valid") /\ e.outage = vanswer.outage
                                /\ e.asOf = vanswer.asOf
<1>1. vkey \in Keys /\ vanswer \in Outcomes /\ vnow \in Int /\ items \in [Keys -> Item \cup {None}]
  BY Zenon DEF CacheInv, Travels, Clocks, ValidateApply
<1>2. CASE vanswer.result \notin Decisions \/ items[vkey] = None
  BY <1>1, <1>2, Zenon DEF ValidateApply
<1>3. CASE vanswer.result \in Decisions /\ items[vkey] # None /\ Unused(items[vkey])
  BY <1>1, <1>3, Zenon DEF ValidateApply, Unused
<1>4. CASE vanswer.result \in Decisions /\ items[vkey] # None /\ ~ Unused(items[vkey])
  <2>1. items[vkey] \in Item /\ vanswer.asOf \in Int /\ vanswer.outage \in BOOLEAN
    BY <1>1, <1>4, Zenon DEF Outcomes, Answer
  <2>2. PICK v \in BOOLEAN : v = (vanswer.result = "valid")
    BY Zenon
  <2>3. PICK e : e = [items[vkey] EXCEPT !.retrieved = vnow, !.valid = v,
                                         !.asOf = vanswer.asOf, !.outage = vanswer.outage]
    OBVIOUS
  <2>4. items' = [items EXCEPT ![vkey] = e]
    BY <1>1, <1>4, <2>2, <2>3, Zenon DEF ValidateApply
  <2>5. /\ e \in Item
        /\ e.retrieved = vnow /\ e.lastRead = items[vkey].lastRead
        /\ e.valid = v /\ e.outage = vanswer.outage /\ e.asOf = vanswer.asOf
    BY <1>1, <2>1, <2>3, Zenon DEF Item
  <2>6. items[vkey].retrieved <= items[vkey].lastRead
    BY <1>4, <2>1 DEF Unused, Item
  <2> QED BY <1>1, <1>4, <2>2, <2>4, <2>5, <2>6, Zenon
<1> QED BY <1>1, <1>2, <1>3, <1>4, Zenon

\* What a lookup does.
LEMMA ReadEntry ==
  ASSUME CacheInv, NEW k \in Keys, AuthCached(k)
  PROVE  \E e \in Item : /\ items' = [items EXCEPT ![k] = e]
                          /\ e.retrieved = items[k].retrieved /\ e.lastRead = now
                          /\ e.valid = items[k].valid /\ e.asOf = items[k].asOf
<1>1. items \in [Keys -> Item \cup {None}] /\ now \in Int /\ items[k] # None
  BY Zenon DEF CacheInv, Clocks, AuthCached
<1>2. items[k] \in Item
  BY <1>1
<1> DEFINE e == [items[k] EXCEPT !.lastRead = now]
<1>3. /\ e \in Item
      /\ e.retrieved = items[k].retrieved /\ e.lastRead = now /\ e.valid = items[k].valid /\ e.asOf = items[k].asOf
  BY <1>1, <1>2, Zenon DEF Item
<1>4. items' = [items EXCEPT ![k] = e]
  BY <1>1 DEF AuthCached, Read
<1> HIDE DEF e
<1> QED BY <1>3, <1>4, Zenon

LEMMA ClocksStep ==
  ASSUME CacheInv, Next
  PROVE  Clocks' /\ Collected'
<1>0. Clocks /\ Collected /\ TTL \in Int /\ Period \in Int
  BY GcomCacheAssumption DEF CacheInv, Period
<1> USE <1>0 DEF Clocks, Collected, Working, config, callVars, tickVars, valVars
<1>1. ASSUME NEW k \in Keys, AuthCached(k) PROVE Clocks' /\ Collected'
  <2>1. PICK e \in Item : items' = [items EXCEPT ![k] = e] /\ e.retrieved = items[k].retrieved /\ e.lastRead = now
    BY <1>1, ReadEntry, Zenon
  <2>2. items[k] # None /\ used' = [used EXCEPT ![k] = now]
    BY <1>1, Zenon DEF AuthCached
  <2>3. Clocks'
    BY <1>1, <2>1, <2>2 DEF AuthCached
  <2>4. Collected'
    BY <1>1, <2>1, <2>2 DEF AuthCached
  <2> QED BY <2>3, <2>4, Zenon
<1>2. ASSUME NEW k \in Keys, NEW c \in Callers, AuthMiss(c, k) PROVE Clocks' /\ Collected'
  BY <1>2, Zenon DEF AuthMiss
<1>3. ASSUME NEW c \in Callers, AuthValidate(c) PROVE Clocks' /\ Collected'
  BY <1>3, Zenon DEF AuthValidate
<1>4. ASSUME NEW c \in Callers, AuthSet(c) PROVE Clocks' /\ Collected'
  <2>1. CASE answer[c].result = "error"
    BY <1>4, <2>1, Zenon DEF AuthSet
  <2>2. CASE answer[c].result # "error"
    <3>1. PICK k \in Keys : k = akey[c]
      BY <1>4, <2>2, SetEntry, Zenon
    <3>2. PICK e \in Item : items' = [items EXCEPT ![k] = e] /\ e.retrieved = now /\ e.lastRead = now
      BY <1>4, <2>2, <3>1, SetEntry
    <3>3. used' = [used EXCEPT ![k] = now]
      BY <1>4, <2>2, <3>1, SetEntry, Zenon
    <3>4. UNCHANGED <<now, tickVars, valVars>>
      BY <1>4, Zenon DEF AuthSet
    <3>5. Clocks'
      BY <3>2, <3>3, <3>4
    <3>6. Collected'
      BY <3>2, <3>4
    <3> QED BY <3>5, <3>6, Zenon
  <2> QED BY <2>1, <2>2, Zenon
<1>5. ASSUME NEW k \in Keys, NEW response \in Responses, Decide(k, response) PROVE Clocks' /\ Collected'
  BY <1>5, Zenon DEF Decide
<1>6. ASSUME NEW k \in Keys, Respond(k) PROVE Clocks' /\ Collected'
  BY <1>6, Zenon DEF Respond
<1>7. CASE Tick
  BY <1>7 DEF Tick
<1>8. CASE Validate
  <2>1. pending \in Int /\ pending <= now
    BY <1>8, Zenon DEF Validate
  <2>2. Clocks'
    BY <1>8, <2>1, Zenon DEF Validate
  <2>3. Collected'
    BY <1>8, <2>1, Zenon DEF Validate, Expired
  <2> QED BY <2>2, <2>3, Zenon
<1>9. ASSUME NEW k \in Keys, ValidateNext(k) PROVE Clocks' /\ Collected'
  BY <1>9, Zenon DEF ValidateNext
<1>10. CASE ValidateDone
  BY <1>10, Zenon DEF ValidateDone
<1>11. CASE ValidateApply
  <2>1. vkey \in Keys /\ vkey \notin vkeys /\ vkeys \subseteq Keys /\ vnow \in Int /\ vnow <= now
    BY <1>11, ApplyEntry, Zenon DEF ValidateApply
  <2>2. vpc' = "loop" /\ UNCHANGED <<now, used, tickVars, vnow, vkeys>>
    BY <1>11, Zenon DEF ValidateApply
  <2>3. CASE items' = items
    BY <2>1, <2>2, <2>3, <1>11, Zenon DEF ValidateApply
  <2>4. CASE items' = [items EXCEPT ![vkey] = None]
    <3>1. Clocks'
      BY <2>1, <2>2, <2>4, Zenon
    <3>2. Collected'
      BY <2>1, <2>2, <2>4, <1>11, Zenon DEF ValidateApply
    <3> QED BY <3>1, <3>2, Zenon
  <2>5. CASE \E e \in Item : /\ items[vkey] # None
                              /\ items' = [items EXCEPT ![vkey] = e]
                              /\ e.retrieved = vnow /\ e.lastRead = items[vkey].lastRead
    <3>1. PICK e \in Item : /\ items[vkey] # None
                             /\ items' = [items EXCEPT ![vkey] = e]
                             /\ e.retrieved = vnow /\ e.lastRead = items[vkey].lastRead
      BY <2>5, Zenon
    <3>2. Clocks'
      BY <2>1, <2>2, <3>1, Zenon
    <3>3. Collected'
      BY <2>1, <2>2, <3>1, <1>11, Zenon DEF ValidateApply
    <3> QED BY <3>2, <3>3, Zenon
  <2> QED BY <1>11, <2>3, <2>4, <2>5, ApplyEntry, Zenon
<1>12. CASE Stop
  BY <1>12, Zenon DEF Stop
<1>13. CASE Advance
  <2>1. now' = now + 1 /\ UNCHANGED <<items, used, tickVars, valVars>>
    BY <1>13, Zenon DEF Advance
  <2>2. \A k \in Keys : items[k] # None => items[k].lastRead \in Int /\ items[k].retrieved \in Int
    BY Zenon DEF Item
  <2>3. Clocks'
    BY <2>1, <2>2
  <2>4. Collected'
    BY <2>1, Zenon
  <2> QED BY <2>3, <2>4, Zenon
<1> QED BY <1>1, <1>2, <1>3, <1>4, <1>5, <1>6, <1>7, <1>8, <1>9, <1>10, <1>11, <1>12, <1>13, Zenon DEF Next

LEMMA CacheInvariant == Spec => []CacheInv
<1>1. CacheInv /\ [Next]_vars => CacheInv'
  BY TravelsStep, ClocksStep, InvStutters DEF CacheInv
<1> QED BY InvInit, <1>1, PTL DEF Spec

-----------------------------------------------------------------------------

\* The items only lookups, Set and the validator change.
LEMMA WhoWrites ==
  ASSUME CacheInv, [Next]_vars, items' # items
  PROVE  \/ \E k \in Keys : AuthCached(k)
         \/ \E c \in Callers : AuthSet(c) /\ answer[c].result # "error"
         \/ ValidateApply
BY Zenon DEF Next, vars, AuthMiss, AuthValidate, AuthSet, Decide, Respond, Tick, Validate, ValidateNext, ValidateDone,
       Stop, Advance

\* A key that was asked about during the last TTL is not dropped by validate,
\* though it decides on the item as it finds it after the request to
\* grafana.com, and collected the key before.
THEOREM KeysInUseStay == Spec => ActiveItemsStay
<1>1. CacheInv /\ [Next]_vars => DropsUnused
  <2> SUFFICES ASSUME CacheInv, [Next]_vars, NEW k \in Keys, items[k] # None, items'[k] = None PROVE now - used[k] > TTL
    BY Zenon DEF DropsUnused
  <2>0. Clocks /\ Collected /\ TTL \in Int
    BY GcomCacheAssumption DEF CacheInv
  <2>n. None \notin Item
    BY GcomCacheAssumption
  <2>i. items \in [Keys -> Item \cup {None}] /\ items' # items
    BY <2>0, Zenon DEF Clocks
  <2>1. ASSUME NEW j \in Keys, AuthCached(j) PROVE FALSE
    <3>1. PICK e \in Item : items' = [items EXCEPT ![j] = e]
      BY <2>1, ReadEntry
    <3> QED BY <2>n, <2>i, <3>1
  <2>2. ASSUME NEW c \in Callers, AuthSet(c), answer[c].result # "error" PROVE FALSE
    <3>1. akey[c] \in Keys /\ \E e \in Item : items' = [items EXCEPT ![akey[c]] = e]
      BY <2>2, SetEntry, Zenon
    <3> QED BY <2>n, <2>i, <3>1, Zenon
  <2>3. CASE ValidateApply
    <3>1. /\ vkey \in Keys
          /\ \/ items[vkey].lastRead < items[vkey].retrieved /\ items' = [items EXCEPT ![vkey] = None]
             \/ \E e \in Item : items' = [items EXCEPT ![vkey] = e]
      BY <2>3, <2>i, ApplyEntry, Zenon
    <3>2. items[vkey].lastRead < items[vkey].retrieved /\ k = vkey
      BY <2>n, <2>i, <3>1, Zenon
    <3>3. vkey \in Working /\ vnow \in Int /\ vnow <= now
      BY <2>0, <2>3, Zenon DEF Working, Clocks, ValidateApply
    <3>4. items[k] \in Item
      BY <2>i
    <3>5. items[k].retrieved \in Int /\ items[k].lastRead \in Int
      BY <3>4, Zenon DEF Item
    <3>6. items[k].retrieved < vnow - TTL
      BY <2>0, <3>2, <3>3, <3>5 DEF Collected
    <3>7. items[k].lastRead = used[k] /\ now \in Int
      BY <2>0, Zenon DEF Clocks
    <3> QED BY <2>0, <3>2, <3>3, <3>5, <3>6, <3>7
  <2> QED BY <2>i, <2>1, <2>2, <2>3, WhoWrites, Zenon
<1> QED BY CacheInvariant, <1>1, PTL DEF Spec, ActiveItemsStay

\* An answer is turned only by what grafana.com has decided, whoever made the
\* request and however long its outcome took to get into the cache; but for
\* a server error, on which validateInstance admits an instance.
THEOREM OutagesTurnNothing == Spec => OutagesKeepAnswers
<1>1. CacheInv /\ [Next]_vars => KeepsAnswers
  <2> SUFFICES ASSUME CacheInv, [Next]_vars, NEW k \in Keys, TurnedByOutage(k)
               PROVE  kind = "instance" /\ items'[k].valid
    BY Zenon DEF KeepsAnswers
  <2>i. /\ items \in [Keys -> Item \cup {None}] /\ items' # items
        /\ items'[k].valid # items[k].valid /\ items'[k].outage /\ items'[k] # None
    BY Zenon DEF CacheInv, Clocks, TurnedByOutage
  <2>1. ASSUME NEW j \in Keys, AuthCached(j) PROVE FALSE
    <3>1. PICK e \in Item : items' = [items EXCEPT ![j] = e] /\ e.valid = items[j].valid
      BY <2>1, ReadEntry, Zenon
    <3> QED BY <2>i, <3>1, Zenon
  \* The outcome g of a request that was a decision has replaced the answer.
  <2>2. ASSUME NEW g \in Outcomes, g.result # "error", NEW j \in Keys, NEW e \in Item,
               items' = [items EXCEPT ![j] = e], e.valid = (g.result = "valid"), e.outage = g.outage
        PROVE  kind = "instance" /\ items'[k].valid
    <3>1. j = k /\ items'[k] = e
      BY <2>i, <2>2, Zenon
    <3>2. g.outage
      BY <2>i, <2>2, <3>1, Zenon
    <3>3. kind = "instance" /\ g.result = "valid"
      BY <2>2, <3>2, Zenon DEF Outcomes
    <3> QED BY <2>2, <3>1, <3>3, Zenon
  <2>3. ASSUME NEW c \in Callers, AuthSet(c), answer[c].result # "error"
        PROVE  kind = "instance" /\ items'[k].valid
    BY <2>2, <2>3, SetEntry
  <2>4. CASE ValidateApply
    <3>1. CASE items' = [items EXCEPT ![vkey] = None]
      BY <2>4, <2>i, <3>1, ApplyEntry, Zenon
    <3>2. CASE items' # [items EXCEPT ![vkey] = None]
      <4>1. /\ vkey \in Keys /\ vanswer \in Outcomes /\ vanswer.result \in Decisions
            /\ \E e \in Item : /\ items' = [items EXCEPT ![vkey] = e]
                               /\ e.valid = (vanswer.result = "valid") /\ e.outage = vanswer.outage
        BY <2>4, <2>i, <3>2, ApplyEntry, Zenon
      <4>2. vanswer.result # "error"
        BY <4>1 DEF Decisions
      <4> QED BY <2>2, <4>1, <4>2, Zenon
    <3> QED BY <3>1, <3>2, Zenon
  <2> QED BY <2>i, <2>1, <2>3, <2>4, WhoWrites, Zenon
<1> QED BY CacheInvariant, <1>1, PTL DEF Spec, OutagesKeepAnswers

-----------------------------------------------------------------------------
(* How long a request takes *)

\* A request that was made at deadline - Timeout, seen at time t.
Timely(f, t) ==
  f # None => /\ t <= f.deadline /\ f.deadline <= t + Timeout
              /\ f.got # None => f.deadline - Timeout <= f.got.asOf

\* Outcomes are applied at the time they arrive.
Requests ==
  /\ vpc \in {"select", "loop", "wait", "apply", "off"}
  /\ \A k \in Keys : Timely(flight[k], now)
  /\ \A c \in Callers : apc[c] = "set" => now - Timeout <= answer[c].asOf
  /\ vpc = "wait" => flight[vkey] # None
  /\ vpc = "apply" => now - Timeout <= vanswer.asOf

\* Joining a request leaves its deadline alone.
LEMMA JoinTimely ==
  ASSUME CacheInv, Requests, NEW k \in Keys, Join(k)
  PROVE  /\ \A j \in Keys : Timely(flight'[j], now)
         /\ \A j \in Keys : flight[j] # None => flight'[j] = flight[j]
         /\ flight'[k] # None /\ flight'[k].deadline <= now + Timeout
<1>1. flight \in [Keys -> Call \cup {None}] /\ now \in Int
  BY Zenon DEF CacheInv, Travels, Clocks
<1>2. CASE flight[k] # None
  BY <1>1, <1>2, Zenon DEF Join, Requests, Timely
<1>3. CASE flight[k] = None
  <2>1. PICK f : f = [deadline |-> now + Timeout, got |-> None]
    BY Zenon
  <2>2. f.deadline = now + Timeout /\ f.got = None /\ now + Timeout \in Int
    BY <1>1, <2>1, GcomCacheAssumption
  <2>3. f # None
    <3>1. f \in Request
      BY <2>1, <2>2, Zenon DEF Request
    <3> QED BY <3>1, GcomCacheAssumption, Zenon
  <2>4. flight' = [flight EXCEPT ![k] = f]
    BY <1>3, <2>1, Zenon DEF Join
  <2>5. Timely(f, now)
    BY <1>1, <2>2, GcomCacheAssumption DEF Timely
  <2>6. \A j \in Keys : flight'[j] = IF j = k THEN f ELSE flight[j]
    BY <1>1, <2>4, Zenon
  <2>7. f.deadline <= now + Timeout
    BY <1>1, <2>2, GcomCacheAssumption
  <2> QED BY <1>3, <2>3, <2>5, <2>6, <2>7, Zenon DEF Requests
<1> QED BY <1>2, <1>3, Zenon

\* None is not a request.
LEMMA CallIsSome == None \notin Call
<1>1. Call \subseteq Request
  BY DEF Call, Request, Outcomes
<1> QED BY <1>1, GcomCacheAssumption, Zenon

LEMMA DecideTimely ==
  ASSUME CacheInv, Requests, NEW k \in Keys, NEW response \in Responses, Decide(k, response)
  PROVE  /\ \A j \in Keys : Timely(flight'[j], now)
         /\ \A j \in Keys : flight[j] # None => flight'[j] # None /\ flight'[j].deadline = flight[j].deadline
<1>1. flight \in [Keys -> Call \cup {None}] /\ now \in Int
  BY Zenon DEF CacheInv, Travels, Clocks
<1>2. PICK g : /\ g.asOf = now /\ flight' = [flight EXCEPT ![k].got = g]
               /\ [flight[k] EXCEPT !.got = g] \in Call
  BY <1>1, DecideOutcome, Zenon DEF CacheInv
<1>3. flight[k] \in Call /\ flight[k] # None
  BY <1>1, Zenon DEF Decide
<1>4. PICK f \in Call : f = [flight[k] EXCEPT !.got = g]
  BY <1>2, Zenon
<1>5. f.deadline = flight[k].deadline /\ f.got = g /\ flight[k].deadline \in Int
  BY <1>3, <1>4 DEF Call
<1>6. \A j \in Keys : flight'[j] = IF j = k THEN f ELSE flight[j]
  BY <1>1, <1>2, <1>4, Zenon
<1>7. Timely(f, now)
  <2>1. now <= flight[k].deadline /\ flight[k].deadline <= now + Timeout
    BY <1>3, Zenon DEF Requests, Timely
  <2> QED BY <1>1, <1>2, <1>5, <2>1, GcomCacheAssumption DEF Timely
<1>8. f # None
  BY CallIsSome, Zenon
<1> QED BY <1>5, <1>6, <1>7, <1>8, Zenon DEF Requests

LEMMA RequestsStep ==
  ASSUME CacheInv, Requests, Next
  PROVE  Requests'
<1>0. /\ flight \in [Keys -> Call \cup {None}] /\ now \in Int
      /\ \A c \in Callers : apc[c] # "idle" => akey[c] \in Keys
      /\ vpc \in {"wait", "apply"} => vkey \in Keys
  BY Zenon DEF CacheInv, Travels, Clocks
<1> USE <1>0 DEF Requests, config, callVars, tickVars, valVars
<1>1. ASSUME NEW k \in Keys, AuthCached(k) PROVE Requests'
  BY <1>1, Zenon DEF AuthCached
<1>2. ASSUME NEW k \in Keys, NEW c \in Callers, AuthMiss(c, k) PROVE Requests'
  BY <1>2, Zenon DEF AuthMiss, CacheInv, Travels
<1>3. ASSUME NEW c \in Callers, AuthValidate(c) PROVE Requests'
  <2>1. akey[c] \in Keys /\ Join(akey[c])
    BY <1>3, Zenon DEF AuthValidate
  <2>2. /\ \A j \in Keys : Timely(flight'[j], now)
        /\ \A j \in Keys : flight[j] # None => flight'[j] = flight[j]
    BY <2>1, JoinTimely, Zenon
  <2> QED BY <1>3, <2>2, Zenon DEF AuthValidate, CacheInv, Travels
<1>4. ASSUME NEW c \in Callers, AuthSet(c) PROVE Requests'
  BY <1>4, Zenon DEF AuthSet, CacheInv, Travels
<1>5. ASSUME NEW k \in Keys, NEW response \in Responses, Decide(k, response) PROVE Requests'
  BY <1>5, DecideTimely, Zenon DEF Decide
<1>6. ASSUME NEW k \in Keys, Respond(k) PROVE Requests'
  <2>1. flight[k] \in Call /\ flight[k] # None /\ flight[k].got # None /\ Timely(flight[k], now)
    BY <1>6, Zenon DEF Respond
  <2>2. flight[k].deadline \in Int /\ flight[k].got.asOf \in Int
    BY <2>1, Zenon DEF Call, Outcomes, Answer
  <2>3. now - Timeout <= flight[k].got.asOf
    BY <2>1, <2>2, GcomCacheAssumption DEF Timely
  <2>4. \A j \in Keys : flight'[j] = IF j = k THEN None ELSE flight[j]
    BY <1>6, Zenon DEF Respond
  <2>5. \A j \in Keys : Timely(flight'[j], now)
    BY <2>4, Zenon DEF Timely
  <2>6. \A c \in Callers : apc'[c] = "set" => now - Timeout <= answer'[c].asOf
    BY <1>6, <2>3, Zenon DEF Respond
  <2>7. /\ vpc' \in {"select", "loop", "wait", "apply", "off"}
        /\ vpc' = "wait" => flight'[vkey'] # None
        /\ vpc' = "apply" => now - Timeout <= vanswer'.asOf
    BY <1>6, <2>3, <2>4, Zenon DEF Respond
  <2> QED BY <1>6, <2>5, <2>6, <2>7, Zenon DEF Respond
<1>7. CASE Tick
  BY <1>7, Zenon DEF Tick
<1>8. CASE Validate
  BY <1>8, Zenon DEF Validate
<1>9. ASSUME NEW k \in Keys, ValidateNext(k) PROVE Requests'
  BY <1>9, JoinTimely, Zenon DEF ValidateNext
<1>10. CASE ValidateDone
  BY <1>10, Zenon DEF ValidateDone
<1>11. CASE ValidateApply
  BY <1>11, Zenon DEF ValidateApply
<1>12. CASE Stop
  BY <1>12, Zenon DEF Stop
<1>13. CASE Advance
  <2>1. \A k \in Keys : Timely(flight[k], now')
    <3> SUFFICES ASSUME NEW k \in Keys, flight[k] # None
                 PROVE  Timely(flight[k], now + 1)
      BY <1>13, Zenon DEF Advance, Timely
    <3>1. flight[k] \in Call /\ now < flight[k].deadline /\ Timely(flight[k], now)
      BY <1>13, Zenon DEF Advance, Settled
    <3>2. flight[k].deadline \in Int
      BY <3>1, Zenon DEF Call
    <3> QED BY <3>1, <3>2, GcomCacheAssumption DEF Timely
  <2>2. vpc # "apply" /\ \A c \in Callers : apc[c] # "set"
    BY <1>13, Zenon DEF Advance, Settled
  <2> QED BY <1>13, <2>1, <2>2, Zenon DEF Advance
<1> QED BY <1>1, <1>2, <1>3, <1>4, <1>5, <1>6, <1>7, <1>8, <1>9, <1>10, <1>11, <1>12, <1>13, Zenon DEF Next

-----------------------------------------------------------------------------
(* How late the validator is *)

Busy == vpc \in {"loop", "wait", "apply"}

\* What the requests for n keys may take.
Work(n) == n * Timeout

\* When the validator will be done with what it has collected.
Finish == (IF vpc = "wait" THEN flight[vkey].deadline ELSE now) + Work(Cardinality(vkeys))

\* The tick the validator gets next.
Upcoming == IF pending = None THEN nextTick ELSE pending

Ticks ==
  /\ now \in 0 .. MaxTime
  /\ nextTick - Period <= now /\ now <= nextTick
  /\ pending # None => 0 <= pending /\ pending <= nextTick - Period
  /\ pending # None /\ vpc = "select" => now <= pending + Lateness
  /\ Busy => /\ vnow <= nextTick - Period
             /\ Finish <= vnow + Lateness + Round
             /\ pending # None => Finish <= pending + Lateness
             /\ Upcoming <= vnow + Period + Lateness

LEMMA Durations ==
  /\ Period \in Nat /\ TTL \in Nat /\ Timeout \in Nat /\ Round \in Nat /\ Lateness \in Nat /\ MaxDue \in Nat
  /\ Round <= Period \/ Lateness = Round
<1>1. Period \in Nat /\ TTL \in Nat /\ Timeout \in Nat
  BY GcomCacheAssumption DEF Period
<1>2. Round \in Nat
  BY <1>1, GcomCacheAssumption, FS_CardinalityType DEF Round
<1> QED BY <1>1, <1>2 DEF Lateness, MaxDue

LEMMA WorkGrows ==
  /\ \A n \in Nat : Work(n) \in Nat /\ Work(n + 1) = Work(n) + Timeout
  /\ \A m, n \in Nat : m <= n => Work(m) <= Work(n)
<1>1. Timeout \in Nat
  BY GcomCacheAssumption
<1>2. \A m, n \in Nat : m <= n => m * Timeout <= n * Timeout
  BY <1>1
<1> QED BY <1>1, <1>2 DEF Work

\* The keys that are left do not take longer than all of them.
LEMMA KeysLeft ==
  ASSUME NEW S \in SUBSET Keys
  PROVE  /\ Cardinality(S) \in Nat /\ Work(Cardinality(S)) \in Nat /\ Work(Cardinality(S)) <= Round
         /\ \A k \in S : Work(Cardinality(S)) = Work(Cardinality(S \ {k})) + Timeout
         /\ \A k \in Keys \ S : Work(Cardinality(S)) + Timeout <= Round
<1>1. IsFiniteSet(Keys) /\ Cardinality(Keys) \in Nat /\ Round = Work(Cardinality(Keys))
  BY GcomCacheAssumption, FS_CardinalityType DEF Round, Work
<1>2. IsFiniteSet(S) /\ Cardinality(S) \in Nat /\ Cardinality(S) <= Cardinality(Keys)
  BY <1>1, FS_Subset, FS_CardinalityType
<1>3. Work(Cardinality(S)) \in Nat /\ Work(Cardinality(S)) <= Round
  BY <1>1, <1>2, WorkGrows, Zenon
<1>4. ASSUME NEW k \in S PROVE Work(Cardinality(S)) = Work(Cardinality(S \ {k})) + Timeout
  <2>1. IsFiniteSet(S \ {k}) /\ Cardinality(S \ {k}) = Cardinality(S) - 1
    BY <1>2, <1>4, FS_RemoveElement, Zenon
  <2>2. Cardinality(S \ {k}) \in Nat
    BY <2>1, FS_CardinalityType
  <2>3. Cardinality(S) = Cardinality(S \ {k}) + 1
    BY <1>2, <2>1, <2>2
  <2> QED BY <2>2, <2>3, WorkGrows, Zenon
<1>5. ASSUME NEW k \in Keys \ S PROVE Work(Cardinality(S)) + Timeout <= Round
  <2>1. IsFiniteSet(S \cup {k}) /\ Cardinality(S \cup {k}) = Cardinality(S) + 1
    BY <1>2, <1>5, FS_AddElement
  <2>2. S \cup {k} \subseteq Keys
    BY <1>5
  <2>3. Cardinality(S \cup {k}) <= Cardinality(Keys)
    BY <1>1, <2>2, FS_Subset
  <2>4. Cardinality(S) + 1 \in Nat /\ Cardinality(S) + 1 <= Cardinality(Keys)
    BY <1>2, <2>1, <2>3
  <2>5. Work(Cardinality(S) + 1) <= Round
    BY <1>1, <2>4, WorkGrows, Zenon
  <2>6. Work(Cardinality(S) + 1) = Work(Cardinality(S)) + Timeout
    BY <1>2, WorkGrows, Zenon
  <2> QED BY <2>5, <2>6, Zenon
<1> QED BY <1>2, <1>3, <1>4, <1>5, Zenon

\* What is left for a busy validator is at most one round.
LEMMA FinishInReach ==
  ASSUME CacheInv, Requests, Busy
  PROVE  Finish \in Int /\ now <= Finish /\ Finish <= now + Round
<1>1. PICK w : w = Work(Cardinality(vkeys))
  BY Zenon
<1>2. now \in Int /\ vkeys \in SUBSET Keys
  BY Zenon DEF CacheInv, Clocks, Collected, Busy
<1>3. w \in Nat /\ w <= Round
  BY <1>1, <1>2, KeysLeft, Zenon
<1>4. CASE vpc # "wait"
  BY <1>1, <1>2, <1>3, <1>4, Durations DEF Finish
<1>5. CASE vpc = "wait"
  <2>1. vkey \in Keys \ vkeys /\ flight[vkey] # None /\ flight[vkey] \in Call /\ Timely(flight[vkey], now)
    BY <1>5, Zenon DEF CacheInv, Travels, Collected, Requests
  <2>2. PICK d : d = flight[vkey].deadline
    BY Zenon
  <2>3. d \in Int /\ now <= d /\ d <= now + Timeout
    BY <2>1, <2>2, Zenon DEF Timely, Call
  <2>4. w + Timeout <= Round
    BY <1>1, <1>2, <2>1, KeysLeft, Zenon
  <2>5. Finish = d + w
    BY <1>1, <1>5, <2>2, Zenon DEF Finish
  <2> QED BY <1>2, <1>3, <2>3, <2>4, <2>5, Durations
<1> QED BY <1>4, <1>5, Zenon

\* As long as the time and the ticker stand still, only getting later hurts.
LEMMA TicksKept ==
  ASSUME CacheInv, Requests, Ticks, UNCHANGED <<now, nextTick, pending>>,
         vpc' = "select" => vpc = "select",
         Busy' => Busy /\ vnow' = vnow /\ Finish' \in Int /\ Finish' <= Finish
  PROVE  Ticks'
<1>1. now \in Int /\ nextTick \in Int /\ (pending # None => pending \in Int) /\ (Busy => vnow \in Int)
  BY Zenon DEF CacheInv, Clocks, Busy
<1>2. Upcoming' = Upcoming
  BY Zenon DEF Upcoming
<1>3. ASSUME Busy'
      PROVE  /\ vnow' <= nextTick' - Period
             /\ Finish' <= vnow' + Lateness + Round
             /\ pending' # None => Finish' <= pending' + Lateness
             /\ Upcoming' <= vnow' + Period + Lateness
  <2>1. Busy /\ vnow' = vnow /\ Finish' \in Int /\ Finish' <= Finish
    BY <1>3, Zenon
  <2>2. Finish \in Int
    BY <2>1, FinishInReach, Zenon
  <2>3. PICK f \in Int : f = Finish'
    BY <2>1, Zenon
  <2>4. f <= vnow + Lateness + Round /\ (pending # None => f <= pending + Lateness)
    BY <1>1, <2>1, <2>2, <2>3, Durations DEF Ticks
  <2> QED BY <1>2, <2>1, <2>3, <2>4, Zenon DEF Ticks
<1> QED BY <1>3, Zenon DEF Ticks

LEMMA FinishKept ==
  ASSUME CacheInv, Requests, UNCHANGED <<now, vpc, vkeys, vkey>>,
         vpc = "wait" => flight'[vkey].deadline = flight[vkey].deadline
  PROVE  Finish' = Finish /\ (Busy => Finish' \in Int /\ Finish' <= Finish)
<1>1. Finish' = Finish
  BY Zenon DEF Finish
<1>2. Busy => Finish \in Int
  BY FinishInReach, Zenon
<1>3. \A f \in Int : f <= f
  OBVIOUS
<1> QED BY <1>1, <1>2, <1>3, Zenon

\* An outcome for the validator arrives, at the latest when it was due.
LEMMA RespondTicks ==
  ASSUME CacheInv, Requests, Ticks, NEW k \in Keys, Respond(k)
  PROVE  Ticks'
<1>0. UNCHANGED <<now, nextTick, pending, vnow, vkeys, vkey>>
  BY Zenon DEF Respond, tickVars
<1>1. CASE vpc = "wait" /\ vkey = k
  <2>1. vpc' = "apply" /\ Busy
    BY <1>1, Zenon DEF Respond, Busy
  <2>2. PICK w : w = Work(Cardinality(vkeys))
    BY Zenon
  <2>3. w \in Nat /\ now \in Int
    BY <2>1, <2>2, KeysLeft, Zenon DEF CacheInv, Clocks, Collected, Busy
  <2>4. flight[k] \in Call /\ Timely(flight[k], now) /\ flight[k] # None
    BY Zenon DEF CacheInv, Travels, Requests, Respond
  <2>5. PICK d : d = flight[k].deadline
    BY Zenon
  <2>6. d \in Int /\ now <= d
    BY <2>4, <2>5, Zenon DEF Timely, Call
  <2>7. Finish = d + w /\ Finish' = now + w
    BY <1>0, <1>1, <2>1, <2>2, <2>5 DEF Finish
  <2>8. Finish' \in Int /\ Finish' <= Finish
    BY <2>3, <2>6, <2>7
  <2> QED BY <1>0, <2>1, <2>8, TicksKept, Zenon
<1>2. CASE ~(vpc = "wait" /\ vkey = k)
  <2>1. vpc' = vpc
    BY <1>2, Zenon DEF Respond
  <2>2. vpc = "wait" => flight'[vkey] = flight[vkey]
    BY <1>2, Zenon DEF Respond, CacheInv, Travels
  <2>3. Busy' = Busy
    BY <2>1 DEF Busy
  <2> QED BY <1>0, <2>1, <2>2, <2>3, FinishKept, TicksKept, Zenon
<1> QED BY <1>1, <1>2, Zenon

\* The validator turns to the next key.
LEMMA NextKeyTicks ==
  ASSUME CacheInv, Requests, Ticks, NEW k \in Keys, ValidateNext(k)
  PROVE  Ticks'
<1>1. /\ UNCHANGED <<now, nextTick, pending, vnow>> /\ vpc = "loop" /\ vpc' = "wait" /\ vkey' = k
      /\ k \in vkeys /\ vkeys' = vkeys \ {k} /\ Join(k)
  BY Zenon DEF ValidateNext, tickVars
<1>2. Busy
  BY <1>1, Zenon DEF Busy
<1>3. now \in Int /\ vkeys \in SUBSET Keys /\ vkeys \ {k} \in SUBSET Keys
  BY <1>2, Zenon DEF CacheInv, Clocks, Collected, Busy
<1>4. PICK w : w = Work(Cardinality(vkeys \ {k}))
  BY Zenon
<1>5. w \in Nat /\ Work(Cardinality(vkeys)) = w + Timeout
  BY <1>1, <1>3, <1>4, KeysLeft, Zenon
<1>6. PICK d : d = flight'[k].deadline
  BY Zenon
<1>7. d \in Int /\ d <= now + Timeout
  <2>1. flight'[k] # None /\ d <= now + Timeout
    BY <1>1, <1>6, JoinTimely, Zenon
  <2>2. flight' \in [Keys -> Call' \cup {None}]
    BY TravelsStep, Zenon DEF Next, Travels
  <2>3. flight'[k] \in Call'
    BY <2>1, <2>2, Zenon
  <2>4. flight'[k].deadline \in Int
    BY <2>3 DEF Call
  <2> QED BY <1>6, <2>1, <2>4, Zenon
<1>8. Finish = now + (w + Timeout) /\ Finish' = d + w
  BY <1>1, <1>4, <1>5, <1>6, Zenon DEF Finish
<1>9. Finish' \in Int /\ Finish' <= Finish
  BY <1>3, <1>5, <1>7, <1>8, Durations
<1> QED BY <1>1, <1>2, <1>9, TicksKept, Zenon

LEMMA TickIsKept ==
  ASSUME CacheInv, Tick
  PROVE  pending' = Upcoming /\ pending' # None /\ Upcoming' = Upcoming
<1>1. pending' = Upcoming
  BY Zenon DEF Tick, Upcoming
<1>2. Upcoming \in Int
  BY Zenon DEF CacheInv, Clocks, Upcoming
<1>3. pending' # None
  BY <1>1, <1>2, GcomCacheAssumption, Zenon
<1> QED BY <1>1, <1>3, Zenon DEF Upcoming

\* The ticker fires.  A validator that is never late is done by then; one that
\* is late has at most a round to go.
LEMMA TickTicks ==
  ASSUME CacheInv, Requests, Ticks, Tick
  PROVE  Ticks'
<1>1. now \in Int /\ nextTick \in Int /\ (pending # None => pending \in Int) /\ (Busy => vnow \in Int)
  BY Zenon DEF CacheInv, Clocks, Busy
<1>2. now = nextTick /\ nextTick' = nextTick + Period /\ UNCHANGED <<now, flight, vpc, vnow, vkeys, vkey>>
  BY Zenon DEF Tick, valVars
<1>3. Busy' = Busy /\ Finish' = Finish
  BY <1>2, Zenon DEF Busy, Finish
<1>4. Upcoming' = Upcoming /\ pending' # None
  BY TickIsKept, Zenon
<1>5. 0 <= now /\ now \in 0 .. MaxTime
  BY <1>1 DEF Ticks
<1>6. CASE pending = None
  <2>1. pending' = now
    BY <1>6, Zenon DEF Tick
  <2>2. Busy => Finish <= now + Lateness
    <3> SUFFICES ASSUME Busy PROVE Finish <= now + Lateness
      OBVIOUS
    <3>1. Finish \in Int /\ Finish <= now + Round
      BY FinishInReach, Zenon
    <3>2. vnow <= nextTick - Period /\ Finish <= vnow + Lateness + Round
      BY Zenon DEF Ticks
    <3> QED BY <1>1, <1>2, <3>1, <3>2, Durations DEF Lateness
  <2>3. nextTick' - Period = now /\ now <= nextTick' /\ now <= now + Lateness /\ now <= now
    BY <1>1, <1>2, Durations
  <2>4. Busy => vnow <= now
    BY <1>1, Durations, Zenon DEF CacheInv, Clocks, Busy
  <2>5. Busy => Finish <= vnow + Lateness + Round /\ Upcoming <= vnow + Period + Lateness
    BY Zenon DEF Ticks
  <2> QED BY <1>2, <1>3, <1>4, <1>5, <2>1, <2>2, <2>3, <2>4, <2>5, Zenon DEF Ticks
<1>7. CASE pending # None
  <2>1. pending' = pending /\ 0 <= pending
    BY <1>7, Zenon DEF Tick, Ticks
  <2>2. pending <= nextTick - Period /\ (Busy => vnow <= nextTick - Period)
    BY <1>7, Zenon DEF Ticks
  <2>3. nextTick' - Period <= now /\ now <= nextTick' /\ pending <= nextTick' - Period
    BY <1>1, <1>2, <1>7, <2>2, Durations
  <2>4. Busy => vnow <= nextTick' - Period
    BY <1>1, <1>2, <2>2, Durations
  <2>5. Busy => /\ Finish <= vnow + Lateness + Round /\ Finish <= pending + Lateness
                /\ Upcoming <= vnow + Period + Lateness
    BY <1>7, Zenon DEF Ticks
  <2>6. vpc = "select" => now <= pending + Lateness
    BY <1>7, Zenon DEF Ticks
  <2> QED BY <1>2, <1>3, <1>4, <1>5, <2>1, <2>3, <2>4, <2>5, <2>6, Zenon DEF Ticks
<1> QED BY <1>6, <1>7, Zenon

\* The validator begins with a tick.
LEMMA ValidateTicks ==
  ASSUME CacheInv, Requests, Ticks, Validate
  PROVE  Ticks'
<1>1. pending # None /\ vpc = "select" /\ vpc' = "loop" /\ vnow' = pending /\ pending' = None
  BY Zenon DEF Validate
<1>2. UNCHANGED <<now, nextTick>>
  BY Zenon DEF Validate
<1>3. now \in Int /\ nextTick \in Int /\ pending \in Int
  BY <1>1, Zenon DEF CacheInv, Clocks
<1>4. now <= pending + Lateness /\ pending <= nextTick - Period /\ nextTick - Period <= now
  BY <1>1, Zenon DEF Ticks
<1>5. PICK w : w = Work(Cardinality(vkeys'))
  BY Zenon
<1>6. w \in Nat /\ w <= Round
  <2>1. vkeys' \in SUBSET Keys
    BY DEF Validate
  <2> QED BY <1>5, <2>1, KeysLeft, Zenon
<1>7. Finish' = now + w
  BY <1>1, <1>2, <1>5 DEF Finish
<1>8. Finish' <= pending + Lateness + Round
  BY <1>3, <1>4, <1>6, <1>7, Durations
<1>9. Upcoming' = nextTick /\ nextTick <= pending + Period + Lateness
  <2>1. Upcoming' = nextTick
    BY <1>1, <1>2, Zenon DEF Upcoming
  <2> QED BY <1>3, <1>4, <2>1, Durations
<1>10. now \in 0 .. MaxTime /\ nextTick - Period <= now /\ now <= nextTick
  BY Zenon DEF Ticks
<1>11. vpc' # "select"
  BY <1>1
<1> QED BY <1>1, <1>2, <1>4, <1>8, <1>9, <1>10, <1>11, Zenon DEF Ticks

LEMMA DoneTicks ==
  ASSUME CacheInv, Requests, Ticks, ValidateDone
  PROVE  Ticks'
<1>1. vpc = "loop" /\ vpc' = "select" /\ UNCHANGED <<now, nextTick, pending>>
  BY Zenon DEF ValidateDone, tickVars
<1>2. Busy /\ ~ Busy'
  BY <1>1 DEF Busy
<1>3. pending # None => now <= pending + Lateness
  <2> SUFFICES ASSUME pending # None PROVE now <= pending + Lateness
    OBVIOUS
  <2>1. Finish \in Int /\ now <= Finish /\ Finish <= pending + Lateness
    BY <1>2, FinishInReach, Zenon DEF Ticks
  <2>2. now \in Int /\ pending \in Int
    BY Zenon DEF CacheInv, Clocks
  <2> QED BY <2>1, <2>2, Durations
<1> QED BY <1>1, <1>2, <1>3, Zenon DEF Ticks

\* Time passes only while the validator waits for a response or a tick.
LEMMA AdvanceTicks ==
  ASSUME CacheInv, Requests, Ticks, Advance
  PROVE  Ticks'
<1>1. now' = now + 1 /\ now < nextTick /\ now < MaxTime
  BY Zenon DEF Advance, Settled
<1>2. UNCHANGED <<nextTick, pending, flight, vpc, vnow, vkeys, vkey>>
  BY Zenon DEF Advance, tickVars, valVars
<1>3. vpc \in {"wait", "off"} \/ (vpc = "select" /\ pending = None)
  BY Zenon DEF Advance, Settled
<1>4. Busy' = Busy /\ Upcoming' = Upcoming /\ (Busy => Finish' = Finish)
  BY <1>2, <1>3 DEF Busy, Upcoming, Finish
<1>5. now \in Int /\ nextTick \in Int /\ MaxTime \in Nat /\ now \in 0 .. MaxTime
  BY GcomCacheAssumption, Zenon DEF CacheInv, Clocks, Ticks
<1>6. now' \in 0 .. MaxTime /\ nextTick - Period <= now' /\ now' <= nextTick
  <2>1. nextTick - Period <= now
    BY Zenon DEF Ticks
  <2> QED BY <1>1, <1>5, <2>1, Durations
<1> QED BY <1>2, <1>3, <1>4, <1>6, Zenon DEF Ticks

LEMMA TicksStep ==
  ASSUME CacheInv, Requests, Ticks, Next
  PROVE  Ticks'
<1> USE DEF config, callVars, tickVars, valVars
<1>0. ASSUME UNCHANGED <<now, nextTick, pending, vpc, vnow, vkeys, vkey>>,
             vpc = "wait" => flight'[vkey].deadline = flight[vkey].deadline
      PROVE  Ticks'
  <2>1. Busy' = Busy
    BY <1>0 DEF Busy
  <2> QED BY <1>0, <2>1, FinishKept, TicksKept, Zenon
<1>w. vpc = "wait" => vkey \in Keys /\ flight[vkey] # None
  BY Zenon DEF CacheInv, Travels, Requests
<1>1. ASSUME NEW k \in Keys, AuthCached(k) PROVE Ticks'
  BY <1>0, <1>1, Zenon DEF AuthCached
<1>2. ASSUME NEW k \in Keys, NEW c \in Callers, AuthMiss(c, k) PROVE Ticks'
  BY <1>0, <1>2, Zenon DEF AuthMiss
<1>3. ASSUME NEW c \in Callers, AuthValidate(c) PROVE Ticks'
  <2>1. akey[c] \in Keys /\ Join(akey[c])
    BY <1>3, Zenon DEF AuthValidate, CacheInv, Travels
  <2>2. vpc = "wait" => flight'[vkey] = flight[vkey]
    BY <1>w, <2>1, JoinTimely, Zenon
  <2> QED BY <1>0, <1>3, <2>2, Zenon DEF AuthValidate
<1>4. ASSUME NEW c \in Callers, AuthSet(c) PROVE Ticks'
  BY <1>0, <1>4, Zenon DEF AuthSet
<1>5. ASSUME NEW k \in Keys, NEW response \in Responses, Decide(k, response) PROVE Ticks'
  BY <1>0, <1>w, <1>5, DecideTimely, Zenon DEF Decide
<1>6. ASSUME NEW k \in Keys, Respond(k) PROVE Ticks'
  BY <1>6, RespondTicks, Zenon
<1>9. ASSUME NEW k \in Keys, ValidateNext(k) PROVE Ticks'
  BY <1>9, NextKeyTicks, Zenon
<1>11. CASE ValidateApply
  <2>1. UNCHANGED <<now, nextTick, pending, vnow, vkeys>> /\ vpc = "apply" /\ vpc' = "loop"
    BY <1>11, Zenon DEF ValidateApply
  <2>2. Busy /\ Finish' = Finish
    BY <2>1 DEF Busy, Finish
  <2>3. Finish \in Int /\ \A f \in Int : f <= f
    BY <2>2, FinishInReach
  <2> QED BY <2>1, <2>2, <2>3, TicksKept, Zenon
<1>12. CASE Stop
  <2>1. UNCHANGED <<now, nextTick, pending>> /\ vpc' = "off"
    BY <1>12, Zenon DEF Stop
  <2>2. ~ Busy' /\ vpc' # "select"
    BY <2>1 DEF Busy
  <2> QED BY <2>1, <2>2, TicksKept, Zenon
<1> QED BY <1>1, <1>2, <1>3, <1>4, <1>5, <1>6, <1>9, <1>11, <1>12,
           TickTicks, ValidateTicks, DoneTicks, AdvanceTicks, Zenon DEF Next

-----------------------------------------------------------------------------
(* How old items get *)

\* While grafana.com decides every request, the validator has decisions.
Decided ==
  ~ undecided => /\ \A k \in Keys : flight[k] # None /\ flight[k].got # None => flight[k].got.result \in Decisions
                 /\ vpc = "apply" => vanswer.result \in Decisions

\* The tick for which key k is or will be looked at next.
LookedAt(k) == IF k \in Working THEN vnow ELSE Upcoming

\* An item that is looked at for tick t: its decision is hardly older than
\* retrieved says, and neither its next validation nor the one after its last
\* use is too far off.
InTime(e, t) ==
  e # None => /\ e.retrieved - Timeout <= e.asOf
              /\ e.retrieved <= e.lastRead + MaxDue
              /\ t <= e.retrieved + MaxDue

Due == ~ undecided /\ vpc # "off" => \A k \in Keys : InTime(items[k], LookedAt(k))

LEMMA DecidedStep ==
  ASSUME CacheInv, Requests, Decided, Next
  PROVE  Decided' /\ (undecided => undecided')
<1>0. flight \in [Keys -> Call \cup {None}] /\ now \in Int
  BY Zenon DEF CacheInv, Travels, Clocks
<1> USE <1>0 DEF Decided, config, callVars, tickVars, valVars
<1>j. ASSUME NEW k \in Keys, Join(k)
      PROVE  \A j \in Keys : flight'[j] = flight[j] \/ flight'[j].got = None
  <2>1. CASE flight[k] # None
    BY <1>j, <2>1, Zenon DEF Join
  <2>2. CASE flight[k] = None
    <3>1. PICK f : f = [deadline |-> now + Timeout, got |-> None]
      BY Zenon
    <3>2. f.got = None
      BY <3>1, Zenon
    <3>3. \A j \in Keys : flight'[j] = IF j = k THEN f ELSE flight[j]
      BY <1>j, <2>2, <3>1, Zenon DEF Join
    <3> QED BY <1>j, <3>2, <3>3, Zenon
  <2> QED BY <2>1, <2>2, Zenon
<1>1. ASSUME NEW k \in Keys, AuthCached(k) PROVE Decided' /\ (undecided => undecided')
  BY <1>1, Zenon DEF AuthCached
<1>2. ASSUME NEW k \in Keys, NEW c \in Callers, AuthMiss(c, k) PROVE Decided' /\ (undecided => undecided')
  BY <1>2, Zenon DEF AuthMiss
<1>3. ASSUME NEW c \in Callers, AuthValidate(c) PROVE Decided' /\ (undecided => undecided')
  <2>1. PICK k \in Keys : Join(k)
    BY <1>3, Zenon DEF AuthValidate, CacheInv, Travels
  <2> QED BY <1>3, <1>j, <2>1, Zenon DEF AuthValidate
<1>4. ASSUME NEW c \in Callers, AuthSet(c) PROVE Decided' /\ (undecided => undecided')
  BY <1>4, Zenon DEF AuthSet
<1>5. ASSUME NEW k \in Keys, NEW response \in Responses, Decide(k, response)
      PROVE  Decided' /\ (undecided => undecided')
  <2>1. PICK g : flight' = [flight EXCEPT ![k].got = g] /\ (~ undecided' => g.result \in Decisions)
    BY <1>5, DecideOutcome, Zenon DEF CacheInv
  <2>2. (undecided => undecided') /\ UNCHANGED <<vpc, vanswer>> /\ flight[k] \in Call
    BY <1>5, Zenon DEF Decide
  <2>3. PICK f : f = [flight[k] EXCEPT !.got = g]
    BY Zenon
  <2>4. f.got = g
    BY <2>2, <2>3 DEF Call
  <2>5. \A j \in Keys : flight'[j] = IF j = k THEN f ELSE flight[j]
    BY <2>1, <2>3, Zenon
  <2> QED BY <2>1, <2>2, <2>4, <2>5, Zenon
<1>6. ASSUME NEW k \in Keys, Respond(k) PROVE Decided' /\ (undecided => undecided')
  <2>1. \A j \in Keys : flight'[j] = IF j = k THEN None ELSE flight[j]
    BY <1>6, Zenon DEF Respond
  <2> QED BY <1>6, <2>1, Zenon DEF Respond
<1>7. CASE Tick
  BY <1>7, Zenon DEF Tick
<1>8. CASE Validate
  BY <1>8, Zenon DEF Validate
<1>9. ASSUME NEW k \in Keys, ValidateNext(k) PROVE Decided' /\ (undecided => undecided')
  BY <1>9, <1>j, Zenon DEF ValidateNext
<1>10. CASE ValidateDone
  BY <1>10, Zenon DEF ValidateDone
<1>11. CASE ValidateApply
  BY <1>11, Zenon DEF ValidateApply
<1>12. CASE Stop
  BY <1>12, Zenon DEF Stop
<1>13. CASE Advance
  BY <1>13, Zenon DEF Advance
<1> QED BY <1>1, <1>2, <1>3, <1>4, <1>5, <1>6, <1>7, <1>8, <1>9, <1>10, <1>11, <1>12, <1>13, Zenon DEF Next

LEMMA OffStays ==
  ASSUME Next, vpc = "off"
  PROVE  vpc' = "off"
BY Zenon DEF Next, AuthCached, AuthMiss, AuthValidate, AuthSet, Decide, Respond, Tick, Validate, ValidateNext,
       ValidateDone, ValidateApply, Stop, Advance, valVars

\* No tick the validator has or gets next is long after the present.
LEMMA LookedAtSoon ==
  ASSUME CacheInv, Ticks, NEW k \in Keys
  PROVE  /\ LookedAt(k) \in Int /\ LookedAt(k) <= now + Period
         /\ Upcoming \in Int /\ Upcoming <= now + Period
<1>1. now \in Int /\ nextTick \in Int /\ (pending # None => pending \in Int)
  BY Zenon DEF CacheInv, Clocks
<1>2. Upcoming \in Int /\ Upcoming <= now + Period
  <2>1. nextTick - Period <= now /\ (pending # None => pending <= nextTick - Period)
    BY Zenon DEF Ticks
  <2>2. nextTick <= now + Period /\ (pending # None => pending <= now + Period)
    BY <1>1, <2>1, Durations
  <2> QED BY <1>1, <2>2, Zenon DEF Upcoming
<1>3. CASE k \notin Working
  BY <1>2, <1>3, Zenon DEF LookedAt
<1>4. CASE k \in Working
  <2>1. vnow \in Int /\ vnow <= now
    BY <1>4, Zenon DEF Working, CacheInv, Clocks
  <2>2. vnow <= now + Period
    BY <1>1, <2>1, Durations
  <2> QED BY <1>2, <1>4, <2>1, <2>2, Zenon DEF LookedAt
<1> QED BY <1>3, <1>4, Zenon

LEMMA AuthCachedDue ==
  ASSUME CacheInv, Ticks, NEW k \in Keys, AuthCached(k), \A j \in Keys : InTime(items[j], LookedAt(j))
  PROVE  \A j \in Keys : InTime(items'[j], LookedAt(j)')
<1>1. PICK e \in Item : /\ items' = [items EXCEPT ![k] = e] /\ e.retrieved = items[k].retrieved
                        /\ e.lastRead = now /\ e.asOf = items[k].asOf
  BY ReadEntry, Zenon
<1>2. \A j \in Keys : LookedAt(j)' = LookedAt(j)
  BY Zenon DEF AuthCached, tickVars, valVars, LookedAt, Working, Upcoming
<1>3. \A j \in Keys : items'[j] = IF j = k THEN e ELSE items[j]
  BY <1>1, Zenon DEF CacheInv, Clocks
<1>4. items[k] # None /\ items[k].retrieved <= now /\ now \in Int
  BY Zenon DEF AuthCached, CacheInv, Clocks
<1>5. InTime(e, LookedAt(k))
  <2>1. e.retrieved - Timeout <= e.asOf /\ LookedAt(k) <= e.retrieved + MaxDue
    BY <1>1, <1>4, Zenon DEF InTime
  <2>2. e.retrieved \in Int /\ e.retrieved <= now
    BY <1>1, <1>4, Zenon DEF Item
  <2>3. e.retrieved <= now + MaxDue
    BY <1>4, <2>2, Durations
  <2> QED BY <1>1, <2>1, <2>3, Zenon DEF InTime
<1> QED BY <1>2, <1>3, <1>5, Zenon

LEMMA AuthSetDue ==
  ASSUME CacheInv, Requests, Ticks, NEW c \in Callers, AuthSet(c), \A j \in Keys : InTime(items[j], LookedAt(j))
  PROVE  \A j \in Keys : InTime(items'[j], LookedAt(j)')
<1>2. \A j \in Keys : LookedAt(j)' = LookedAt(j)
  BY Zenon DEF AuthSet, tickVars, valVars, LookedAt, Working, Upcoming
<1>3. CASE answer[c].result = "error"
  BY <1>2, <1>3, Zenon DEF AuthSet
<1>4. CASE answer[c].result # "error"
  <2>1. PICK k \in Keys : k = akey[c]
    BY <1>4, SetEntry, Zenon
  <2>2. PICK e \in Item : /\ items' = [items EXCEPT ![k] = e] /\ e.retrieved = now
                          /\ e.lastRead = now /\ e.asOf = answer[c].asOf
    BY <1>4, <2>1, SetEntry, Zenon
  <2>3. \A j \in Keys : items'[j] = IF j = k THEN e ELSE items[j]
    BY <2>2, Zenon DEF CacheInv, Clocks
  <2>4. now - Timeout <= answer[c].asOf /\ now \in Int
    BY Zenon DEF AuthSet, Requests, CacheInv, Clocks
  <2>5. now <= now + MaxDue /\ LookedAt(k) <= now + MaxDue
    BY <2>4, LookedAtSoon, Durations DEF MaxDue
  <2>6. InTime(e, LookedAt(k))
    BY <2>2, <2>4, <2>5, Zenon DEF InTime
  <2> QED BY <1>2, <2>3, <2>6, Zenon
<1> QED BY <1>3, <1>4, Zenon

\* A key is collected if its item is past its TTL; if not, the next tick is in
\* time for it.
LEMMA ValidateDue ==
  ASSUME CacheInv, Ticks, Validate, \A j \in Keys : InTime(items[j], LookedAt(j))
  PROVE  \A j \in Keys : InTime(items'[j], LookedAt(j)')
<1> SUFFICES ASSUME NEW k \in Keys, items[k] # None
             PROVE  InTime(items[k], LookedAt(k)')
  BY Zenon DEF Validate, InTime
<1>1. pending # None /\ vpc = "select" /\ vpc' = "loop" /\ vnow' = pending /\ pending' = None /\ nextTick' = nextTick
  BY Zenon DEF Validate
<1>2. LookedAt(k) = pending /\ Upcoming' = nextTick
  BY <1>1 DEF LookedAt, Working, Upcoming
<1>3. now \in Int /\ nextTick \in Int /\ pending \in Int /\ items[k] \in Item
  BY <1>1, Zenon DEF CacheInv, Clocks
<1>4. items[k].retrieved \in Int
  BY <1>3, Zenon DEF Item
<1>5. Working' = {j \in Keys : items[j] # None /\ Expired(items[j], pending)}
  BY <1>1, Zenon DEF Working, Validate
<1>6. CASE k \in Working'
  <2>1. LookedAt(k)' = pending
    BY <1>1, <1>6, Zenon DEF LookedAt
  <2> QED BY <1>2, <2>1, Zenon
<1>7. CASE k \notin Working'
  <2>1. LookedAt(k)' = nextTick
    BY <1>2, <1>7, Zenon DEF LookedAt
  <2>2. ~(items[k].retrieved < pending - TTL)
    BY <1>5, <1>7, Zenon DEF Expired
  <2>3. now <= pending + Lateness /\ nextTick - Period <= now
    BY <1>1, Zenon DEF Ticks
  <2>4. nextTick <= items[k].retrieved + MaxDue
    BY <1>3, <1>4, <2>2, <2>3, Durations DEF MaxDue
  <2> QED BY <2>1, <2>4, Zenon DEF InTime
<1> QED BY <1>6, <1>7, Zenon

LEMMA ValidateApplyDue ==
  ASSUME CacheInv, Requests, Ticks, Decided, ~ undecided, ValidateApply,
         \A j \in Keys : InTime(items[j], LookedAt(j))
  PROVE  \A j \in Keys : InTime(items'[j], LookedAt(j)')
<1>1. vpc = "apply" /\ vpc' = "loop" /\ UNCHANGED <<now, nextTick, pending, vnow, vkeys>>
  BY Zenon DEF ValidateApply, tickVars
<1>2. vkey \in Keys /\ vanswer.result \in Decisions /\ vkey \notin vkeys
  BY <1>1, Zenon DEF CacheInv, Travels, Collected, Decided
<1>3. Working = vkeys \cup {vkey} /\ Working' = vkeys /\ Upcoming' = Upcoming
  BY <1>1 DEF Working, Upcoming
<1>4. \A j \in Keys : j # vkey => LookedAt(j)' = LookedAt(j)
  BY <1>1, <1>3, Zenon DEF LookedAt
<1>5. LookedAt(vkey) = vnow
  BY <1>3, Zenon DEF LookedAt
<1>6. CASE items' = items /\ items[vkey] = None
  BY <1>4, <1>6, Zenon DEF InTime
<1>7. CASE items' = [items EXCEPT ![vkey] = None]
  <2>1. \A j \in Keys : items'[j] = IF j = vkey THEN None ELSE items[j]
    BY <1>7, Zenon DEF CacheInv, Clocks
  <2> QED BY <1>4, <2>1, Zenon DEF InTime
<1>8. CASE \E e \in Item : /\ items[vkey] # None
                           /\ items' = [items EXCEPT ![vkey] = e]
                           /\ items[vkey].retrieved <= items[vkey].lastRead
                           /\ e.retrieved = vnow /\ e.lastRead = items[vkey].lastRead
                           /\ e.asOf = vanswer.asOf
  <2>1. PICK e \in Item : /\ items[vkey] # None
                          /\ items' = [items EXCEPT ![vkey] = e]
                          /\ items[vkey].retrieved <= items[vkey].lastRead
                          /\ e.retrieved = vnow /\ e.lastRead = items[vkey].lastRead
                          /\ e.asOf = vanswer.asOf
    BY <1>8, Zenon
  <2>2. \A j \in Keys : items'[j] = IF j = vkey THEN e ELSE items[j]
    BY <2>1, Zenon DEF CacheInv, Clocks
  <2>3. /\ items[vkey] \in Item /\ vanswer \in Outcomes
        /\ now \in Int /\ vnow \in Int /\ vnow <= now /\ now - Timeout <= vanswer.asOf
    BY <1>1, <1>2, <2>1, Zenon DEF CacheInv, Travels, Clocks, Requests
  <2>4. items[vkey].retrieved \in Int /\ items[vkey].lastRead \in Int /\ vanswer.asOf \in Int
    BY <2>3 DEF Item, Outcomes, Answer
  <2>5. vnow - Timeout <= vanswer.asOf
    BY <2>3, <2>4, Durations
  <2>6. vnow <= items[vkey].retrieved + MaxDue
    BY <1>2, <1>5, <2>1, Zenon DEF InTime
  <2>7. vnow <= items[vkey].lastRead + MaxDue
    BY <2>1, <2>3, <2>4, <2>6, Durations
  <2>9. Upcoming \in Int /\ Upcoming <= vnow + Period + Lateness
    BY <1>1, <1>2, LookedAtSoon, Zenon DEF Ticks, Busy
  <2>10. Upcoming <= vnow + MaxDue
    BY <2>3, <2>9, Durations DEF MaxDue
  <2>11. InTime(e, Upcoming)
    BY <2>1, <2>5, <2>7, <2>10, Zenon DEF InTime
  <2> QED BY <1>2, <1>3, <1>4, <2>2, <2>11, Zenon DEF LookedAt
<1> QED BY <1>2, <1>6, <1>7, <1>8, ApplyEntry, Zenon

LEMMA DueStep ==
  ASSUME CacheInv, Requests, Ticks, Decided, Due, Next
  PROVE  Due'
<1> SUFFICES ASSUME ~ undecided', vpc' # "off"
             PROVE  \A j \in Keys : InTime(items'[j], LookedAt(j)')
  BY Zenon DEF Due
<1>0. ~ undecided /\ \A j \in Keys : InTime(items[j], LookedAt(j))
  BY DecidedStep, OffStays, Zenon DEF Due
<1>s. ASSUME items' = items, Working' = Working, UNCHANGED <<nextTick, pending, vnow>>
      PROVE  \A j \in Keys : InTime(items'[j], LookedAt(j)')
  BY <1>0, <1>s, Zenon DEF LookedAt, Upcoming
<1> USE DEF config, callVars, tickVars, valVars
<1>1. ASSUME NEW k \in Keys, AuthCached(k) PROVE \A j \in Keys : InTime(items'[j], LookedAt(j)')
  BY <1>0, <1>1, AuthCachedDue, Zenon
<1>2. ASSUME NEW k \in Keys, NEW c \in Callers, AuthMiss(c, k)
      PROVE  \A j \in Keys : InTime(items'[j], LookedAt(j)')
  BY <1>2, <1>s, Zenon DEF AuthMiss, Working
<1>3. ASSUME NEW c \in Callers, AuthValidate(c) PROVE \A j \in Keys : InTime(items'[j], LookedAt(j)')
  BY <1>3, <1>s, Zenon DEF AuthValidate, Working
<1>4. ASSUME NEW c \in Callers, AuthSet(c) PROVE \A j \in Keys : InTime(items'[j], LookedAt(j)')
  BY <1>0, <1>4, AuthSetDue, Zenon
<1>5. ASSUME NEW k \in Keys, NEW response \in Responses, Decide(k, response)
      PROVE  \A j \in Keys : InTime(items'[j], LookedAt(j)')
  BY <1>5, <1>s, Zenon DEF Decide, Working
<1>6. ASSUME NEW k \in Keys, Respond(k) PROVE \A j \in Keys : InTime(items'[j], LookedAt(j)')
  <2>1. UNCHANGED <<items, nextTick, pending, vnow, vkeys, vkey>>
    BY <1>6, Zenon DEF Respond
  <2>2. vpc' = vpc \/ (vpc = "wait" /\ vpc' = "apply")
    BY <1>6, Zenon DEF Respond
  <2>3. Working' = Working
    BY <2>1, <2>2 DEF Working
  <2> QED BY <1>s, <2>1, <2>3, Zenon
<1>7. CASE Tick
  <2>1. UNCHANGED <<items, vpc, vnow, vkeys, vkey>>
    BY <1>7, Zenon DEF Tick
  <2>2. Upcoming' = Upcoming
    BY <1>7, TickIsKept, Zenon
  <2> QED BY <1>0, <2>1, <2>2, Zenon DEF LookedAt, Working
<1>8. CASE Validate
  BY <1>0, <1>8, ValidateDue, Zenon
<1>9. ASSUME NEW k \in Keys, ValidateNext(k) PROVE \A j \in Keys : InTime(items'[j], LookedAt(j)')
  <2>1. /\ UNCHANGED <<items, nextTick, pending, vnow>> /\ vpc = "loop" /\ vpc' = "wait" /\ vkey' = k
        /\ k \in vkeys /\ vkeys' = vkeys \ {k}
    BY <1>9, Zenon DEF ValidateNext
  <2>2. Working' = Working
    BY <2>1 DEF Working
  <2> QED BY <1>s, <2>1, <2>2, Zenon
<1>10. CASE ValidateDone
  <2>1. UNCHANGED <<items, nextTick, pending>> /\ vpc = "loop" /\ vpc' = "select" /\ vkeys = {}
    BY <1>10, Zenon DEF ValidateDone
  <2>2. Working = {} /\ Working' = {}
    BY <2>1 DEF Working
  <2>3. \A j \in Keys : LookedAt(j) = Upcoming /\ LookedAt(j)' = Upcoming
    BY <2>1, <2>2 DEF LookedAt, Upcoming
  <2> QED BY <1>0, <2>1, <2>3, Zenon
<1>11. CASE ValidateApply
  BY <1>0, <1>11, ValidateApplyDue, Zenon
<1>12. CASE Stop
  BY <1>12, Zenon DEF Stop
<1>13. CASE Advance
  BY <1>13, <1>s, Zenon DEF Advance, Working
<1> QED BY <1>1, <1>2, <1>3, <1>4, <1>5, <1>6, <1>7, <1>8, <1>9, <1>10, <1>11, <1>12, <1>13, Zenon DEF Next

-----------------------------------------------------------------------------

TimeInv == CacheInv /\ Requests /\ Ticks /\ Decided /\ Due

LEMMA TimeInit == Init => TimeInv
<1> SUFFICES ASSUME Init PROVE TimeInv
  OBVIOUS
<1>1. vpc = "select" /\ pending = None /\ now = 0 /\ nextTick = Period
  BY Zenon DEF Init
<1>2. Requests /\ Decided
  BY Zenon DEF Init, Requests, Decided, Timely
<1>3. Ticks
  <2>1. ~ Busy
    BY <1>1 DEF Busy
  <2>2. now \in 0 .. MaxTime /\ nextTick - Period <= now /\ now <= nextTick
    BY <1>1, Durations, GcomCacheAssumption
  <2> QED BY <1>1, <2>1, <2>2, Zenon DEF Ticks
<1>4. Due
  BY Zenon DEF Init, Due, InTime
<1> QED BY <1>2, <1>3, <1>4, InvInit, Zenon DEF TimeInv

LEMMA TimeStutters ==
  ASSUME TimeInv, UNCHANGED vars
  PROVE  TimeInv'
<1> USE DEF vars, config, callVars, tickVars, valVars
<1>1. CacheInv'
  BY InvStutters, Zenon DEF TimeInv
<1>2. Requests' /\ Decided'
  BY Zenon DEF TimeInv, Requests, Decided
<1>3. Ticks'
  BY Zenon DEF TimeInv, Ticks, Busy, Finish, Upcoming
<1>4. Due'
  BY Zenon DEF TimeInv, Due, LookedAt, Working, Upcoming
<1> QED BY <1>1, <1>2, <1>3, <1>4, Zenon DEF TimeInv

LEMMA TimeInvariant == Spec => []TimeInv
<1>1. ASSUME TimeInv, Next PROVE TimeInv'
  <2>1. CacheInv'
    BY <1>1, TravelsStep, ClocksStep, Zenon DEF TimeInv, CacheInv
  <2> QED BY <1>1, <2>1, RequestsStep, TicksStep, DecidedStep, DueStep, Zenon DEF TimeInv
<1>2. TimeInv /\ [Next]_vars => TimeInv'
  BY <1>1, TimeStutters, Zenon
<1> QED BY TimeInit, <1>2, PTL DEF Spec

\* The time at which a key's item has been dealt with.
LEMMA ItemsInTime ==
  ASSUME TimeInv, ~ undecided, vpc # "off", NEW k \in Keys, items[k] # None
  PROVE  /\ items[k].retrieved \in Int /\ items[k].lastRead \in Int /\ items[k].asOf \in Int
         /\ now \in Int /\ now <= items[k].retrieved + MaxDue + Lateness + Round
         /\ items[k].retrieved - Timeout <= items[k].asOf
         /\ items[k].retrieved <= items[k].lastRead + MaxDue
<1>1. CacheInv /\ Requests /\ Ticks /\ InTime(items[k], LookedAt(k))
  BY Zenon DEF TimeInv, Due
<1>2. items[k] \in Item /\ now \in Int /\ nextTick \in Int
  BY <1>1, Zenon DEF CacheInv, Clocks
<1>3. PICK r \in Int : r = items[k].retrieved
  BY <1>2, Zenon DEF Item
<1>4. LookedAt(k) <= r + MaxDue
  BY <1>1, <1>3, Zenon DEF InTime
<1>5. CASE k \in Working
  <2>1. Busy /\ vnow \in Int /\ LookedAt(k) = vnow
    BY <1>1, <1>5, Zenon DEF Busy, Working, CacheInv, Clocks, LookedAt
  <2>2. Finish \in Int /\ now <= Finish /\ Finish <= vnow + Lateness + Round
    BY <1>1, <2>1, FinishInReach, Zenon DEF Ticks
  <2> QED BY <1>1, <1>2, <1>3, <1>4, <2>1, <2>2, Durations DEF InTime, Item
<1>6. CASE k \notin Working /\ pending = None
  <2>1. LookedAt(k) = nextTick /\ now <= nextTick
    BY <1>1, <1>6, Zenon DEF LookedAt, Upcoming, Ticks
  <2> QED BY <1>1, <1>2, <1>3, <1>4, <2>1, Durations DEF InTime, Item
<1>7. CASE k \notin Working /\ pending # None
  <2>1. LookedAt(k) = pending /\ pending \in Int
    BY <1>1, <1>7, Zenon DEF LookedAt, Upcoming, CacheInv, Clocks
  <2>2. now <= pending + Lateness
    <3>1. CASE vpc = "select"
      BY <1>1, <1>7, <3>1, Zenon DEF Ticks
    <3>2. CASE Busy
      <4>1. Finish \in Int /\ now <= Finish /\ Finish <= pending + Lateness
        BY <1>1, <1>7, <3>2, FinishInReach, Zenon DEF Ticks
      <4> QED BY <1>2, <2>1, <4>1, Durations
    <3> QED BY <1>1, <3>1, <3>2, Zenon DEF Requests, Busy
  <2> QED BY <1>1, <1>2, <1>3, <1>4, <2>1, <2>2, Durations DEF InTime, Item
<1> QED BY <1>5, <1>6, <1>7, Zenon

\* However lookups, shared requests and the background validation interleave,
\* and however many keys keep the validator busy past its next tick: while
\* grafana.com decides every request, no cached answer rests on a decision
\* older than MaxAge.
THEOREM AnswersStayFresh == Spec => []AgeBounded
<1>1. TimeInv => AgeBounded
  <2> SUFFICES ASSUME TimeInv, ~ undecided, vpc # "off", NEW k \in Keys, items[k] # None
               PROVE  now - items[k].asOf <= MaxAge
    BY Zenon DEF AgeBounded
  <2>1. PICK r \in Int, a \in Int : r = items[k].retrieved /\ a = items[k].asOf
    BY ItemsInTime, Zenon
  <2>2. now \in Int /\ now <= r + MaxDue + Lateness + Round /\ r - Timeout <= a
    BY <2>1, ItemsInTime, Zenon
  <2>3. now - a <= MaxAge
    BY <2>2, Durations DEF MaxAge
  <2> QED BY <2>1, <2>3, Zenon
<1> QED BY TimeInvariant, <1>1, PTL

\* An item nobody asks about is dropped by the second validation after its
\* last use, within MaxIdle: the cache forgets the keys that are not used.
THEOREM UnusedKeysLeave == Spec => []IdleItemsLeave
<1>1. TimeInv => IdleItemsLeave
  <2> SUFFICES ASSUME TimeInv, ~ undecided, vpc # "off", NEW k \in Keys, items[k] # None
               PROVE  now - used[k] <= MaxIdle
    BY Zenon DEF IdleItemsLeave
  <2>1. PICK r \in Int, u \in Int : r = items[k].retrieved /\ u = items[k].lastRead
    BY ItemsInTime, Zenon
  <2>2. now \in Int /\ now <= r + MaxDue + Lateness + Round /\ r <= u + MaxDue
    BY <2>1, ItemsInTime, Zenon
  <2>3. used[k] = u
    BY <2>1, Zenon DEF TimeInv, CacheInv, Clocks
  <2>4. now - u <= MaxIdle
    BY <2>2, Durations DEF MaxIdle
  <2> QED BY <2>3, <2>4, Zenon
<1> QED BY TimeInvariant, <1>1, PTL

-----------------------------------------------------------------------------
(* Types *)

\* A caller has a key while it asks, and an answer until it has applied it.
Asks ==
  /\ \A c \in Callers : /\ apc[c] = "idle" <=> akey[c] = NoKey
                        /\ apc[c] = "set" <=> answer[c] # None
  /\ vkeys \subseteq Keys

LEMMA AsksStep ==
  ASSUME CacheInv, Asks, Next
  PROVE  Asks'
<1>0. /\ apc \in [Callers -> {"idle", "miss", "wait", "set"}]
      /\ akey \in [Callers -> Keys \cup {NoKey}] /\ answer \in [Callers -> Outcomes \cup {None}]
      /\ flight \in [Keys -> Call \cup {None}]
      /\ NoKey \notin Keys
  BY GcomCacheAssumption, Zenon DEF CacheInv, Travels
<1> USE <1>0 DEF Asks, config, callVars, tickVars, valVars
<1>1. ASSUME NEW k \in Keys, AuthCached(k) PROVE Asks'
  BY <1>1, Zenon DEF AuthCached
<1>2. ASSUME NEW k \in Keys, NEW c \in Callers, AuthMiss(c, k) PROVE Asks'
  <2>1. apc[c] = "idle" /\ k # NoKey /\ UNCHANGED <<answer, vkeys>>
    BY <1>2, Zenon DEF AuthMiss
  <2>2. \A d \in Callers : /\ apc'[d] = IF d = c THEN "miss" ELSE apc[d]
                           /\ akey'[d] = IF d = c THEN k ELSE akey[d]
    BY <1>2, Zenon DEF AuthMiss
  <2> QED BY <2>1, <2>2
<1>3. ASSUME NEW c \in Callers, AuthValidate(c) PROVE Asks'
  <2>1. apc[c] = "miss" /\ UNCHANGED <<akey, answer, vkeys>>
    BY <1>3, Zenon DEF AuthValidate
  <2>2. \A d \in Callers : apc'[d] = IF d = c THEN "wait" ELSE apc[d]
    BY <1>3, Zenon DEF AuthValidate
  <2> QED BY <2>1, <2>2
<1>4. ASSUME NEW c \in Callers, AuthSet(c) PROVE Asks'
  <2>1. \A d \in Callers : /\ apc'[d] = IF d = c THEN "idle" ELSE apc[d]
                           /\ akey'[d] = IF d = c THEN NoKey ELSE akey[d]
                           /\ answer'[d] = IF d = c THEN None ELSE answer[d]
    BY <1>4, Zenon DEF AuthSet
  <2>2. vkeys' = vkeys
    BY <1>4, Zenon DEF AuthSet
  <2> QED BY <2>1, <2>2
<1>5. ASSUME NEW k \in Keys, NEW response \in Responses, Decide(k, response) PROVE Asks'
  BY <1>5, Zenon DEF Decide
<1>6. ASSUME NEW k \in Keys, Respond(k) PROVE Asks'
  <2>1. flight[k].got # None /\ UNCHANGED <<akey, vkeys>>
    BY <1>6, Zenon DEF Respond
  <2>2. \A d \in Callers : /\ apc'[d] = IF apc[d] = "wait" /\ akey[d] = k THEN "set" ELSE apc[d]
                           /\ answer'[d] = IF apc[d] = "wait" /\ akey[d] = k THEN flight[k].got ELSE answer[d]
    BY <1>6, Zenon DEF Respond
  <2> QED BY <2>1, <2>2
<1>7. CASE Tick
  BY <1>7, Zenon DEF Tick
<1>8. CASE Validate
  BY <1>8, Zenon DEF Validate
<1>9. ASSUME NEW k \in Keys, ValidateNext(k) PROVE Asks'
  BY <1>9, Zenon DEF ValidateNext
<1>10. CASE ValidateDone
  BY <1>10, Zenon DEF ValidateDone
<1>11. CASE ValidateApply
  BY <1>11, Zenon DEF ValidateApply
<1>12. CASE Stop
  BY <1>12, Zenon DEF Stop
<1>13. CASE Advance
  BY <1>13, Zenon DEF Advance
<1> QED BY <1>1, <1>2, <1>3, <1>4, <1>5, <1>6, <1>7, <1>8, <1>9, <1>10, <1>11, <1>12, <1>13, Zenon DEF Next

\* The variables keep their types: in particular no request outlives its
\* deadline, and the ticks stay where the ticker puts them.
THEOREM GcomCacheTypes == Spec => []TypeOK
<1>1. Init => Asks
  BY Zenon DEF Init, Asks
<1>2. TimeInv /\ Asks /\ [Next]_vars => Asks'
  BY AsksStep, Zenon DEF TimeInv, Asks, vars, callVars, valVars
<1>3. TimeInv /\ Asks => TypeOK
  <2> SUFFICES ASSUME TimeInv, Asks PROVE TypeOK
    OBVIOUS
  <2>1. CacheInv /\ Requests /\ Ticks
    BY Zenon DEF TimeInv
  <2>2. now \in 0 .. MaxTime /\ now \in Int /\ nextTick \in Int /\ (pending # None => pending \in Int)
    BY <2>1, Zenon DEF Ticks, CacheInv, Clocks
  <2>3. \A k \in Keys : items[k] = None \/ items[k] \in Item
    BY <2>1, Zenon DEF CacheInv, Clocks
  <2>4. ASSUME NEW k \in Keys, flight[k] # None
        PROVE  /\ flight[k].deadline \in now .. now + Timeout
               /\ flight[k].got = None \/ flight[k].got \in Answer
    <3>1. flight[k] \in Call /\ Timely(flight[k], now)
      BY <2>1, <2>4, Zenon DEF CacheInv, Travels, Requests
    <3>2. flight[k].deadline \in Int /\ flight[k].got \in Outcomes \cup {None}
      BY <3>1, Zenon DEF Call
    <3>3. now <= flight[k].deadline /\ flight[k].deadline <= now + Timeout
      BY <2>4, <3>1, Zenon DEF Timely
    <3>4. flight[k].deadline \in now .. now + Timeout
      BY <2>2, <3>2, <3>3, Durations
    <3> QED BY <3>2, <3>4, Zenon DEF Outcomes
  <2>5. nextTick \in Times /\ pending \in Times \cup {None}
    <3>1. nextTick - Period <= now /\ now <= nextTick
      BY <2>1, Zenon DEF Ticks
    <3>2. pending # None => 0 <= pending /\ pending <= nextTick - Period
      BY <2>1, Zenon DEF Ticks
    <3> QED BY <2>2, <3>1, <3>2, Durations, GcomCacheAssumption DEF Times
  <2>6. apc \in [Callers -> {"idle", "miss", "wait", "set"}] /\ vpc \in {"select", "loop", "wait", "apply", "off"}
    BY <2>1, Zenon DEF CacheInv, Travels, Requests
  <2> QED BY <2>2, <2>3, <2>4, <2>5, <2>6, Zenon DEF TypeOK, Asks
<1> QED BY TimeInvariant, <1>1, <1>2, <1>3, PTL DEF Spec
=============================================================================
