---------------------------- MODULE ApiRequests ----------------------------
(***************************************************************************)
(* The HTTP API: what becomes of a request between the router and the      *)
(* service it is meant for.  Its goroutine authenticates it with one of    *)
(* the three auth plugins, checks its role and, for a graphite query, its  *)
(* time range, forwards it in the name of an org, and counts the answer.   *)
(*                                                                         *)
(* A name, a key and a time are numbers: the name ApiKeyName is "api_key", *)
(* which is no instance id, and the key NoKey is an empty one.  Users are  *)
(* objects: the file plugin has one for each key and hands out a pointer   *)
(* to it, the others make one for each request.                            *)
(***************************************************************************)
EXTENDS Integers, Sequences, FiniteSets

CONSTANTS
  Requests,    \* the goroutines of the HTTP server
  Inputs,      \* what a request may be: name, key, header, route, from, to, until
  Configs,     \* records of plugin, enforceRoles and limited (is timerangeLimit set?)
  Accounts,    \* Accounts[key]: org, admin, publisher; the file, or grafana.com
  InstanceMap, \* InstanceMap[name]: the org that has the instance
  AdminKey, NoKey, ApiKeyName, None,
  MaxTime,     \* a time is a uint32 in the code: here less than MaxTime
  Now, Day,    \* the current time and the length of a day
  TimerangeLimit

\* Values of from, to and until that are no times.
Absent == -1
Garbled == -2

Routes == {"render", "find", "metrictank"}

ASSUME RequestAssumption ==
  /\ {MaxTime, Now, Day, TimerangeLimit} \subseteq Nat /\ Day <= Now /\ Now < MaxTime
  /\ \A c \in Configs : c.plugin \in {"file", "grafana", "grafana-instance"}
  /\ \A key \in DOMAIN Accounts : Accounts[key].org \in Nat
  /\ \A in \in Inputs : /\ {in.name, in.header} \subseteq Nat /\ in.route \in Routes
                        /\ {in.from, in.to, in.until} \subseteq (0 .. MaxTime - 1) \cup {Absent, Garbled}
  /\ NoKey \notin DOMAIN Accounts \cup {AdminKey} /\ ApiKeyName \notin DOMAIN InstanceMap
  /\ None \notin Requests \cup Inputs

\* What a request gets answered, and the counters of requestStats.
Statuses == {200, 401, 422, 500, 502}
Counters == Routes \X Statuses

VARIABLES
  conf,
  req,      \* req[r]: the request of goroutine r
  pc,
  id,       \* id[a]: User.ID of the user at address a, a key or a request
  body,     \* body[r]: what reading Req.Body would give
  captured, \* captured[r]: the same of Context.Body
  org,      \* org[r]: X-Org-Id of the forwarded request
  saved,    \* saved[r]: RoundTrip's copy of the body
  sent,     \* sent[r]: the attempts to forward it, with their org and body
  status,   \* status[r]: the answer
  counter,  \* counter[<<path, status>>]: address of the counter, or None
  mine,     \* mine[r]: the counter that r is going to increase
  value     \* value[a]: value of the counter at address a

statVars == <<counter, mine, value>>
vars == <<conf, req, pc, id, body, captured, org, saved, sent, status, statVars>>

Account(key) == IF key = AdminKey THEN [org |-> 1, admin |-> TRUE, publisher |-> TRUE] ELSE Accounts[key]
Known == DOMAIN Accounts \cup {AdminKey}

Init ==
  /\ conf \in Configs
  /\ req = [r \in Requests |-> None]
  /\ pc = [r \in Requests |-> "new"]
  /\ id = [a \in Known \cup Requests |-> IF a \in Known THEN Account(a).org ELSE 0]
  /\ body = [r \in Requests |-> "whole"]
  /\ captured = [r \in Requests |-> "nil"]
  /\ org = [r \in Requests |-> 0]
  /\ saved = [r \in Requests |-> "nil"]
  /\ sent = [r \in Requests |-> <<>>]
  /\ status = [r \in Requests |-> None]
  /\ counter = [c \in Counters |-> None]
  /\ mine = [r \in Requests |-> None]
  /\ value = [r \in Requests |-> 0]

Goto(r, s) == pc' = [pc EXCEPT ![r] = s]

\* The answer is written; a handler that writes one is the last of the chain.
Answer(r, s) == Goto(r, "count") /\ status' = [status EXCEPT ![r] = s]

-----------------------------------------------------------------------------
(* Auth, DDAuth *)

Arrive(r, in) ==
  /\ pc[r] = "new"
  /\ req' = [req EXCEPT ![r] = in]
  /\ Goto(r, "auth")
  /\ UNCHANGED <<conf, id, body, captured, org, saved, sent, status, statVars>>

HasInstance(in) == in.name \in DOMAIN InstanceMap /\ InstanceMap[in.name] = Account(in.key).org

\* Whether the plugin's Auth returns a user, if grafana.com answers.
FileAccepts(in) == in.key \in Known /\ (Account(in.key).admin \/ in.name = ApiKeyName \/ HasInstance(in))
GrafanaAccepts(in) == in.key \in Known /\ in.name = ApiKeyName
InstanceAccepts(in) == in.key \in Known /\ in.name # ApiKeyName /\ (in.key = AdminKey \/ HasInstance(in))
Accepts(in) ==
  CASE conf.plugin = "file" -> FileAccepts(in)
    [] conf.plugin = "grafana" -> GrafanaAccepts(in)
    [] conf.plugin = "grafana-instance" -> InstanceAccepts(in)

\* The address of the user that Auth returns, and its ID.
User(r) == IF conf.plugin = "file" THEN req[r].key ELSE r
UserID(r) ==
  CASE conf.plugin = "file" -> id[req[r].key]
    [] conf.plugin = "grafana" -> Account(req[r].key).org
    [] conf.plugin = "grafana-instance" -> req[r].name

\* Whether the request names another org, and may: a header that is no number,
\* or 0, names none.  Only the file has admins beside the admin key.
Impersonates(in) ==
  /\ in.key = AdminKey \/ (conf.plugin = "file" /\ Account(in.key).admin)
  /\ in.header # 0

\* Mutant: whoever sends the header is taken for the org it names.
ImpersonatedByAll(r) == IF req[r].header # 0 THEN req[r].header ELSE UserID(r)

\* The ID that Auth leaves in the user.
Impersonated(r) == IF Impersonates(req[r]) THEN req[r].header ELSE UserID(r)

\* A server error on the request for the instance passes for an approval.
InstanceUnchecked(in) == conf.plugin = "grafana-instance" /\ in.key \in Known /\ in.name # ApiKeyName

AuthOk(r) ==
  /\ pc[r] = "auth"
  /\ Accepts(req[r]) \/ InstanceUnchecked(req[r])
  /\ id' = [id EXCEPT ![User(r)] = Impersonated(r)]
  /\ Goto(r, "role")
  /\ UNCHANGED <<conf, req, body, captured, org, saved, sent, status, statVars>>

\* grafana.com is asked about a key other than the admin key.
AsksGrafanaCom(in) ==
  /\ conf.plugin # "file" /\ in.key \notin {AdminKey, NoKey}
  /\ conf.plugin = "grafana" <=> in.name = ApiKeyName

\* No key or a key or instance that is not valid: 401; so is an instance that
\* could not be checked.
AuthRefused(r) ==
  /\ pc[r] = "auth"
  /\ Accepts(req[r]) => conf.plugin = "grafana-instance" /\ AsksGrafanaCom(req[r])
  /\ Answer(r, 401)
  /\ UNCHANGED <<conf, req, id, body, captured, org, saved, sent, statVars>>

\* The key could not be checked: 500.
AuthFails(r) ==
  /\ pc[r] = "auth"
  /\ AsksGrafanaCom(req[r])
  /\ Answer(r, 500)
  /\ UNCHANGED <<conf, req, id, body, captured, org, saved, sent, statVars>>

-----------------------------------------------------------------------------
(* The handlers of a route *)

\* The file plugin gives every user the role of an admin.
IsPublisher(r) == conf.plugin = "file" \/ Account(req[r].key).publisher

ToGraphite(r) == req[r].route # "metrictank"

\* RequirePublisher, which GenerateHandlers puts before queries too: 401.
RequirePublisher(r) ==
  /\ pc[r] = "role"
  /\ IF conf.enforceRoles /\ ~ IsPublisher(r) THEN Answer(r, 401)
     ELSE Goto(r, IF ToGraphite(r) /\ conf.limited THEN "capture" ELSE "proxy") /\ UNCHANGED status
  /\ UNCHANGED <<conf, req, id, body, captured, org, saved, sent, statVars>>

\* The body is read into two copies.
CaptureBody(r) ==
  /\ pc[r] = "capture"
  /\ captured' = [captured EXCEPT ![r] = "whole"]
  /\ Goto(r, "bind")
  /\ UNCHANGED <<conf, req, id, body, org, saved, sent, status, statVars>>

\* The body cannot be read: 500.
CaptureFails(r) ==
  /\ pc[r] = "capture"
  /\ Answer(r, 500)
  /\ UNCHANGED <<conf, req, id, body, captured, org, saved, sent, statVars>>

\* getFromTo.
From(in) == IF in.from = Absent THEN Now - Day ELSE in.from
To(in) == LET to == IF in.to = Absent THEN in.until ELSE in.to
          IN  IF to = Absent THEN Now ELSE to

\* Mutant: the range is computed without wrapping around.
SpanSigned(from, to) == to - from

\* The length of a range, in the arithmetic of uint32.
Span(from, to) == (to - from) % MaxTime

\* FromTo.Validate finds nothing wrong.
Validates(in) ==
  in.route = "render" =>
    /\ Garbled \notin {From(in), To(in)}
    /\ Span(From(in), To(in)) <= TimerangeLimit

\* Bind takes from, to and until from the query or from the body, and answers
\* a request that does not validate: 422.
Bind(r) ==
  /\ pc[r] = "bind"
  /\ \E read \in {"whole", "drained"} : body' = [body EXCEPT ![r] = read]
  /\ IF Validates(req[r]) THEN Goto(r, "proxy") /\ UNCHANGED status ELSE Answer(r, 422)
  /\ UNCHANGED <<conf, req, id, captured, org, saved, sent, statVars>>

\* The body of the request that is to be forwarded.
ProxyBody(r) == IF captured[r] = "whole" THEN "whole" ELSE body[r]

\* The request is made out to the org of the user.
MadeOut(r) == org' = [org EXCEPT ![r] = id[User(r)]]

\* RoundTrip reads the body once.
GraphiteProxy(r) ==
  /\ pc[r] = "proxy" /\ ToGraphite(r)
  /\ body' = [body EXCEPT ![r] = ProxyBody(r)]
  /\ saved' = [saved EXCEPT ![r] = ProxyBody(r)]
  /\ MadeOut(r)
  /\ Goto(r, "send")
  /\ UNCHANGED <<conf, req, id, captured, sent, status, statVars>>

\* So do PrometheusProxy and MtBulkImporter, for other upstreams.
MetrictankProxy(r) ==
  /\ pc[r] = "proxy" /\ ~ ToGraphite(r)
  /\ MadeOut(r)
  /\ Goto(r, "send")
  /\ UNCHANGED <<conf, req, id, body, captured, saved, sent, status, statVars>>

\* A body that was not captured comes from the client, and RoundTrip may fail
\* to read it: 502, without an attempt.
ProxyFails(r) ==
  /\ pc[r] = "proxy"
  /\ ToGraphite(r) /\ captured[r] = "nil"
  /\ Answer(r, 502)
  /\ UNCHANGED <<conf, req, id, body, captured, org, saved, sent, statVars>>

-----------------------------------------------------------------------------
(* Forwarding; RoundTrip for graphite *)

\* Mutant: a failed attempt is not counted.
WithAttemptLost(s, a) == <<a>>

\* The attempts with one more.
WithAttempt(s, a) == Append(s, a)

\* Mutant: the body of the first attempt is used for all.
RefillOnce(r) == body[r]

\* The body of an attempt: what was saved, if anything was.
Refill(r) == IF saved[r] # "nil" THEN saved[r] ELSE body[r]

\* An attempt, which reads its body.
Send(r) ==
  /\ pc[r] = "send"
  /\ sent' = [sent EXCEPT ![r] = WithAttempt(@, [org |-> org[r], body |-> Refill(r)])]
  /\ body' = [body EXCEPT ![r] = "drained"]
  /\ Goto(r, "reply")
  /\ UNCHANGED <<conf, req, id, captured, org, saved, status, statVars>>

Replied(r) ==
  /\ pc[r] = "reply"
  /\ Answer(r, 200)
  /\ UNCHANGED <<conf, req, id, body, captured, org, saved, sent, statVars>>

\* Mutant: one attempt too many.
MayRetryMore(n) == n <= 4

\* Whether RoundTrip tries again after n attempts.
MayRetry(n) == n <= 3

\* The attempt fails; graphite gets another one, or the answer is 502.
NoReply(r) ==
  /\ pc[r] = "reply"
  /\ IF ToGraphite(r) /\ MayRetry(Len(sent[r])) THEN Goto(r, "send") /\ UNCHANGED status ELSE Answer(r, 502)
  /\ UNCHANGED <<conf, req, id, body, captured, org, saved, sent, statVars>>

-----------------------------------------------------------------------------
(* RequestStats *)

\* Mutant: a counter is made without looking for the one that is there.
FindCounterNever(c, r) == r

\* The counter that is there, or a new one.
FindCounter(c, r) == IF counter[c] = None THEN r ELSE counter[c]

\* PathStatusCount, under its lock.
PathStatusCount(r) ==
  LET c == <<req[r].route, status[r]>> IN
  /\ pc[r] = "count"
  /\ counter' = [counter EXCEPT ![c] = FindCounter(c, r)]
  /\ mine' = [mine EXCEPT ![r] = FindCounter(c, r)]
  /\ Goto(r, "inc")
  /\ UNCHANGED <<conf, req, id, body, captured, org, saved, sent, status, value>>

\* Inc, after the lock.
Inc(r) ==
  /\ pc[r] = "inc"
  /\ value' = [value EXCEPT ![mine[r]] = @ + 1]
  /\ Goto(r, "done")
  /\ UNCHANGED <<conf, req, id, body, captured, org, saved, sent, status, counter, mine>>

-----------------------------------------------------------------------------

Step(r) ==
  \/ AuthOk(r) \/ AuthRefused(r) \/ AuthFails(r) \/ RequirePublisher(r)
  \/ CaptureBody(r) \/ CaptureFails(r) \/ Bind(r)
  \/ GraphiteProxy(r) \/ MetrictankProxy(r) \/ ProxyFails(r)
  \/ Send(r) \/ Replied(r) \/ NoReply(r)
  \/ PathStatusCount(r) \/ Inc(r)

Next == \E r \in Requests : Step(r) \/ \E in \in Inputs : Arrive(r, in)

Spec == Init /\ [][Next]_vars

\* The goroutine of a request runs; an upstream replies or the attempt fails.
FairSpec == Spec /\ \A r \in Requests : WF_vars(Step(r))

-----------------------------------------------------------------------------

Bodies == {"whole", "drained"}

TypeOK ==
  /\ conf \in Configs
  /\ req \in [Requests -> Inputs \cup {None}]
  /\ pc \in [Requests -> {"new", "auth", "role", "capture", "bind", "proxy", "send", "reply", "count", "inc", "done"}]
  /\ id \in [Known \cup Requests -> Nat]
  /\ body \in [Requests -> Bodies] /\ {captured, saved} \subseteq [Requests -> Bodies \cup {"nil"}]
  /\ org \in [Requests -> Nat]
  /\ \A r \in Requests : Len(sent[r]) <= 4
  /\ status \in [Requests -> Statuses \cup {None}]
  /\ counter \in [Counters -> Requests \cup {None}]
  /\ mine \in [Requests -> Requests \cup {None}] /\ value \in [Requests -> Nat]

\* The org that a request is made out to if it shares its user with no other.
OwnOrg(in) ==
  IF Impersonates(in) THEN in.header
  ELSE IF conf.plugin = "grafana-instance" THEN in.name ELSE Account(in.key).org

\* The requests that have the same user as r and have changed its ID.
Sharers(r) ==
  {q \in Requests : /\ conf.plugin = "file" /\ req[q] # None /\ req[q].key = req[r].key
                    /\ Impersonates(req[q])}

\* Every attempt is made out to the org of its request's key or instance, or
\* the one an admin has named: requests of other keys, which run through the
\* same plugin at the same time, never change it.  Only requests with the same
\* admin key of the file plugin, which share a user, may get each other's org.
OrgIsEntitled ==
  \A r \in Requests : \A i \in DOMAIN sent[r] :
    sent[r][i].org \in {OwnOrg(req[r])} \cup {req[q].header : q \in Sharers(r)}

\* All attempts of a request carry the whole body and the same org, although
\* Bind may have read the body, and every attempt before has.
AttemptsAreWhole ==
  \A r \in Requests : \A i \in DOMAIN sent[r] : sent[r][i].body = "whole" /\ sent[r][i].org = sent[r][1].org

\* A render query that is forwarded asks for at most the limit; a range that
\* ends before it begins is only forwarded if it wraps around to such a one.
ForwardedRangeIsShort ==
  \A r \in Requests :
    conf.limited /\ sent[r] # <<>> /\ req[r].route = "render" =>
      LET from == From(req[r]) to == To(req[r])
      IN  IF from <= to THEN to - from <= TimerangeLimit ELSE from - to >= MaxTime - TimerangeLimit

\* Once the goroutines are done, every counter shows how many requests of its
\* path were answered with its status, though it is increased after the lock
\* under which it is found or made.
CountsAreExact ==
  (\A r \in Requests : pc[r] \in {"new", "done"}) =>
    \A c \in Counters :
      Cardinality({r \in Requests : pc[r] = "done" /\ <<req[r].route, status[r]>> = c})
        = IF counter[c] = None THEN 0 ELSE value[counter[c]]

\* Every request is answered and counted, however often forwarding fails.
AllAnswered == \A r \in Requests : pc[r] # "new" ~> pc[r] = "done"
=============================================================================
