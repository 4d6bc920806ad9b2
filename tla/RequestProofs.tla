--------------------------- MODULE RequestProofs ---------------------------
(***************************************************************************)
(* Proofs about the requests of the HTTP API, for any number of them, any  *)
(* accounts, instances and configurations: what is forwarded is whole, in  *)
(* the name of an org the request is entitled to, and within the limit;    *)
(* every answer is counted once, under its path and status, although the   *)
(* counter is found or made under a lock and increased after it.           *)
(***************************************************************************)
EXTENDS ApiRequests, FiniteSetTheorems, TLAPS

Steps == {"new", "auth", "role", "capture", "bind", "proxy", "send", "reply", "count", "inc", "done"}
Attempts == [org : Nat, body : Bodies]

Shape ==
  /\ conf \in Configs
  /\ req \in [Requests -> Inputs \cup {None}]
  /\ pc \in [Requests -> Steps]
  /\ id \in [Known \cup Requests -> Nat]
  /\ body \in [Requests -> Bodies]
  /\ captured \in [Requests -> Bodies \cup {"nil"}]
  /\ saved \in [Requests -> Bodies \cup {"nil"}]
  /\ org \in [Requests -> Nat]
  /\ sent \in [Requests -> Seq(Attempts)]

\* What is true of a request on its own: the body is whole where the next step
\* needs it, the attempts made are alike, and a query has passed the validator.
Flow(r) ==
  /\ req[r] = None <=> pc[r] = "new"
  /\ pc[r] \in {"new", "auth", "role", "capture", "bind", "proxy"} => sent[r] = <<>> /\ saved[r] = "nil"
  /\ pc[r] \in {"new", "auth", "role", "capture"} => body[r] = "whole" /\ captured[r] = "nil"
  /\ pc[r] \in {"role", "capture", "bind", "proxy"} => req[r].key \in Known
  /\ pc[r] \in {"capture", "bind"} => ToGraphite(r)
  /\ pc[r] = "bind" => captured[r] = "whole"
  /\ pc[r] = "proxy" => IF captured[r] = "nil" THEN body[r] = "whole" ELSE captured[r] = "whole" /\ ToGraphite(r)
  /\ pc[r] = "send" => Refill(r) = "whole"
  /\ pc[r] \in {"send", "reply"} /\ ToGraphite(r) => saved[r] = "whole"
  /\ \A i \in DOMAIN sent[r] : sent[r][i] = [org |-> org[r], body |-> "whole"]
  /\ conf.limited /\ ToGraphite(r) /\ (pc[r] \in {"proxy", "send", "reply"} \/ sent[r] # <<>>) => Validates(req[r])

FlowInv == Shape /\ \A r \in Requests : Flow(r)

\* A step leaves alone what belongs to request q.
Keeps(q) ==
  /\ req'[q] = req[q] /\ pc'[q] = pc[q] /\ body'[q] = body[q] /\ captured'[q] = captured[q]
  /\ saved'[q] = saved[q] /\ sent'[q] = sent[q] /\ org'[q] = org[q]

LEMMA KeptFlow ==
  ASSUME NEW q \in Requests, Flow(q), Keeps(q), UNCHANGED conf
  PROVE  Flow(q)'
  BY DEF Flow, Keeps, ToGraphite, Refill, Validates

LEMMA InitFlow == Init => FlowInv
  <1> SUFFICES ASSUME Init
               PROVE  FlowInv
    OBVIOUS
  <1>1. \A a \in Known : Account(a).org \in Nat
    BY RequestAssumption, Zenon DEF Known, Account
  <1>2. Shape
    BY <1>1 DEF Init, Shape, Steps, Bodies
  <1>3. \A r \in Requests : Flow(r)
    BY RequestAssumption DEF Init, Flow
  <1> QED
    BY <1>2, <1>3 DEF FlowInv

\* It suffices to look at the request that takes the step.
LEMMA StepFlowSuffices ==
  ASSUME FlowInv, NEW r \in Requests, Shape', UNCHANGED conf, Flow(r)',
         \A q \in Requests \ {r} : Keeps(q)
  PROVE  FlowInv'
  <1> SUFFICES ASSUME NEW q \in Requests
               PROVE  Flow(q)'
    BY Zenon DEF FlowInv
  <1>1. CASE q = r
    BY <1>1
  <1>2. CASE q # r
    BY <1>2, KeptFlow DEF FlowInv
  <1> QED
    BY <1>1, <1>2

LEMMA UserTypes ==
  ASSUME Shape, NEW r \in Requests, req[r] \in Inputs, Accepts(req[r]) \/ InstanceUnchecked(req[r])
  PROVE  req[r].key \in Known /\ User(r) \in Known \cup Requests /\ Impersonated(r) \in Nat
  <1>1. \A a \in Known : Account(a).org \in Nat
    BY RequestAssumption, Zenon DEF Known, Account
  <1>2. conf.plugin \in {"file", "grafana", "grafana-instance"}
    BY RequestAssumption, Zenon DEF Shape
  <1>3. req[r].key \in Known
    BY <1>2, Zenon DEF Accepts, InstanceUnchecked, FileAccepts, GrafanaAccepts, InstanceAccepts
  <1>4. req[r].name \in Nat /\ req[r].header \in Nat
    BY RequestAssumption, Zenon
  <1>5. UserID(r) \in Nat
    BY <1>1, <1>2, <1>3, <1>4, Zenon DEF UserID, Shape
  <1> QED
    BY <1>3, <1>4, <1>5, Zenon DEF User, Impersonated

LEMMA ArriveFlow ==
  ASSUME FlowInv, NEW r \in Requests, NEW in \in Inputs, Arrive(r, in)
  PROVE  FlowInv'
  <1> USE DEF Arrive, Goto
  <1>1. Shape'
    BY Zenon DEF FlowInv, Shape, Steps
  <1>2. Flow(r)'
    BY RequestAssumption DEF FlowInv, Shape, Flow
  <1>3. \A q \in Requests \ {r} : Keeps(q)
    BY Zenon DEF FlowInv, Shape, Keeps
  <1> QED
    BY <1>1, <1>2, <1>3, StepFlowSuffices, Zenon

LEMMA AuthOkFlow ==
  ASSUME FlowInv, NEW r \in Requests, AuthOk(r)
  PROVE  FlowInv'
  <1> USE DEF AuthOk, Goto
  <1>0. req[r] \in Inputs
    BY Zenon DEF FlowInv, Flow, Shape
  <1>a. req[r].key \in Known /\ User(r) \in Known \cup Requests /\ Impersonated(r) \in Nat
    BY <1>0, UserTypes, Zenon DEF FlowInv
  <1>1. Shape'
    BY <1>a, Zenon DEF FlowInv, Shape, Steps
  <1>2. Flow(r)'
    BY <1>a, Zenon DEF FlowInv, Shape, Flow, ToGraphite, Refill
  <1>3. \A q \in Requests \ {r} : Keeps(q)
    BY Zenon DEF FlowInv, Shape, Keeps
  <1> QED
    BY <1>1, <1>2, <1>3, StepFlowSuffices, Zenon

LEMMA AuthRefusedFlow ==
  ASSUME FlowInv, NEW r \in Requests, AuthRefused(r)
  PROVE  FlowInv'
  <1> USE DEF AuthRefused, Answer, Goto
  <1>1. Shape'
    BY Zenon DEF FlowInv, Shape, Steps
  <1>2. Flow(r)'
    BY Zenon DEF FlowInv, Shape, Flow, ToGraphite
  <1>3. \A q \in Requests \ {r} : Keeps(q)
    BY Zenon DEF FlowInv, Shape, Keeps
  <1> QED
    BY <1>1, <1>2, <1>3, StepFlowSuffices, Zenon

LEMMA AuthFailsFlow ==
  ASSUME FlowInv, NEW r \in Requests, AuthFails(r)
  PROVE  FlowInv'
  <1> USE DEF AuthFails, Answer, Goto
  <1>1. Shape'
    BY Zenon DEF FlowInv, Shape, Steps
  <1>2. Flow(r)'
    BY Zenon DEF FlowInv, Shape, Flow, ToGraphite
  <1>3. \A q \in Requests \ {r} : Keeps(q)
    BY Zenon DEF FlowInv, Shape, Keeps
  <1> QED
    BY <1>1, <1>2, <1>3, StepFlowSuffices, Zenon

LEMMA RequirePublisherFlow ==
  ASSUME FlowInv, NEW r \in Requests, RequirePublisher(r)
  PROVE  FlowInv'
  <1> USE DEF RequirePublisher, Answer, Goto
  <1>1. Shape'
    BY Zenon DEF FlowInv, Shape, Steps
  <1>2. Flow(r)'
    BY DEF FlowInv, Shape, Flow, ToGraphite, Refill
  <1>3. \A q \in Requests \ {r} : Keeps(q)
    BY DEF FlowInv, Shape, Keeps
  <1> QED
    BY <1>1, <1>2, <1>3, StepFlowSuffices, Zenon

LEMMA CaptureBodyFlow ==
  ASSUME FlowInv, NEW r \in Requests, CaptureBody(r)
  PROVE  FlowInv'
  <1> USE DEF CaptureBody, Goto
  <1>1. Shape'
    BY Zenon DEF FlowInv, Shape, Steps, Bodies
  <1>2. Flow(r)'
    BY DEF FlowInv, Shape, Flow, ToGraphite, Bodies
  <1>3. \A q \in Requests \ {r} : Keeps(q)
    BY Zenon DEF FlowInv, Shape, Keeps
  <1> QED
    BY <1>1, <1>2, <1>3, StepFlowSuffices, Zenon

LEMMA CaptureFailsFlow ==
  ASSUME FlowInv, NEW r \in Requests, CaptureFails(r)
  PROVE  FlowInv'
  <1> USE DEF CaptureFails, Answer, Goto
  <1>1. Shape'
    BY Zenon DEF FlowInv, Shape, Steps
  <1>2. Flow(r)'
    BY Zenon DEF FlowInv, Shape, Flow, ToGraphite
  <1>3. \A q \in Requests \ {r} : Keeps(q)
    BY Zenon DEF FlowInv, Shape, Keeps
  <1> QED
    BY <1>1, <1>2, <1>3, StepFlowSuffices, Zenon

LEMMA BindFlow ==
  ASSUME FlowInv, NEW r \in Requests, Bind(r)
  PROVE  FlowInv'
  <1> USE DEF Bind, Answer, Goto
  <1>1. Shape'
    <2>1. body' \in [Requests -> Bodies]
      BY DEF FlowInv, Shape, Bodies
    <2>2. pc' \in [Requests -> Steps]
      <3>1. pc \in [Requests -> Steps] /\ \E s \in {"proxy", "count"} : pc' = [pc EXCEPT ![r] = s]
        BY DEF FlowInv, Shape
      <3> HIDE DEF Bind
      <3> QED
        BY <3>1 DEF Steps
    <2> QED
      BY <2>1, <2>2, Zenon DEF FlowInv, Shape
  <1>2. Flow(r)'
    BY DEF FlowInv, Shape, Flow, ToGraphite, Validates
  <1>3. \A q \in Requests \ {r} : Keeps(q)
    BY DEF FlowInv, Shape, Keeps
  <1> QED
    BY <1>1, <1>2, <1>3, StepFlowSuffices

LEMMA GraphiteProxyFlow ==
  ASSUME FlowInv, NEW r \in Requests, GraphiteProxy(r)
  PROVE  FlowInv'
  <1> USE DEF GraphiteProxy, Goto, MadeOut, ProxyBody
  <1>0. id[User(r)] \in Nat
    BY Zenon DEF FlowInv, Flow, Shape, User
  <1>1. Shape'
    BY <1>0, Zenon DEF FlowInv, Shape, Steps, Bodies
  <1>2. Flow(r)'
    BY DEF FlowInv, Shape, Flow, ToGraphite, Refill, Validates
  <1>3. \A q \in Requests \ {r} : Keeps(q)
    BY Zenon DEF FlowInv, Shape, Keeps
  <1> QED
    BY <1>1, <1>2, <1>3, StepFlowSuffices, Zenon

LEMMA MetrictankProxyFlow ==
  ASSUME FlowInv, NEW r \in Requests, MetrictankProxy(r)
  PROVE  FlowInv'
  <1> USE DEF MetrictankProxy, Goto, MadeOut
  <1>0. id[User(r)] \in Nat
    BY Zenon DEF FlowInv, Flow, Shape, User
  <1>1. Shape'
    BY <1>0, Zenon DEF FlowInv, Shape, Steps, Bodies
  <1>2. Flow(r)'
    BY DEF FlowInv, Shape, Flow, ToGraphite, Refill
  <1>3. \A q \in Requests \ {r} : Keeps(q)
    BY Zenon DEF FlowInv, Shape, Keeps
  <1> QED
    BY <1>1, <1>2, <1>3, StepFlowSuffices, Zenon

LEMMA ProxyFailsFlow ==
  ASSUME FlowInv, NEW r \in Requests, ProxyFails(r)
  PROVE  FlowInv'
  <1> USE DEF ProxyFails, Answer, Goto
  <1>1. Shape'
    BY Zenon DEF FlowInv, Shape, Steps
  <1>2. Flow(r)'
    BY Zenon DEF FlowInv, Shape, Flow, ToGraphite
  <1>3. \A q \in Requests \ {r} : Keeps(q)
    BY Zenon DEF FlowInv, Shape, Keeps
  <1> QED
    BY <1>1, <1>2, <1>3, StepFlowSuffices, Zenon

LEMMA AppendAlike ==
  ASSUME NEW S, NEW s \in Seq(S), NEW a, \A i \in DOMAIN s : s[i] = a
  PROVE  \A i \in DOMAIN Append(s, a) : Append(s, a)[i] = a
  OBVIOUS

LEMMA SendFlow ==
  ASSUME FlowInv, NEW r \in Requests, Send(r)
  PROVE  FlowInv'
  <1> USE DEF Send, Goto, WithAttempt
  <1>1. Shape'
    BY DEF FlowInv, Shape, Steps, Bodies, Attempts, Flow
  <1>2. Flow(r)'
    <2>1. /\ sent[r] \in Seq(Attempts) /\ Refill(r) = "whole"
          /\ sent'[r] = Append(sent[r], [org |-> org[r], body |-> "whole"])
          /\ pc[r] = "send" /\ pc'[r] = "reply" /\ UNCHANGED <<conf, req, captured, org, saved>>
      BY Zenon DEF FlowInv, Shape, Flow
    <2>2. \A i \in DOMAIN sent[r] : sent[r][i] = [org |-> org[r], body |-> "whole"]
      BY Zenon DEF FlowInv, Flow
    <2> HIDE DEF Send
    <2>3. \A i \in DOMAIN sent'[r] : sent'[r][i] = [org |-> org'[r], body |-> "whole"]
      <3>1. PICK a : a = [org |-> org[r], body |-> "whole"]
        BY Zenon
      <3>2. sent'[r] = Append(sent[r], a) /\ a = [org |-> org'[r], body |-> "whole"]
        BY <2>1, <3>1, Zenon
      <3>3. \A i \in DOMAIN sent[r] : sent[r][i] = a
        BY <2>2, <3>1, Zenon
      <3>4. \A i \in DOMAIN Append(sent[r], a) : Append(sent[r], a)[i] = a
        BY <2>1, <3>3, AppendAlike
      <3> QED
        BY <3>2, <3>4, Zenon
    <2>4. ToGraphite(r) => saved[r] = "whole" /\ (conf.limited => Validates(req[r]))
      BY <2>1, Zenon DEF FlowInv, Flow
    <2>5. ToGraphite(r)' = ToGraphite(r) /\ Validates(req[r])' = Validates(req[r]) /\ req[r] # None
      BY <2>1, Zenon DEF ToGraphite, Validates, FlowInv, Flow
    <2> QED
      BY <2>1, <2>3, <2>4, <2>5, Zenon DEF Flow
  <1>3. \A q \in Requests \ {r} : Keeps(q)
    BY Zenon DEF FlowInv, Shape, Keeps
  <1> QED
    BY <1>1, <1>2, <1>3, StepFlowSuffices, Zenon

LEMMA RepliedFlow ==
  ASSUME FlowInv, NEW r \in Requests, Replied(r)
  PROVE  FlowInv'
  <1> USE DEF Replied, Answer, Goto
  <1>1. Shape'
    BY Zenon DEF FlowInv, Shape, Steps
  <1>2. Flow(r)'
    BY Zenon DEF FlowInv, Shape, Flow, ToGraphite, Validates
  <1>3. \A q \in Requests \ {r} : Keeps(q)
    BY Zenon DEF FlowInv, Shape, Keeps
  <1> QED
    BY <1>1, <1>2, <1>3, StepFlowSuffices, Zenon

LEMMA NoReplyFlow ==
  ASSUME FlowInv, NEW r \in Requests, NoReply(r)
  PROVE  FlowInv'
  <1> USE DEF NoReply, Answer, Goto
  <1>1. Shape'
    BY Zenon DEF FlowInv, Shape, Steps
  <1>2. Flow(r)'
    BY DEF FlowInv, Shape, Flow, ToGraphite, Refill, Validates
  <1>3. \A q \in Requests \ {r} : Keeps(q)
    BY DEF FlowInv, Shape, Keeps
  <1> QED
    BY <1>1, <1>2, <1>3, StepFlowSuffices

LEMMA PathStatusCountFlow ==
  ASSUME FlowInv, NEW r \in Requests, PathStatusCount(r)
  PROVE  FlowInv'
  <1> USE DEF PathStatusCount, Goto
  <1>1. Shape'
    BY Zenon DEF FlowInv, Shape, Steps
  <1>2. Flow(r)'
    BY Zenon DEF FlowInv, Shape, Flow, ToGraphite, Validates
  <1>3. \A q \in Requests \ {r} : Keeps(q)
    BY Zenon DEF FlowInv, Shape, Keeps
  <1> QED
    BY <1>1, <1>2, <1>3, StepFlowSuffices, Zenon

LEMMA IncFlow ==
  ASSUME FlowInv, NEW r \in Requests, Inc(r)
  PROVE  FlowInv'
  <1> USE DEF Inc, Goto
  <1>1. Shape'
    BY Zenon DEF FlowInv, Shape, Steps
  <1>2. Flow(r)'
    BY Zenon DEF FlowInv, Shape, Flow, ToGraphite, Validates
  <1>3. \A q \in Requests \ {r} : Keeps(q)
    BY Zenon DEF FlowInv, Shape, Keeps
  <1> QED
    BY <1>1, <1>2, <1>3, StepFlowSuffices, Zenon

LEMMA NextFlow ==
  ASSUME FlowInv, [Next]_vars
  PROVE  FlowInv'
  <1>1. ASSUME NEW r \in Requests, Step(r)
        PROVE  FlowInv'
    BY <1>1, AuthOkFlow, AuthRefusedFlow, AuthFailsFlow, RequirePublisherFlow, CaptureBodyFlow, CaptureFailsFlow,
       BindFlow, GraphiteProxyFlow, MetrictankProxyFlow, ProxyFailsFlow, SendFlow, RepliedFlow, NoReplyFlow,
       PathStatusCountFlow, IncFlow, Zenon DEF Step
  <1>2. ASSUME NEW r \in Requests, NEW in \in Inputs, Arrive(r, in)
        PROVE  FlowInv'
    BY <1>2, ArriveFlow
  <1>3. CASE UNCHANGED vars
    <2>1. UNCHANGED conf /\ Shape'
      BY <1>3, Zenon DEF vars, FlowInv, Shape
    <2>2. \A q \in Requests : Keeps(q)
      BY <1>3, Zenon DEF vars, Keeps
    <2> QED
      BY <2>1, <2>2, KeptFlow DEF FlowInv
  <1> QED
    BY <1>1, <1>2, <1>3 DEF Next

-----------------------------------------------------------------------------

\* The orgs that request r may be made out to.
Allowed(r) == {OwnOrg(req[r])} \cup {req[q].header : q \in Sharers(r)}

Authenticated == {"role", "capture", "bind", "proxy"}
Forwards(r) == pc[r] \in {"send", "reply"} \/ sent[r] # <<>>

\* The users of the file plugin have their own org or one that a request with
\* their key has named; what a request has taken from its user it may use.
Entitlement ==
  /\ conf.plugin = "file" =>
       \A k \in Known : \/ id[k] = Account(k).org
                        \/ \E q \in Requests : /\ req[q] # None /\ req[q].key = k
                                               /\ Impersonates(req[q]) /\ id[k] = req[q].header
  /\ \A r \in Requests : pc[r] \in Authenticated => id[User(r)] \in Allowed(r)
  /\ \A r \in Requests : Forwards(r) => org[r] \in Allowed(r)

LEMMA InitEntitlement == Init => Entitlement
  BY DEF Init, Entitlement, Authenticated, Forwards, Known

\* What a request may use depends on the configuration and the requests alone.
LEMMA SameRights ==
  ASSUME UNCHANGED <<conf, req>>
  PROVE  \A q \in Requests : Allowed(q)' = Allowed(q) /\ User(q)' = User(q) /\ Impersonates(req[q])' = Impersonates(req[q])
  <1>1. \A q \in Requests : Impersonates(req[q])' = Impersonates(req[q]) /\ OwnOrg(req[q])' = OwnOrg(req[q])
    BY DEF OwnOrg, Impersonates
  <1>2. \A q \in Requests : Sharers(q)' = Sharers(q)
    BY DEF Sharers, Impersonates
  <1>3. \A q \in Requests : Allowed(q)' = Allowed(q)
    BY <1>1, <1>2 DEF Allowed
  <1>4. \A q \in Requests : User(q)' = User(q)
    BY DEF User
  <1> QED
    BY <1>1, <1>3, <1>4, Zenon

\* Steps that change neither users nor requests.
LEMMA QuietEntitlement ==
  ASSUME Entitlement, UNCHANGED <<conf, req, id, org>>,
         \A q \in Requests : /\ pc'[q] \in Authenticated => pc[q] \in Authenticated
                             /\ Forwards(q)' => Forwards(q)
  PROVE  Entitlement'
  <1>1. \A q \in Requests : Allowed(q)' = Allowed(q) /\ User(q)' = User(q)
    BY SameRights, Zenon
  <1>2. \A q \in Requests : Impersonates(req[q])' <=> Impersonates(req[q])
    BY DEF Impersonates
  <1>3. (conf.plugin = "file")' =>
          (\A k \in Known : \/ id[k] = Account(k).org
                            \/ \E q \in Requests : /\ req[q] # None /\ req[q].key = k
                                                   /\ Impersonates(req[q]) /\ id[k] = req[q].header)'
    BY <1>2 DEF Entitlement
  <1>4. \A q \in Requests : pc'[q] \in Authenticated => (id[User(q)] \in Allowed(q))'
    BY <1>1 DEF Entitlement
  <1>5. \A q \in Requests : Forwards(q)' => (org[q] \in Allowed(q))'
    BY <1>1 DEF Entitlement
  <1> QED
    BY <1>3, <1>4, <1>5, Zenon DEF Entitlement

LEMMA ArriveEntitlement ==
  ASSUME FlowInv, Entitlement, NEW r \in Requests, NEW in \in Inputs, Arrive(r, in)
  PROVE  Entitlement'
  <1> USE DEF Arrive, Goto
  <1>1. req[r] = None /\ sent[r] = <<>> /\ in # None
    BY RequestAssumption, Zenon DEF FlowInv, Flow
  <1>2. req' = [req EXCEPT ![r] = in] /\ req \in [Requests -> Inputs \cup {None}] /\ UNCHANGED <<conf, id, org, sent>>
    BY Zenon DEF FlowInv, Shape
  <1>3. \A q \in Requests \ {r} : req'[q] = req[q] /\ pc'[q] = pc[q]
    BY <1>2, Zenon DEF FlowInv, Shape
  <1>4. pc'[r] = "auth"
    BY Zenon DEF FlowInv, Shape
  <1>5. ASSUME NEW q \in Requests \ {r}, req[q] # None
        PROVE  Allowed(q) \subseteq Allowed(q)'
    <2>1. OwnOrg(req[q])' = OwnOrg(req[q])
      BY <1>2, <1>3 DEF OwnOrg, Impersonates
    <2>2. Sharers(q) \subseteq Sharers(q)' /\ \A p \in Sharers(q) : p # r /\ p \in Requests
      BY <1>1, <1>2, <1>3, Zenon DEF Sharers, Impersonates
    <2> QED
      BY <1>3, <2>1, <2>2 DEF Allowed
  <1>6. ASSUME conf.plugin = "file", NEW k \in Known
        PROVE  \/ id'[k] = Account(k).org
               \/ \E q \in Requests : req'[q] # None /\ req'[q].key = k /\ Impersonates(req[q])' /\ id'[k] = req'[q].header
    BY <1>1, <1>2, <1>3, <1>6 DEF Entitlement, Impersonates
  <1>7. ASSUME NEW q \in Requests, pc'[q] \in Authenticated
        PROVE  (id[User(q)] \in Allowed(q))'
    <2>1. q # r /\ pc[q] \in Authenticated /\ req[q] # None
      BY <1>3, <1>4, <1>7, Zenon DEF Authenticated, FlowInv, Flow
    <2>2. id'[User(q)'] = id[User(q)]
      BY <1>2, <1>3, <2>1, Zenon DEF User
    <2>3. Allowed(q) \subseteq Allowed(q)'
      BY <1>5, <2>1, Zenon
    <2> QED
      BY <2>1, <2>2, <2>3, Zenon DEF Entitlement
  <1>8. ASSUME NEW q \in Requests, Forwards(q)'
        PROVE  (org[q] \in Allowed(q))'
    <2>0. q # r /\ Forwards(q)
      BY <1>1, <1>2, <1>3, <1>4, <1>8, Zenon DEF Forwards
    <2>1. q # r /\ Forwards(q) /\ req[q] # None
      BY <2>0, Zenon DEF Forwards, FlowInv, Flow
    <2>2. Allowed(q) \subseteq Allowed(q)'
      BY <1>5, <2>1, Zenon
    <2> QED
      BY <1>2, <2>1, <2>2, Zenon DEF Entitlement
  <1> QED
    BY <1>2, <1>6, <1>7, <1>8, Zenon DEF Entitlement

LEMMA AuthOkEntitlement ==
  ASSUME FlowInv, Entitlement, NEW r \in Requests, AuthOk(r)
  PROVE  Entitlement'
  <1>1. req[r] \in Inputs /\ req[r] # None
    BY Zenon DEF AuthOk, FlowInv, Shape, Flow
  <1>2. req[r].key \in Known /\ User(r) \in Known \cup Requests
    BY <1>1, UserTypes, Zenon DEF AuthOk, FlowInv
  <1>3. /\ UNCHANGED <<conf, req, org, sent>>
        /\ id' = [id EXCEPT ![User(r)] = Impersonated(r)]
        /\ id \in [Known \cup Requests -> Nat]
        /\ pc'[r] = "role" /\ \A q \in Requests \ {r} : pc'[q] = pc[q]
    BY Zenon DEF AuthOk, Goto, FlowInv, Shape
  <1>4. conf.plugin \in {"file", "grafana", "grafana-instance"}
    BY RequestAssumption, Zenon DEF FlowInv, Shape
  <1>5. \A q \in Requests : Allowed(q)' = Allowed(q) /\ User(q)' = User(q)
    BY <1>3, SameRights, Zenon
  <1>6. id'[User(r)] \in Allowed(r)
    <2>1. id'[User(r)] = Impersonated(r)
      BY <1>2, <1>3, Zenon
    <2>2. CASE Impersonates(req[r])
      BY <2>1, <2>2, Zenon DEF Impersonated, Allowed, OwnOrg
    <2>3. CASE ~ Impersonates(req[r]) /\ conf.plugin # "file"
      BY <2>1, <2>3, <1>4, Zenon DEF Impersonated, Allowed, OwnOrg, UserID
    <2>4. CASE ~ Impersonates(req[r]) /\ conf.plugin = "file"
      <3>1. id'[User(r)] = id[req[r].key] /\ OwnOrg(req[r]) = Account(req[r].key).org
        BY <2>1, <2>4 DEF Impersonated, OwnOrg, UserID
      <3>2. \A q \in Requests : req[q] # None /\ req[q].key = req[r].key /\ Impersonates(req[q]) => q \in Sharers(r)
        BY <2>4, Zenon DEF Sharers
      <3>3. \/ id[req[r].key] = Account(req[r].key).org
            \/ \E q \in Requests : /\ req[q] # None /\ req[q].key = req[r].key
                                   /\ Impersonates(req[q]) /\ id[req[r].key] = req[q].header
        BY <1>2, <2>4, Zenon DEF Entitlement
      <3>4. id'[User(r)] = OwnOrg(req[r]) \/ \E q \in Sharers(r) : id'[User(r)] = req[q].header
        BY <3>1, <3>2, <3>3, Zenon
      <3> QED
        BY <3>4, Zenon DEF Allowed
    <2> QED
      BY <2>2, <2>3, <2>4, Zenon
  <1>7. ASSUME conf.plugin = "file", NEW k \in Known
        PROVE  \/ id'[k] = Account(k).org
               \/ \E q \in Requests : req[q] # None /\ req[q].key = k /\ Impersonates(req[q]) /\ id'[k] = req[q].header
    <2>1. User(r) = req[r].key /\ UserID(r) = id[req[r].key]
      BY <1>7 DEF User, UserID
    <2>2. CASE k # req[r].key
      BY <1>3, <1>7, <2>1, <2>2, Zenon DEF Entitlement
    <2>3. CASE k = req[r].key /\ Impersonates(req[r])
      BY <1>1, <1>2, <1>3, <2>1, <2>3, Zenon DEF Impersonated
    <2>4. CASE k = req[r].key /\ ~ Impersonates(req[r])
      <3>1. id'[k] = id[k]
        BY <1>2, <1>3, <2>1, <2>4, Zenon DEF Impersonated
      <3> QED
        BY <3>1, <1>7 DEF Entitlement
    <2> QED
      BY <2>2, <2>3, <2>4, Zenon
  <1>8. ASSUME NEW q \in Requests, pc'[q] \in Authenticated
        PROVE  (id[User(q)] \in Allowed(q))'
    <2>1. CASE q = r
      BY <1>5, <1>6, <2>1
    <2>2. CASE q # r /\ User(q) # User(r)
      <3>1. pc[q] \in Authenticated /\ User(q) \in Known \cup Requests
        BY <1>3, <1>8, <2>2, Zenon DEF FlowInv, Flow, Authenticated, User
      <3>2. id'[User(q)] = id[User(q)]
        BY <1>3, <2>2, <3>1, Zenon
      <3> QED
        BY <1>5, <3>1, <3>2 DEF Entitlement
    <2>3. CASE q # r /\ User(q) = User(r)
      <3>1. pc[q] \in Authenticated /\ req[q] # None
        BY <1>3, <1>8, <2>3, Zenon DEF Authenticated, FlowInv, Flow
      <3>2. CASE conf.plugin # "file"
        BY <2>3, <3>2, Zenon DEF User
      <3>3. CASE conf.plugin = "file" /\ Impersonates(req[r])
        <4>1. r \in Sharers(q) /\ id'[User(q)] = req[r].header
          BY <1>1, <1>2, <1>3, <2>3, <3>3, Zenon DEF Sharers, User, Impersonated
        <4> QED
          BY <1>5, <4>1 DEF Allowed
      <3>4. CASE conf.plugin = "file" /\ ~ Impersonates(req[r])
        <4>1. id'[User(q)] = id[User(q)]
          BY <1>2, <1>3, <2>3, <3>4, Zenon DEF Impersonated, UserID, User
        <4> QED
          BY <1>5, <3>1, <4>1 DEF Entitlement
      <3> QED
        BY <3>2, <3>3, <3>4, Zenon
    <2> QED
      BY <2>1, <2>2, <2>3
  <1>9. ASSUME NEW q \in Requests, Forwards(q)'
        PROVE  (org[q] \in Allowed(q))'
    <2>1. Forwards(q)
      BY <1>3, <1>9, Zenon DEF Forwards
    <2> QED
      BY <1>3, <1>5, <2>1 DEF Entitlement
  <1>10. \A q \in Requests : Impersonates(req[q])' = Impersonates(req[q])
    BY <1>3, Zenon DEF Impersonates
  <1> QED
    BY <1>3, <1>7, <1>8, <1>9, <1>10 DEF Entitlement

\* The org of the user is taken over.
LEMMA ProxyEntitlement ==
  ASSUME FlowInv, Entitlement, NEW r \in Requests, GraphiteProxy(r) \/ MetrictankProxy(r)
  PROVE  Entitlement'
  <1>1. /\ UNCHANGED <<conf, req, id, sent>>
        /\ pc[r] = "proxy" /\ pc'[r] = "send" /\ \A q \in Requests \ {r} : pc'[q] = pc[q]
        /\ org'[r] = id[User(r)] /\ \A q \in Requests \ {r} : org'[q] = org[q]
    BY Zenon DEF GraphiteProxy, MetrictankProxy, MadeOut, Goto, FlowInv, Shape
  <1>2. \A q \in Requests : Allowed(q)' = Allowed(q) /\ User(q)' = User(q) /\ Impersonates(req[q])' = Impersonates(req[q])
    BY <1>1, SameRights, Zenon
  <1>3. \A q \in Requests : pc'[q] \in Authenticated => (id[User(q)] \in Allowed(q))'
    BY <1>1, <1>2 DEF Entitlement, Authenticated
  <1>4. ASSUME NEW q \in Requests, Forwards(q)'
        PROVE  (org[q] \in Allowed(q))'
    <2>1. CASE q = r
      BY <1>1, <1>2, <2>1 DEF Entitlement, Authenticated
    <2>2. CASE q # r
      <3>1. Forwards(q)
        BY <1>1, <1>4, <2>2, Zenon DEF Forwards
      <3>2. org[q] \in Allowed(q)
        BY <3>1, Zenon DEF Entitlement
      <3> QED
        BY <1>1, <1>2, <2>2, <3>2, Zenon
    <2> QED
      BY <2>1, <2>2
  <1> QED
    BY <1>1, <1>2, <1>3, <1>4, Zenon DEF Entitlement

LEMMA NextEntitlement ==
  ASSUME FlowInv, Entitlement, [Next]_vars
  PROVE  Entitlement'
  <1>1. ASSUME NEW r \in Requests,
               \/ AuthRefused(r) \/ AuthFails(r) \/ RequirePublisher(r) \/ CaptureBody(r) \/ CaptureFails(r)
               \/ Bind(r) \/ ProxyFails(r) \/ Send(r) \/ Replied(r) \/ NoReply(r) \/ PathStatusCount(r) \/ Inc(r)
        PROVE  Entitlement'
    <2>1. UNCHANGED <<conf, req, id, org>> /\ pc \in [Requests -> Steps] /\ sent \in [Requests -> Seq(Attempts)]
      BY <1>1 DEF AuthRefused, AuthFails, RequirePublisher, CaptureBody, CaptureFails, Bind, ProxyFails, Send, Replied,
                  NoReply, PathStatusCount, Inc, statVars, FlowInv, Shape
    <2>2. \E s : /\ pc' = [pc EXCEPT ![r] = s]
                 /\ s \in Authenticated => pc[r] \in Authenticated
                 /\ s \in {"send", "reply"} => pc[r] \in {"send", "reply"}
      <3>1. CASE RequirePublisher(r)
        BY <3>1 DEF RequirePublisher, Answer, Goto, Authenticated
      <3>2. CASE CaptureBody(r) \/ Bind(r)
        BY <3>2 DEF CaptureBody, Bind, Answer, Goto, Authenticated
      <3>3. CASE AuthRefused(r) \/ AuthFails(r)
        BY <3>3 DEF AuthRefused, AuthFails, Answer, Goto, Authenticated
      <3>4. CASE CaptureFails(r) \/ ProxyFails(r)
        BY <3>4 DEF CaptureFails, ProxyFails, Answer, Goto, Authenticated
      <3>5. CASE Send(r) \/ Replied(r) \/ NoReply(r)
        BY <3>5, Zenon DEF Send, Replied, NoReply, Answer, Goto, Authenticated
      <3>6. CASE PathStatusCount(r) \/ Inc(r)
        BY <3>6 DEF PathStatusCount, Inc, Goto, Authenticated
      <3> QED
        BY <1>1, <3>1, <3>2, <3>3, <3>4, <3>5, <3>6, Zenon
    <2>3. sent' = sent \/ (pc[r] = "send" /\ \A q \in Requests \ {r} : sent'[q] = sent[q])
      <3>1. CASE Send(r)
        BY <2>1, <3>1, Zenon DEF Send
      <3>2. CASE ~ Send(r)
        BY <1>1, <3>2 DEF AuthRefused, AuthFails, RequirePublisher, CaptureBody, CaptureFails, Bind, ProxyFails, Replied,
                          NoReply, PathStatusCount, Inc
      <3> QED
        BY <3>1, <3>2, Zenon
    <2>4. \A q \in Requests : pc'[q] \in Authenticated => pc[q] \in Authenticated
      BY <2>1, <2>2
    <2>5. \A q \in Requests : pc'[q] \in {"send", "reply"} => pc[q] \in {"send", "reply"}
      BY <2>1, <2>2, Zenon
    <2>6. ASSUME NEW q \in Requests, Forwards(q)'
          PROVE  Forwards(q)
      <3>1. CASE q = r
        BY <2>3, <2>5, <2>6, <3>1, Zenon DEF Forwards
      <3>2. CASE q # r
        BY <2>3, <2>5, <2>6, <3>2, Zenon DEF Forwards
      <3> QED
        BY <3>1, <3>2
    <2> QED
      BY <2>1, <2>4, <2>6, QuietEntitlement, Zenon
  <1>2. ASSUME NEW r \in Requests, Step(r)
        PROVE  Entitlement'
    BY <1>1, <1>2, AuthOkEntitlement, ProxyEntitlement, Zenon DEF Step
  <1>3. ASSUME NEW r \in Requests, NEW in \in Inputs, Arrive(r, in)
        PROVE  Entitlement'
    BY <1>3, ArriveEntitlement
  <1>4. CASE UNCHANGED vars
    <2>1. UNCHANGED <<conf, req, id, org, pc, sent>>
      BY <1>4 DEF vars
    <2> QED
      BY <2>1, QuietEntitlement, Zenon DEF Forwards
  <1> QED
    BY <1>2, <1>3, <1>4 DEF Next

-----------------------------------------------------------------------------

LEMMA FirstOfSome ==
  ASSUME NEW S, NEW s \in Seq(S), NEW i \in DOMAIN s
  PROVE  s # <<>> /\ 1 \in DOMAIN s
  OBVIOUS

LEMMA AttemptFields ==
  ASSUME NEW o, NEW a, a = [org |-> o, body |-> "whole"]
  PROVE  a.org = o /\ a.body = "whole"
  OBVIOUS

\* The attempts of a request are alike.
LEMMA AttemptFacts ==
  ASSUME FlowInv, NEW r \in Requests, NEW i \in DOMAIN sent[r]
  PROVE  sent[r] # <<>> /\ 1 \in DOMAIN sent[r] /\ sent[r][i].org = org[r] /\ sent[r][i].body = "whole"
  <1>1. sent[r] \in Seq(Attempts)
    BY Zenon DEF FlowInv, Shape
  <1>2. sent[r] # <<>> /\ 1 \in DOMAIN sent[r]
    BY <1>1, FirstOfSome, Zenon
  <1>3. sent[r][i] = [org |-> org[r], body |-> "whole"]
    BY Zenon DEF FlowInv, Flow
  <1>4. sent[r][i].org = org[r] /\ sent[r][i].body = "whole"
    BY <1>3, AttemptFields, Zenon
  <1> QED
    BY <1>2, <1>4, Zenon

\* For requests of any number and kind: an attempt goes out for the org of its
\* request, or for one that an admin with the same key of the file has named.
THEOREM OrgsAreEntitled == Spec => []OrgIsEntitled
  <1>1. FlowInv /\ Entitlement => OrgIsEntitled
    <2> SUFFICES ASSUME FlowInv, Entitlement, NEW r \in Requests, NEW i \in DOMAIN sent[r]
                 PROVE  sent[r][i].org \in Allowed(r)
      BY Zenon DEF OrgIsEntitled, Allowed
    <2>1. sent[r] # <<>> /\ sent[r][i].org = org[r]
      BY AttemptFacts, Zenon
    <2> QED
      BY <2>1, Zenon DEF Entitlement, Forwards
  <1> QED
    BY <1>1, InitFlow, NextFlow, InitEntitlement, NextEntitlement, PTL DEF Spec

\* All attempts of a request carry its whole body and the same org.
THEOREM AttemptsStayWhole == Spec => []AttemptsAreWhole
  <1>1. FlowInv => AttemptsAreWhole
    <2> SUFFICES ASSUME FlowInv, NEW r \in Requests, NEW i \in DOMAIN sent[r]
                 PROVE  sent[r][i].body = "whole" /\ sent[r][i].org = sent[r][1].org
      BY Zenon DEF AttemptsAreWhole
    <2>1. sent[r][i].org = org[r] /\ sent[r][i].body = "whole" /\ 1 \in DOMAIN sent[r]
      BY AttemptFacts
    <2>2. sent[r][1].org = org[r]
      BY <2>1, AttemptFacts, Zenon
    <2> QED
      BY <2>1, <2>2, Zenon
  <1> QED
    BY <1>1, InitFlow, NextFlow, PTL DEF Spec

\* The difference of two times in the arithmetic of uint32.
LEMMA WrappedRange ==
  ASSUME NEW from \in 0 .. MaxTime - 1, NEW to \in 0 .. MaxTime - 1
  PROVE  Span(from, to) = IF from <= to THEN to - from ELSE to - from + MaxTime
  BY RequestAssumption DEF Span

\* A render query that is forwarded keeps to the limit, for every limit and
\* every pair of times, also of times that wrap around.
THEOREM RangesStayShort == Spec => []ForwardedRangeIsShort
  <1>1. FlowInv => ForwardedRangeIsShort
    <2> SUFFICES ASSUME FlowInv, NEW r \in Requests, conf.limited, sent[r] # <<>>, req[r].route = "render"
                 PROVE  LET from == From(req[r]) to == To(req[r])
                        IN  IF from <= to THEN to - from <= TimerangeLimit ELSE from - to >= MaxTime - TimerangeLimit
      BY Zenon DEF ForwardedRangeIsShort
    <2>1. req[r] \in Inputs /\ Validates(req[r])
      BY Zenon DEF FlowInv, Shape, Flow, ToGraphite
    <2>2. From(req[r]) # Garbled /\ To(req[r]) # Garbled
      BY <2>1, Zenon DEF Validates
    <2>3. From(req[r]) \in 0 .. MaxTime - 1
      BY <2>1, <2>2, RequestAssumption DEF From, Absent, Garbled
    <2>4. To(req[r]) \in 0 .. MaxTime - 1
      BY <2>1, <2>2, RequestAssumption DEF To, Absent, Garbled
    <2>5. Span(From(req[r]), To(req[r])) <= TimerangeLimit
      BY <2>1, Zenon DEF Validates
    <2> QED
      BY <2>3, <2>4, <2>5, WrappedRange, RequestAssumption
  <1> QED
    BY <1>1, InitFlow, NextFlow, PTL DEF Spec

-----------------------------------------------------------------------------
(* The counters of requestStats *)

\* The counter that r's answer belongs to, whether r has found it, and the
\* requests that have increased counter c.
Class(r) == <<req[r].route, status[r]>>
Counting(r) == pc[r] \in {"inc", "done"}
Done(c) == {r \in Requests : pc[r] = "done" /\ Class(r) = c}

CountShape ==
  /\ status \in [Requests -> Statuses \cup {None}]
  /\ counter \in [Counters -> Requests \cup {None}]
  /\ mine \in [Requests -> Requests \cup {None}]
  /\ value \in [Requests -> Nat]

\* A counter that exists was made by a request of its class, so that no two
\* share an address; it shows the requests of its class that are done.
CountInv ==
  /\ CountShape
  /\ \A r \in Requests : pc[r] \in {"count", "inc", "done"} => status[r] \in Statuses
  /\ \A r \in Requests : Counting(r) => mine[r] = counter[Class(r)] /\ counter[Class(r)] # None
  /\ \A c \in Counters : counter[c] # None => Counting(counter[c]) /\ Class(counter[c]) = c
  /\ \A c \in Counters : IsFiniteSet(Done(c)) /\ Cardinality(Done(c)) = IF counter[c] = None THEN 0 ELSE value[counter[c]]
  /\ \A a \in Requests : (\A c \in Counters : counter[c] # a) => value[a] = 0

LEMMA InitCount == Init => CountInv
  <1> SUFFICES ASSUME Init PROVE CountInv
    OBVIOUS
  <1>1. CountShape
    BY DEF Init, CountShape
  <1>2. \A c \in Counters : Done(c) = {} /\ counter[c] = None
    BY Zenon DEF Init, Done
  <1>3. \A c \in Counters : IsFiniteSet(Done(c)) /\ Cardinality(Done(c)) = 0
    BY <1>2, FS_EmptySet
  <1>4. \A r \in Requests : pc[r] = "new" /\ value[r] = 0
    BY DEF Init
  <1> QED
    BY <1>1, <1>2, <1>3, <1>4, Zenon DEF CountInv, Counting

\* A request has a route, and so its answer a counter.
LEMMA ClassOfCounted ==
  ASSUME FlowInv, CountInv, NEW r \in Requests, pc[r] \in {"count", "inc", "done"}
  PROVE  Class(r) \in Counters
  <1>1. req[r] \in Inputs
    BY Zenon DEF FlowInv, Shape, Flow
  <1>2. req[r].route \in Routes /\ status[r] \in Statuses
    BY <1>1, RequestAssumption, Zenon DEF CountInv
  <1> QED
    BY <1>2 DEF Class, Counters

\* Steps before the answer is counted touch no counter.
LEMMA UncountedStep ==
  ASSUME CountInv, NEW r \in Requests, UNCHANGED statVars,
         ~ Counting(r), ~ Counting(r)', status'[r] \in Statuses \cup {None},
         pc'[r] = "count" => status'[r] \in Statuses,
         status' \in [Requests -> Statuses \cup {None}],
         \A q \in Requests \ {r} : pc'[q] = pc[q] /\ req'[q] = req[q] /\ status'[q] = status[q]
  PROVE  CountInv'
  <1>1. \A q \in Requests : Counting(q)' = Counting(q)
    BY DEF Counting
  <1>2. \A q \in Requests : Counting(q) => Class(q)' = Class(q) /\ status'[q] = status[q] /\ pc'[q] = pc[q]
    BY DEF Class
  <1>3. \A c \in Counters : Done(c)' = Done(c)
    BY <1>1, <1>2 DEF Done, Counting
  <1>4. \A q \in Requests : pc'[q] \in {"count", "inc", "done"} => status'[q] \in Statuses
    BY Zenon DEF CountInv, Counting
  <1>5. UNCHANGED <<counter, mine, value>> /\ CountShape'
    BY Zenon DEF statVars, CountInv, CountShape
  <1>6. \A q \in Requests : Counting(q)' => mine'[q] = counter'[Class(q)'] /\ counter'[Class(q)'] # None
    BY <1>1, <1>2, <1>5 DEF CountInv
  <1>7. \A c \in Counters : counter'[c] # None => Counting(counter[c])' /\ (Class(counter[c]) = c)'
    <2>1. ASSUME NEW c \in Counters, counter[c] # None
          PROVE  counter[c] \in Requests /\ Counting(counter[c]) /\ Class(counter[c]) = c
      BY <2>1 DEF CountInv, CountShape
    <2> QED
      BY <1>1, <1>2, <1>5, <2>1, Zenon
  <1>8. \A c \in Counters :
          (IsFiniteSet(Done(c)) /\ Cardinality(Done(c)) = IF counter[c] = None THEN 0 ELSE value[counter[c]])'
    BY <1>3, <1>5 DEF CountInv
  <1>9. \A a \in Requests : (\A c \in Counters : counter'[c] # a) => value'[a] = 0
    BY <1>5, Zenon DEF CountInv
  <1> QED
    BY <1>4, <1>5, <1>6, <1>7, <1>8, <1>9, Zenon DEF CountInv

LEMMA PathStatusCountCount ==
  ASSUME FlowInv, CountInv, NEW r \in Requests, PathStatusCount(r)
  PROVE  CountInv'
  <1>1. /\ pc[r] = "count" /\ pc'[r] = "inc" /\ UNCHANGED <<req, status, value>>
        /\ \A q \in Requests \ {r} : pc'[q] = pc[q]
        /\ counter' = [counter EXCEPT ![Class(r)] = FindCounter(Class(r), r)]
        /\ mine' = [mine EXCEPT ![r] = FindCounter(Class(r), r)]
    BY Zenon DEF PathStatusCount, Goto, Class, FlowInv, Shape
  <1>2. PICK c \in Counters : c = Class(r)
    BY <1>1, ClassOfCounted
  <1>3. PICK a \in Requests : a = FindCounter(c, r)
    BY <1>2 DEF FindCounter, CountInv, CountShape
  <1>4. counter' = [counter EXCEPT ![c] = a] /\ mine' = [mine EXCEPT ![r] = a] /\ a # None
    BY <1>1, <1>2, <1>3, RequestAssumption, Zenon
  <1>5. CountShape'
    <2>1. counter' \in [Counters -> Requests \cup {None}]
      BY <1>4, Zenon DEF CountInv, CountShape
    <2>2. mine' \in [Requests -> Requests \cup {None}]
      BY <1>4, Zenon DEF CountInv, CountShape
    <2> QED
      BY <1>1, <2>1, <2>2, Zenon DEF CountInv, CountShape
  <1>6. \A q \in Requests : Class(q)' = Class(q) /\ (Counting(q)' <=> Counting(q) \/ q = r)
    BY <1>1, Zenon DEF Class, Counting
  <1>7. \A d \in Counters : Done(d)' = Done(d)
    BY <1>1, <1>6, Zenon DEF Done
  <1>8. ~ Counting(r) /\ \A d \in Counters : counter[d] # r
    BY <1>1, RequestAssumption, Zenon DEF Counting, CountInv
  <1>9. counter'[c] = a /\ mine'[r] = a /\ \A d \in Counters \ {c} : counter'[d] = counter[d]
    BY <1>4, Zenon DEF CountInv, CountShape
  <1>10. counter[c] = None => a = r /\ value[a] = 0
    BY <1>3, <1>8, Zenon DEF FindCounter, CountInv
  <1>11. counter[c] # None => a = counter[c]
    BY <1>3 DEF FindCounter
  <1>12. \A q \in Requests : pc'[q] \in {"count", "inc", "done"} => status'[q] \in Statuses
    BY <1>1, Zenon DEF CountInv
  <1>13. ASSUME NEW q \in Requests, Counting(q)'
         PROVE  mine'[q] = counter'[Class(q)'] /\ counter'[Class(q)'] # None
    <2>1. CASE q = r
      BY <2>1, <1>2, <1>4, <1>6, <1>9
    <2>2. CASE q # r
      <3>1. Counting(q) /\ Class(q)' = Class(q) /\ Class(q) \in Counters
        BY <2>2, <1>6, <1>13, ClassOfCounted DEF Counting
      <3>2. mine[q] = counter[Class(q)] /\ counter[Class(q)] # None /\ mine'[q] = mine[q]
        BY <2>2, <1>4, <3>1, Zenon DEF CountInv, CountShape
      <3> QED
        BY <3>1, <3>2, <1>9, <1>11
    <2> QED
      BY <2>1, <2>2
  <1>14. ASSUME NEW d \in Counters, counter'[d] # None
         PROVE  Counting(counter[d])' /\ (Class(counter[d]) = d)'
    <2>1. CASE d = c /\ counter[c] = None
      BY <2>1, <1>2, <1>6, <1>9, <1>10
    <2>2. CASE d # c \/ counter[c] # None
      <3>1. counter'[d] = counter[d] /\ counter[d] \in Requests
        BY <2>2, <1>9, <1>11, <1>14 DEF CountInv, CountShape
      <3>2. Counting(counter[d]) /\ Class(counter[d]) = d
        BY <3>1, <1>14, Zenon DEF CountInv
      <3> QED
        BY <3>1, <3>2, <1>6
    <2> QED
      BY <2>1, <2>2
  <1>15. ASSUME NEW d \in Counters
         PROVE  (IsFiniteSet(Done(d)) /\ Cardinality(Done(d)) = IF counter[d] = None THEN 0 ELSE value[counter[d]])'
    BY <1>1, <1>4, <1>7, <1>9, <1>10, <1>11 DEF CountInv
  <1>16. ASSUME NEW b \in Requests, \A d \in Counters : counter'[d] # b
         PROVE  value'[b] = 0
    <2>1. \A d \in Counters : counter[d] # b
      BY <1>4, <1>9, <1>11, <1>16, RequestAssumption, Zenon
    <2> QED
      BY <2>1, <1>1, Zenon DEF CountInv
  <1> QED
    BY <1>5, <1>12, <1>13, <1>14, <1>15, <1>16, Zenon DEF CountInv

LEMMA IncCount ==
  ASSUME FlowInv, CountInv, NEW r \in Requests, Inc(r)
  PROVE  CountInv'
  <1>1. /\ pc[r] = "inc" /\ pc'[r] = "done" /\ UNCHANGED <<req, status, counter, mine>>
        /\ \A q \in Requests \ {r} : pc'[q] = pc[q]
        /\ value' = [value EXCEPT ![mine[r]] = @ + 1]
    BY Zenon DEF Inc, Goto, FlowInv, Shape
  <1>2. PICK c \in Counters : c = Class(r)
    BY <1>1, ClassOfCounted
  <1>3. PICK a \in Requests : a = counter[c] /\ mine[r] = a /\ a # None
    BY <1>1, <1>2, RequestAssumption DEF CountInv, CountShape, Counting
  <1>4. /\ value' = [value EXCEPT ![a] = value[a] + 1] /\ value \in [Requests -> Nat]
        /\ value'[a] = value[a] + 1 /\ value[a] \in Nat
    BY <1>1, <1>3, Zenon DEF CountInv, CountShape
  <1>5. \A q \in Requests : Class(q)' = Class(q) /\ Counting(q)' = Counting(q)
    BY <1>1 DEF Class, Counting
  <1>6. Done(c)' = Done(c) \cup {r} /\ r \notin Done(c) /\ \A d \in Counters \ {c} : Done(d)' = Done(d)
    BY <1>1, <1>2, <1>5, Zenon DEF Done
  <1>7. IsFiniteSet(Done(c)) /\ Cardinality(Done(c)) = value[a]
    BY <1>3, Zenon DEF CountInv
  <1>8. IsFiniteSet(Done(c)') /\ Cardinality(Done(c)') = value[a] + 1
    BY <1>6, <1>7, FS_AddElement
  <1>9. ASSUME NEW d \in Counters
        PROVE  (IsFiniteSet(Done(d)) /\ Cardinality(Done(d)) = IF counter[d] = None THEN 0 ELSE value[counter[d]])'
    <2>1. CASE d = c
      BY <2>1, <1>1, <1>3, <1>4, <1>8, Zenon
    <2>2. CASE d # c
      <3>1. counter[d] # None => counter[d] # a /\ counter[d] \in Requests
        BY <1>3, <2>2 DEF CountInv, CountShape
      <3>2. counter[d] # None => value'[counter[d]] = value[counter[d]]
        BY <3>1, <1>4
      <3> QED
        BY <2>2, <3>2, <1>1, <1>6 DEF CountInv
    <2> QED
      BY <2>1, <2>2
  <1>10. ASSUME NEW b \in Requests, \A d \in Counters : counter'[d] # b
         PROVE  value'[b] = 0
    BY <1>1, <1>3, <1>4, <1>10 DEF CountInv
  <1>11. CountShape'
    <2>1. value[a] + 1 \in Nat
      BY <1>4
    <2>2. value' \in [Requests -> Nat]
      BY <1>4, <2>1, Zenon
    <2> QED
      BY <1>1, <2>2, Zenon DEF CountInv, CountShape
  <1>12. \A q \in Requests : pc'[q] \in {"count", "inc", "done"} => status'[q] \in Statuses
    BY <1>1, Zenon DEF CountInv
  <1>13. \A q \in Requests : Counting(q)' => mine'[q] = counter'[Class(q)'] /\ counter'[Class(q)'] # None
    BY <1>1, <1>5 DEF CountInv
  <1>14. \A d \in Counters : counter'[d] # None => Counting(counter[d])' /\ (Class(counter[d]) = d)'
    BY <1>1, <1>5 DEF CountInv, CountShape
  <1> QED
    BY <1>9, <1>10, <1>11, <1>12, <1>13, <1>14, Zenon DEF CountInv

\* Every other step leaves the counters alone; an answer has a status.
LEMMA UncountedSteps ==
  ASSUME FlowInv, CountInv, NEW r \in Requests,
         Step(r) \/ \E in \in Inputs : Arrive(r, in), ~ PathStatusCount(r), ~ Inc(r)
  PROVE  CountInv'
  <1>1. PICK s \in Steps : /\ pc' = [pc EXCEPT ![r] = s] /\ ~ Counting(r) /\ s \notin {"inc", "done"}
                           /\ s = "count" => \E t \in Statuses : status' = [status EXCEPT ![r] = t]
                           /\ s # "count" => UNCHANGED status
    <2>1. CASE \E in \in Inputs : Arrive(r, in)
      BY <2>1, Zenon DEF Arrive, Goto, Steps, Counting
    <2>2. CASE AuthOk(r) \/ AuthRefused(r) \/ AuthFails(r)
      BY <2>2 DEF AuthOk, AuthRefused, AuthFails, Answer, Goto, Steps, Statuses, Counting
    <2>3. CASE RequirePublisher(r)
      BY <2>3 DEF RequirePublisher, Answer, Goto, Steps, Statuses, Counting
    <2>4. CASE CaptureBody(r) \/ CaptureFails(r)
      BY <2>4 DEF CaptureBody, CaptureFails, Answer, Goto, Steps, Statuses, Counting
    <2>5. CASE Bind(r)
      BY <2>5 DEF Bind, Answer, Goto, Steps, Statuses, Counting
    <2>6. CASE GraphiteProxy(r) \/ MetrictankProxy(r) \/ ProxyFails(r)
      BY <2>6 DEF GraphiteProxy, MetrictankProxy, ProxyFails, Answer, Goto, Steps, Statuses, Counting
    <2>7. CASE Send(r) \/ Replied(r)
      BY <2>7 DEF Send, Replied, Answer, Goto, Steps, Statuses, Counting
    <2>8. CASE NoReply(r)
      BY <2>8 DEF NoReply, Answer, Goto, Steps, Statuses, Counting
    <2> QED
      BY <2>1, <2>2, <2>3, <2>4, <2>5, <2>6, <2>7, <2>8, Zenon DEF Step
  <1>2. UNCHANGED statVars /\ \A q \in Requests \ {r} : req'[q] = req[q]
    <2>1. CASE \E in \in Inputs : Arrive(r, in)
      BY <2>1, Zenon DEF Arrive, FlowInv, Shape
    <2>2. CASE AuthOk(r) \/ AuthRefused(r) \/ AuthFails(r) \/ RequirePublisher(r)
      BY <2>2 DEF AuthOk, AuthRefused, AuthFails, RequirePublisher
    <2>3. CASE CaptureBody(r) \/ CaptureFails(r) \/ Bind(r) \/ ProxyFails(r)
      BY <2>3 DEF CaptureBody, CaptureFails, Bind, ProxyFails
    <2>4. CASE GraphiteProxy(r) \/ MetrictankProxy(r)
      BY <2>4, Zenon DEF GraphiteProxy, MetrictankProxy
    <2>5. CASE Send(r) \/ Replied(r) \/ NoReply(r)
      BY <2>5, Zenon DEF Send, Replied, NoReply
    <2> QED
      BY <2>1, <2>2, <2>3, <2>4, <2>5, Zenon DEF Step
  <1>3. pc'[r] = s /\ \A q \in Requests \ {r} : pc'[q] = pc[q]
    BY <1>1 DEF FlowInv, Shape
  <1>4. status \in [Requests -> Statuses \cup {None}]
    BY Zenon DEF CountInv, CountShape
  <1>5. \/ UNCHANGED status /\ s # "count"
        \/ \E t \in Statuses : status' = [status EXCEPT ![r] = t]
    BY <1>1
  <1>6. /\ status' \in [Requests -> Statuses \cup {None}] /\ (s = "count" => status'[r] \in Statuses)
        /\ \A q \in Requests \ {r} : status'[q] = status[q]
    BY <1>4, <1>5
  <1>7. ~ Counting(r)'
    BY <1>1, <1>3 DEF Counting
  <1> QED
    BY <1>1, <1>2, <1>3, <1>6, <1>7, UncountedStep, Zenon

LEMMA NextCount ==
  ASSUME FlowInv, CountInv, [Next]_vars
  PROVE  CountInv'
  <1>1. CASE UNCHANGED vars
    <2>1. UNCHANGED <<req, pc, status, counter, mine, value>>
      BY <1>1 DEF vars, statVars
    <2>2. \A q \in Requests : Class(q)' = Class(q) /\ Counting(q)' = Counting(q)
      BY <2>1 DEF Class, Counting
    <2>3. \A c \in Counters : Done(c)' = Done(c)
      BY <2>1, <2>2 DEF Done
    <2> QED
      BY <2>1, <2>2, <2>3 DEF CountInv, CountShape
  <1>2. CASE Next
    BY <1>2, UncountedSteps, PathStatusCountCount, IncCount DEF Next
  <1> QED
    BY <1>1, <1>2

\* For any number of requests: once they are done, every counter shows how
\* many of its path were answered with its status.
THEOREM CountsStayExact == Spec => []CountsAreExact
  <1>1. CountInv => CountsAreExact
    BY Zenon DEF CountInv, CountsAreExact, Done, Class
  <1> QED
    BY <1>1, InitFlow, NextFlow, InitCount, NextCount, PTL DEF Spec

-----------------------------------------------------------------------------

\* A request makes at most four attempts, and one is left before it makes one.
AttemptsLeft == \A r \in Requests : Len(sent[r]) <= IF pc[r] = "send" THEN 3 ELSE 4

LEMMA NextAttemptsLeft ==
  ASSUME FlowInv, AttemptsLeft, [Next]_vars
  PROVE  AttemptsLeft'
  <1> SUFFICES ASSUME NEW q \in Requests
               PROVE  (Len(sent[q]) <= IF pc[q] = "send" THEN 3 ELSE 4)'
    BY DEF AttemptsLeft
  <1>0. /\ sent[q] \in Seq(Attempts) /\ Len(sent[q]) \in Nat /\ sent \in [Requests -> Seq(Attempts)]
        /\ pc \in [Requests -> Steps]
        /\ Len(sent[q]) <= IF pc[q] = "send" THEN 3 ELSE 4
    BY DEF FlowInv, Shape, AttemptsLeft
  <1>1. CASE pc'[q] = pc[q] /\ sent'[q] = sent[q]
    BY <1>0, <1>1
  <1>2. ASSUME Send(q) PROVE (Len(sent[q]) <= IF pc[q] = "send" THEN 3 ELSE 4)'
    <2>1. pc[q] = "send" /\ pc'[q] = "reply" /\ \E a : sent'[q] = Append(sent[q], a)
      BY <1>0, <1>2, Zenon DEF Send, Goto, WithAttempt
    <2> QED
      BY <1>0, <2>1
  <1>3. ASSUME NoReply(q) PROVE (Len(sent[q]) <= IF pc[q] = "send" THEN 3 ELSE 4)'
    BY <1>0, <1>3 DEF NoReply, Answer, Goto, MayRetry
  <1>4. ASSUME sent'[q] = sent[q], pc'[q] # "send"
        PROVE  (Len(sent[q]) <= IF pc[q] = "send" THEN 3 ELSE 4)'
    BY <1>0, <1>4
  <1>5. ASSUME GraphiteProxy(q) \/ MetrictankProxy(q)
        PROVE  (Len(sent[q]) <= IF pc[q] = "send" THEN 3 ELSE 4)'
    <2>1. sent'[q] = sent[q] /\ sent[q] = <<>>
      BY <1>5, Zenon DEF GraphiteProxy, MetrictankProxy, FlowInv, Flow
    <2> QED
      BY <2>1
  <1>6. ASSUME NEW r \in Requests, Step(r)
        PROVE  (Len(sent[q]) <= IF pc[q] = "send" THEN 3 ELSE 4)'
    <2>1. CASE r # q
      <3>1. pc'[q] = pc[q] /\ sent'[q] = sent[q]
        BY <1>0, <1>6, <2>1 DEF Step, AuthOk, AuthRefused, AuthFails, RequirePublisher, CaptureBody, CaptureFails, Bind,
           GraphiteProxy, MetrictankProxy, ProxyFails, Send, Replied, NoReply, PathStatusCount, Inc, Answer, Goto
      <3> QED
        BY <1>1, <3>1
    <2>2. CASE r = q
      <3>1. CASE Send(q) \/ NoReply(q) \/ GraphiteProxy(q) \/ MetrictankProxy(q)
        BY <3>1, <1>2, <1>3, <1>5
      <3>2. CASE AuthOk(q) \/ AuthRefused(q) \/ AuthFails(q) \/ RequirePublisher(q) \/ CaptureBody(q)
        <4>1. sent'[q] = sent[q] /\ pc'[q] # "send"
          BY <1>0, <3>2 DEF AuthOk, AuthRefused, AuthFails, RequirePublisher, CaptureBody, Answer, Goto
        <4> QED
          BY <4>1, <1>4
      <3>3. CASE CaptureFails(q) \/ Bind(q) \/ ProxyFails(q) \/ Replied(q) \/ PathStatusCount(q) \/ Inc(q)
        <4>1. sent'[q] = sent[q] /\ pc'[q] # "send"
          BY <1>0, <3>3 DEF CaptureFails, Bind, ProxyFails, Replied, PathStatusCount, Inc, Answer, Goto
        <4> QED
          BY <4>1, <1>4
      <3> QED
        BY <1>6, <2>2, <3>1, <3>2, <3>3, Zenon DEF Step
    <2> QED
      BY <2>1, <2>2
  <1>7. ASSUME NEW r \in Requests, NEW in \in Inputs, Arrive(r, in)
        PROVE  (Len(sent[q]) <= IF pc[q] = "send" THEN 3 ELSE 4)'
    <2>1. sent'[q] = sent[q] /\ (pc'[q] = pc[q] \/ pc'[q] = "auth")
      BY <1>0, <1>7 DEF Arrive, Goto
    <2> QED
      BY <2>1, <1>1, <1>4
  <1>8. CASE UNCHANGED vars
    <2>1. pc'[q] = pc[q] /\ sent'[q] = sent[q]
      BY <1>8 DEF vars
    <2> QED
      BY <2>1, <1>1
  <1> QED
    BY <1>6, <1>7, <1>8 DEF Next

\* The type invariant; graphite gets at most four attempts.
THEOREM RequestTypes == Spec => []TypeOK
  <1>1. Init => AttemptsLeft
    BY DEF Init, AttemptsLeft
  <1>2. FlowInv /\ CountInv /\ AttemptsLeft => TypeOK
    <2> SUFFICES ASSUME FlowInv, CountInv, AttemptsLeft
                 PROVE  TypeOK
      OBVIOUS
    <2>1. \A r \in Requests : Len(sent[r]) <= 4
      <3> SUFFICES ASSUME NEW r \in Requests
                   PROVE  Len(sent[r]) <= 4
        OBVIOUS
      <3>1. Len(sent[r]) \in Nat
        BY DEF FlowInv, Shape
      <3> QED
        BY <3>1 DEF AttemptsLeft
    <2> QED
      BY <2>1, Zenon DEF FlowInv, Shape, Steps, CountInv, CountShape, TypeOK
  <1> QED
    BY <1>1, <1>2, NextAttemptsLeft, InitFlow, NextFlow, InitCount, NextCount, PTL DEF Spec
=============================================================================
