---------------------------- MODULE IngestProofs ----------------------------
(***************************************************************************)
(* No batch of a limited org is published unpaid, no limiter holds more    *)
(* than its burst and no request more than one reservation, an org gets no *)
(* more tokens than its rate allows, and a response accounts for the whole *)
(* body: proved for any number of requests, senders and orgs, every burst  *)
(* and bodies of any length.                                               *)
(***************************************************************************)
EXTENDS MetricsIngest, FiniteSetTheorems, SequenceTheorems, WellFoundedInduction, TLAPS

\* Time and the limiters are numbers.
Clock ==
  /\ now \in Int
  /\ lim \in [Limited -> [tokens : Int, last : Int, lastEvent : Int]]

\* The request holds the token Allow took for it, and no other.
Admitted(r) == \E g : grants[r] = <<g>>

\* It holds a reservation for its whole batch.
Reserved(r) ==
  \E g : \E t \in Int : grants[r] = <<g, [at |-> t, n |-> Size(r)]>>

\* What a request of a limited org holds, by how far it has come.
Paying(r) ==
  Org(r) \in Limited =>
    /\ st[r] \in {"body", "limit"} => Admitted(r)
    /\ st[r] = "wait" => Reserved(r)
    /\ st[r] = "check" /\ ~ canceled[r] => Reserved(r) /\ Reservation(r).at <= now
    /\ st[r] = "publish" => Reserved(r) /\ Reservation(r).at <= now

Shape ==
  /\ st = [r \in Requests |-> st[r]] /\ from = [r \in Requests |-> from[r]]
  /\ canceled \in [Requests -> BOOLEAN] /\ batch = [r \in Requests |-> batch[r]]
  /\ \A r \in Requests : IsFiniteSet(DOMAIN batch[r])
  /\ grants = [r \in Requests |-> grants[r]]

\* A goroutine in rateLimit belongs to an org with a limiter.
PayInv ==
  /\ Clock /\ Shape
  /\ \A r \in Requests : Paying(r) /\ (st[r] \in {"limit", "wait"} => Org(r) \in Limited)

LEMMA InitPay == Init => PayInv
  <1>1. IsFiniteSet(DOMAIN <<>>)
    BY FS_EmptySet
  <1> QED
    BY <1>1, IngestAssumption DEF Init, PayInv, Clock, Shape, Paying, Answers, NoTime

-----------------------------------------------------------------------------
(* The limiter *)

LEMMA MinInt == ASSUME NEW a \in Int, NEW b \in Int PROVE Min({a, b}) \in Int
  BY DEF Min

LEMMA MaxInt == ASSUME NEW a \in Int, NEW b \in Int PROVE Max({a, b}) \in Int
  BY DEF Max

LEMMA LimiterTypes ==
  ASSUME Clock, NEW l \in [tokens : Int, last : Int, lastEvent : Int], NEW n \in Int, NEW t \in Int
  PROVE  /\ ReserveN(l, n) \in [tokens : Int, last : Int, lastEvent : Int]
         /\ CancelAt(l, t, n) \in [tokens : Int, last : Int, lastEvent : Int]
  <1>1. Burst \in Int /\ now \in Int
    BY IngestAssumption DEF Clock
  <1>2. Advance(l) \in Int
    BY <1>1, MinInt DEF Advance
  <1>3. Max({0, - (Advance(l) - n)}) \in Int
    BY <1>2, MaxInt
  <1>4. ReserveN(l, n) \in [tokens : Int, last : Int, lastEvent : Int]
    BY <1>1, <1>2, <1>3 DEF ReserveN
  <1>5. Min({Burst, Advance(l) + (n - (l.lastEvent - t))}) \in Int
    BY <1>1, <1>2, MinInt
  <1>6. CancelAt(l, t, n) \in [tokens : Int, last : Int, lastEvent : Int]
    BY <1>1, <1>5 DEF CancelAt
  <1> QED
    BY <1>4, <1>6

-----------------------------------------------------------------------------
(* The steps *)

\* A step leaves q alone, and time and the limiters are still numbers.
Keeps(q) ==
  /\ st'[q] = st[q] /\ from'[q] = from[q] /\ canceled'[q] = canceled[q]
  /\ batch'[q] = batch[q] /\ grants'[q] = grants[q]

Owns(q) == Paying(q) /\ (st[q] \in {"limit", "wait"} => Org(q) \in Limited)

LEMMA KeptOwns ==
  ASSUME NEW q \in Requests, Owns(q), Keeps(q), now' = now
  PROVE  Owns(q)'
  BY Zenon DEF Owns, Paying, Keeps, Admitted, Reserved, Reservation, Org, Size

\* A step of r on which only r depends.
LEMMA StepSuffices ==
  ASSUME PayInv, NEW r \in Requests, Clock', Shape', now' = now, Owns(r)', \A q \in Requests \ {r} : Keeps(q)
  PROVE  PayInv'
  <1>1. \A q \in Requests : Owns(q)
    BY DEF PayInv, Owns
  <1>2. \A q \in Requests : Owns(q)'
    BY <1>1, KeptOwns
  <1> QED
    BY <1>2 DEF PayInv, Owns

LEMMA ArrivePay ==
  ASSUME PayInv, NEW r \in Requests, NEW s \in Senders,
         Unauthorized(r, s) \/ Allow(r, s) \/ Reject(r, s) \/ PassUnlimited(r, s)
  PROVE  PayInv'
  <1>1. UNCHANGED <<now, canceled, batch>> /\ from' = [from EXCEPT ![r] = s] /\ st[r] = "new"
    BY Zenon DEF Unauthorized, Allow, Reject, PassUnlimited, Arrive, data
  <1>2. Shape' /\ \A q \in Requests \ {r} : Keeps(q)
    BY <1>1, Zenon DEF Unauthorized, Allow, Reject, PassUnlimited, Goto, PayInv, Shape, Keeps
  <1>3. Clock'
    <2>1. CASE Allow(r, s)
      <3>1. ReserveN(lim[s.org], 1) \in [tokens : Int, last : Int, lastEvent : Int]
        <4>1. Clock /\ 1 \in Int /\ lim[s.org] \in [tokens : Int, last : Int, lastEvent : Int]
          BY <2>1 DEF PayInv, Clock, Allow
        <4> HIDE <2>1
        <4> QED
          BY <4>1, LimiterTypes
      <3>2. lim' = [lim EXCEPT ![s.org] = ReserveN(lim[s.org], 1)] /\ s.org \in Limited
        BY <2>1, Zenon DEF Allow
      <3> HIDE <2>1
      <3> QED
        BY <1>1, <3>1, <3>2, Zenon DEF PayInv, Clock
    <2>2. CASE ~ Allow(r, s)
      BY <1>1, <2>2 DEF PayInv, Clock, Unauthorized, Reject, PassUnlimited
    <2> QED
      BY <2>1, <2>2
  <1>4. Owns(r)'
    <2>1. Org(r)' = s.org
      BY <1>1 DEF PayInv, Shape, Org
    <2>2. CASE Unauthorized(r, s) \/ Reject(r, s)
      <3>1. st'[r] = "refused"
        BY <2>2, Zenon DEF Unauthorized, Reject, Goto, PayInv, Shape
      <3> QED
        BY <3>1 DEF Owns, Paying
    <2>3. CASE Allow(r, s)
      <3>1. st'[r] = "body" /\ Admitted(r)'
        BY <2>3, Zenon DEF Allow, Goto, Admitted, PayInv, Shape
      <3> QED
        BY <3>1 DEF Owns, Paying
    <2>4. CASE PassUnlimited(r, s)
      <3>1. st'[r] = "body" /\ ~ (Org(r)' \in Limited')
        BY <2>1, <2>4 DEF PassUnlimited, Goto, PayInv, Shape
      <3> QED
        BY <3>1 DEF Owns, Paying
    <2> QED
      BY <2>2, <2>3, <2>4
  <1> QED
    BY <1>1, <1>2, <1>3, <1>4, StepSuffices

\* A request that is answered holds nothing any more.
LEMMA AnswerPay ==
  ASSUME PayInv, NEW r \in Requests, NEW a \in Answers, Answer(r, a), UNCHANGED <<now, lim, from, grants>>
  PROVE  PayInv'
  <1>1. IsFiniteSet(DOMAIN <<>>)
    BY FS_EmptySet
  <1>2. Shape' /\ Clock' /\ \A q \in Requests \ {r} : Keeps(q)
    BY <1>1, Zenon DEF Answer, Goto, PayInv, Shape, Clock, Keeps
  <1>3. st'[r] \in Answers
    BY DEF Answer, Goto, PayInv, Shape
  <1>4. Owns(r)'
    BY <1>3 DEF Owns, Paying, Answers
  <1> QED
    BY <1>2, <1>4, StepSuffices

LEMMA PrepareIngestPay ==
  ASSUME PayInv, NEW r \in Requests, NEW b \in Bodies, PrepareIngest(r, b)
  PROVE  PayInv'
  <1>1. IsFiniteSet(DOMAIN ToPublish(r, b))
    <2>1. DOMAIN ToPublish(r, b) \in SUBSET DOMAIN b
      BY DEF ToPublish
    <2>2. DOMAIN b = 1 .. Len(b) /\ Len(b) \in Int
      BY IngestAssumption
    <2>3. IsFiniteSet(DOMAIN b)
      BY <2>2, FS_Interval
    <2> QED
      BY <2>1, <2>3, FS_Subset, Zenon
  <1>2. Shape' /\ Clock' /\ \A q \in Requests \ {r} : Keeps(q)
    BY <1>1, Zenon DEF PrepareIngest, Goto, PayInv, Shape, Clock, Keeps
  <1>3. /\ st[r] = "body" /\ st'[r] = (IF Org(r) \in Limited THEN "limit" ELSE "check")
        /\ Org(r)' = Org(r) /\ grants'[r] = grants[r]
    BY Zenon DEF PrepareIngest, Goto, PayInv, Shape, Org
  <1>4. Owns(r)'
    BY <1>3, Zenon DEF PayInv, Owns, Paying, Admitted
  <1> QED
    BY <1>2, <1>4, StepSuffices DEF PrepareIngest

LEMMA AppendSecond ==
  ASSUME NEW g, NEW x
  PROVE  Append(<<g>>, x) = <<g, x>>
  <1>1. <<g>> \in Seq({g, x}) /\ <<g, x>> \in Seq({g, x}) /\ Len(<<g, x>>) = 2
    OBVIOUS
  <1>2. Append(<<g>>, x) \in Seq({g, x}) /\ Len(Append(<<g>>, x)) = 2
    BY <1>1
  <1>3. Append(<<g>>, x)[1] = g /\ Append(<<g>>, x)[2] = x
    BY <1>1
  <1>4. \A i \in 1 .. 2 : Append(<<g>>, x)[i] = <<g, x>>[i]
    BY <1>3
  <1> QED
    BY <1>1, <1>2, <1>4, SeqEqual, Zenon

LEMMA WaitNPay ==
  ASSUME PayInv, NEW r \in Requests, WaitN(r)
  PROVE  PayInv'
  <1> DEFINE l == ReserveN(lim[Org(r)], Size(r))
  <1>1. Org(r) \in Limited /\ Admitted(r) /\ st[r] = "limit" /\ ~ canceled[r]
    BY Zenon DEF PayInv, Paying, WaitN
  <1>2. Size(r) \in Int
    BY FS_CardinalityType DEF PayInv, Shape, Size
  <1>3. l \in [tokens : Int, last : Int, lastEvent : Int]
    BY <1>1, <1>2, LimiterTypes, Zenon DEF PayInv, Clock
  <1>4. /\ UNCHANGED <<now, from, canceled, batch>> /\ lim' = [lim EXCEPT ![Org(r)] = l]
        /\ grants' = [grants EXCEPT ![r] = Append(@, [at |-> l.lastEvent, n |-> Size(r)])]
        /\ st' = [st EXCEPT ![r] = AfterReserve(l)]
    BY Zenon DEF WaitN, Goto, data
  <1> HIDE DEF l
  <1>5. Shape' /\ Clock' /\ \A q \in Requests \ {r} : Keeps(q)
    BY <1>3, <1>4, Zenon DEF PayInv, Shape, Clock, Keeps
  <1>6. PICK g : grants[r] = <<g>>
    BY <1>1 DEF Admitted
  <1>7. grants'[r] = <<g, [at |-> l.lastEvent, n |-> Size(r)]>> /\ Size(r)' = Size(r) /\ Org(r)' = Org(r)
    <2>1. grants'[r] = Append(grants[r], [at |-> l.lastEvent, n |-> Size(r)])
      BY <1>4, Zenon DEF PayInv, Shape
    <2>2. Size(r)' = Size(r) /\ Org(r)' = Org(r)
      BY <1>4 DEF Size, Org
    <2> QED
      BY <1>6, <2>1, <2>2, AppendSecond
  <1>8. Reserved(r)' /\ Reservation(r)'.at = l.lastEvent
    BY <1>3, <1>7 DEF Reserved, Reservation
  <1>9. st'[r] = (IF l.lastEvent = now THEN "check" ELSE "wait") /\ now \in Int /\ now' = now
    BY <1>4, Zenon DEF AfterReserve, PayInv, Shape, Clock
  <1>10. Owns(r)'
    <2>1. l.lastEvent \in Int /\ (l.lastEvent = now => Reservation(r)'.at <= now')
      BY <1>3, <1>8, <1>9
    <2> QED
      BY <1>1, <1>7, <1>8, <1>9, <2>1, Zenon DEF Owns, Paying
  <1> QED
    BY <1>4, <1>5, <1>10, StepSuffices, Zenon

\* rateLimit is left: with an error of the context, or with the tokens.
LEMMA LeavePay ==
  ASSUME PayInv, NEW r \in Requests, RateLimitCanceled(r) \/ WaitOver(r)
  PROVE  PayInv'
  <1>1. /\ UNCHANGED <<now, lim, from, canceled, batch, grants>> /\ st' = [st EXCEPT ![r] = "check"]
        /\ canceled[r] \/ (st[r] = "wait" /\ Reservation(r).at <= now)
    <2>1. CASE RateLimitCanceled(r)
      BY <2>1 DEF RateLimitCanceled, Goto, data
    <2>2. CASE WaitOver(r)
      <3>1. Reserved(r) /\ now \in Int
        BY <2>2, Zenon DEF WaitOver, PayInv, Paying, Clock
      <3>2. Reservation(r).at \in Int
        BY <3>1 DEF Reserved, Reservation
      <3> QED
        BY <2>2, <3>1, <3>2 DEF WaitOver, Goto, data
    <2> QED
      BY <2>1, <2>2
  <1>2. Shape' /\ Clock' /\ \A q \in Requests \ {r} : Keeps(q)
    BY <1>1, Zenon DEF PayInv, Shape, Clock, Keeps
  <1>3. /\ st'[r] = "check" /\ (Reserved(r) => Reserved(r)') /\ Reservation(r)' = Reservation(r)
        /\ Org(r)' = Org(r) /\ canceled'[r] = canceled[r]
    BY <1>1, Zenon DEF PayInv, Shape, Reserved, Reservation, Org, Size
  <1>4. Owns(r)'
    BY <1>1, <1>3, Zenon DEF PayInv, Owns, Paying
  <1> QED
    BY <1>1, <1>2, <1>4, StepSuffices

LEMMA WaitCanceledPay ==
  ASSUME PayInv, NEW r \in Requests, WaitCanceled(r)
  PROVE  PayInv'
  <1>1. Org(r) \in Limited /\ Reserved(r)
    BY Zenon DEF WaitCanceled, PayInv, Paying
  <1>2. Size(r) \in Int
    BY FS_CardinalityType DEF PayInv, Shape, Size
  <1>3. Reservation(r).at \in Int /\ Reservation(r).n \in Int
    BY <1>1, <1>2 DEF Reserved, Reservation
  <1>4. CancelAt(lim[Org(r)], Reservation(r).at, Reservation(r).n) \in [tokens : Int, last : Int, lastEvent : Int]
    BY <1>1, <1>3, LimiterTypes DEF PayInv, Clock
  <1>5. Shape' /\ Clock' /\ \A q \in Requests \ {r} : Keeps(q)
    BY <1>1, <1>4, Zenon DEF WaitCanceled, Goto, PayInv, Shape, Clock, Keeps, data
  <1>6. st'[r] = "check" /\ canceled'[r]
    BY Zenon DEF WaitCanceled, Goto, PayInv, Shape
  <1>7. Owns(r)'
    BY <1>6 DEF Owns, Paying
  <1> QED
    BY <1>5, <1>7, StepSuffices DEF WaitCanceled

\* A request whose context is done does not get as far as Publish.
LEMMA CheckPay ==
  ASSUME PayInv, NEW r \in Requests, Check(r)
  PROVE  PayInv'
  <1>1. CASE canceled[r]
    BY <1>1, AnswerPay DEF Check, GivenUp, Answers
  <1>2. CASE ~ canceled[r]
    <2>1. UNCHANGED <<now, lim, from, canceled, batch, grants>> /\ st[r] = "check" /\ st' = [st EXCEPT ![r] = "publish"]
      BY <1>2 DEF Check, GivenUp, Goto, data
    <2>2. Shape' /\ Clock' /\ \A q \in Requests \ {r} : Keeps(q)
      BY <2>1, Zenon DEF PayInv, Shape, Clock, Keeps
    <2>3. /\ st'[r] = "publish" /\ (Reserved(r) => Reserved(r)') /\ Reservation(r)' = Reservation(r) /\ Org(r)' = Org(r)
      BY <2>1, Zenon DEF PayInv, Shape, Reserved, Reservation, Org, Size
    <2>4. Owns(r)'
      BY <1>2, <2>1, <2>3, Zenon DEF PayInv, Owns, Paying
    <2> QED
      BY <2>1, <2>2, <2>4, StepSuffices
  <1> QED
    BY <1>1, <1>2

LEMMA CancelPay ==
  ASSUME PayInv, NEW r \in Requests, Cancel(r)
  PROVE  PayInv'
  <1>1. UNCHANGED <<now, lim, st, from, batch, grants>> /\ canceled' = [canceled EXCEPT ![r] = TRUE]
    BY DEF Cancel, data
  <1>2. Shape' /\ Clock' /\ \A q \in Requests \ {r} : Keeps(q)
    BY <1>1, Zenon DEF PayInv, Shape, Clock, Keeps
  <1>3. canceled'[r]
    BY <1>1 DEF PayInv, Shape
  <1>4. Owns(r)'
    BY <1>1, <1>3, Zenon DEF PayInv, Owns, Paying, Admitted, Reserved, Reservation, Org, Size
  <1> QED
    BY <1>1, <1>2, <1>4, StepSuffices

\* A reservation whose time has come stays usable.
LEMMA TickPay ==
  ASSUME PayInv, Tick
  PROVE  PayInv'
  <1>1. UNCHANGED <<lim, st, from, canceled, batch, grants>> /\ now' = now + 1 /\ now \in Int
    BY DEF Tick, data, PayInv, Clock
  <1>2. Shape' /\ Clock'
    BY <1>1 DEF PayInv, Shape, Clock
  <1>3. ASSUME NEW r \in Requests
        PROVE  Owns(r)'
    <2>1. Reserved(r) => (Reservation(r).at <= now => Reservation(r).at <= now')
      BY <1>1 DEF Reserved, Reservation
    <2>2. UNCHANGED <<st[r], canceled[r], Admitted(r), Reserved(r), Reservation(r), Org(r)>>
      BY <1>1 DEF Admitted, Reserved, Reservation, Org, Size
    <2> QED
      BY <2>1, <2>2, Zenon DEF PayInv, Owns, Paying
  <1> QED
    BY <1>2, <1>3 DEF PayInv, Owns

LEMMA NextPay ==
  ASSUME PayInv, [Next]_vars
  PROVE  PayInv'
  <1>1. ASSUME NEW r \in Requests, Step(r)
        PROVE  PayInv'
    <2>1. CASE RefuseBody(r) \/ TooLarge(r) \/ Publish(r)
      BY <2>1, AnswerPay DEF RefuseBody, TooLarge, Publish, Answers
    <2> QED
      BY <1>1, <2>1, PrepareIngestPay, WaitNPay, LeavePay, WaitCanceledPay, CheckPay DEF Step
  <1>2. CASE UNCHANGED vars
    BY <1>2 DEF vars, data, PayInv, Clock, Shape, Paying, Admitted, Reserved, Reservation, Org, Size
  <1> QED
    BY <1>1, <1>2, ArrivePay, CancelPay, TickPay DEF Next

-----------------------------------------------------------------------------

\* In every order of arriving, reserving, waiting, hanging up and giving back:
\* what a limited org publishes was paid for, all of it, before.
THEOREM PublishedIsPaid == Spec => []PublishIsPaid
  <1>1. PayInv => PublishIsPaid
    <2> SUFFICES ASSUME PayInv, NEW r \in Requests, st[r] = "publish", Org(r) \in Limited
                 PROVE  Len(grants[r]) = 2 /\ Reservation(r).n = Size(r) /\ Reservation(r).at <= now
      BY DEF PublishIsPaid
    <2>1. Reserved(r) /\ Reservation(r).at <= now
      BY DEF PayInv, Paying
    <2> QED
      BY <2>1 DEF Reserved, Reservation
  <1> QED
    BY <1>1, InitPay, NextPay, PTL DEF Spec

-----------------------------------------------------------------------------
(* Types *)

\* A request holds at most the token of Allow and one reservation.
Few(r) == grants[r] = <<>> \/ (\E g : grants[r] = <<g>>) \/ (\E g, h : grants[r] = <<g, h>>)

States == Answers \cup {"new", "body", "limit", "wait", "check", "publish"}

\* A limiter holds no more than the burst, and its time is not in the future.
Capped(l) == l.tokens <= Burst /\ l.last <= now

TypeInv ==
  /\ now \in Nat
  /\ \A o \in Limited : Capped(lim[o])
  /\ st \in [Requests -> States]
  /\ from \in [Requests -> Senders \cup {Nobody}]
  /\ \A r \in Requests : Few(r)

LEMMA MinLe == ASSUME NEW a \in Int, NEW b \in Int PROVE Min({a, b}) \in Int /\ Min({a, b}) <= a
  BY DEF Min

LEMMA LimiterCapped ==
  ASSUME Clock, NEW l \in [tokens : Int, last : Int, lastEvent : Int], Capped(l), NEW n \in Nat, NEW t \in Int
  PROVE  Capped(ReserveN(l, n)) /\ Capped(CancelAt(l, t, n))
  <1>1. Burst \in Int /\ now \in Int /\ now <= now
    BY IngestAssumption DEF Clock
  <1>2. Advance(l) \in Int /\ Advance(l) <= Burst
    BY <1>1, MinLe DEF Advance
  <1>3. ReserveN(l, n).tokens = Advance(l) - n /\ ReserveN(l, n).last = now
    BY Zenon DEF ReserveN
  <1>4. Capped(ReserveN(l, n))
    BY <1>1, <1>2, <1>3 DEF Capped
  <1>5. PICK d \in Int : d = n - (l.lastEvent - t)
    BY <1>1
  <1>6. PICK m : m = Min({Burst, Advance(l) + d})
    BY Zenon
  <1>7. m <= Burst
    BY <1>1, <1>2, <1>6, MinLe
  <1>8. CancelAt(l, t, n) = l \/ (CancelAt(l, t, n).tokens = m /\ CancelAt(l, t, n).last = now)
    BY <1>5, <1>6, Zenon DEF CancelAt
  <1>9. Capped(CancelAt(l, t, n))
    BY <1>1, <1>7, <1>8, Zenon DEF Capped
  <1> QED
    BY <1>4, <1>9, Zenon

\* A step that leaves the grants of others alone.
LEMMA FewKept ==
  ASSUME TypeInv, NEW r \in Requests, \A q \in Requests \ {r} : grants'[q] = grants[q], Few(r)'
  PROVE  \A q \in Requests : Few(q)'
  <1> SUFFICES ASSUME NEW q \in Requests, q # r
               PROVE  Few(q)'
    BY Zenon
  <1>1. Few(q) /\ grants'[q] = grants[q]
    BY Zenon DEF TypeInv
  <1> QED
    BY <1>1, Zenon DEF Few

\* A step that leaves the clock alone and changes one limiter at most.
LEMMA LimitersCapped ==
  ASSUME PayInv, TypeInv, now' = now, NEW o \in Limited, NEW l, Capped(l), lim' = [lim EXCEPT ![o] = l]
  PROVE  \A p \in Limited : Capped(lim[p])'
  BY Zenon DEF PayInv, Clock, TypeInv, Capped

LEMMA ArriveTypes ==
  ASSUME PayInv, TypeInv, NEW r \in Requests, NEW s \in Senders,
         Unauthorized(r, s) \/ Allow(r, s) \/ Reject(r, s) \/ PassUnlimited(r, s)
  PROVE  TypeInv'
  <1>1. now' = now /\ from' = [from EXCEPT ![r] = s]
    BY Zenon DEF Unauthorized, Allow, Reject, PassUnlimited, Arrive
  <1>2. st' = [st EXCEPT ![r] = "refused"] \/ st' = [st EXCEPT ![r] = "body"]
    BY Zenon DEF Unauthorized, Allow, Reject, PassUnlimited, Goto
  <1>3. st' \in [Requests -> States] /\ from' \in [Requests -> Senders \cup {Nobody}]
    BY <1>1, <1>2, Zenon DEF TypeInv, States, Answers
  <1>4. CASE Allow(r, s)
    <2>1. /\ s.org \in Limited /\ lim' = [lim EXCEPT ![s.org] = ReserveN(lim[s.org], 1)]
          /\ grants' = [grants EXCEPT ![r] = <<[at |-> now, n |-> 1]>>]
      BY <1>4, Zenon DEF Allow
    <2>2. Capped(ReserveN(lim[s.org], 1))
      <3>1. Clock /\ lim[s.org] \in [tokens : Int, last : Int, lastEvent : Int] /\ Capped(lim[s.org])
        BY <2>1, Zenon DEF PayInv, Clock, TypeInv
      <3>2. 1 \in Nat /\ 0 \in Int
        OBVIOUS
      <3> QED
        BY <3>1, <3>2, LimiterCapped, Zenon
    <2>3. \A q \in Requests : Few(q)'
      <3>1. grants'[r] = <<[at |-> now, n |-> 1]>> /\ \A q \in Requests \ {r} : grants'[q] = grants[q]
        BY <2>1, Zenon DEF PayInv, Shape
      <3>2. Few(r)'
        BY <3>1, Zenon DEF Few
      <3> QED
        BY <3>1, <3>2, FewKept, Zenon
    <2> QED
      BY <1>1, <1>3, <2>1, <2>2, <2>3, LimitersCapped, Zenon DEF TypeInv
  <1>5. CASE ~ Allow(r, s)
    <2>1. UNCHANGED <<lim, grants>>
      BY <1>5, Zenon DEF Unauthorized, Reject, PassUnlimited
    <2> QED
      BY <1>1, <1>3, <2>1, Zenon DEF TypeInv, Capped, Few
  <1> QED
    BY <1>4, <1>5, Zenon

LEMMA WaitNTypes ==
  ASSUME PayInv, TypeInv, NEW r \in Requests, WaitN(r)
  PROVE  TypeInv'
  <1>1. PICK l : l = ReserveN(lim[Org(r)], Size(r))
    BY Zenon
  <1>2. /\ now' = now /\ from' = from /\ st[r] = "limit" /\ lim' = [lim EXCEPT ![Org(r)] = l]
        /\ grants' = [grants EXCEPT ![r] = Append(@, [at |-> l.lastEvent, n |-> Size(r)])]
        /\ st' = [st EXCEPT ![r] = AfterReserve(l)]
    BY <1>1, Zenon DEF WaitN, Goto
  <1>3. Org(r) \in Limited /\ Admitted(r)
    BY <1>2, Zenon DEF PayInv, Paying
  <1>4. Size(r) \in Nat /\ 0 \in Int
    BY FS_CardinalityType DEF PayInv, Shape, Size
  <1>5. Capped(l)
    <2>1. Clock /\ lim[Org(r)] \in [tokens : Int, last : Int, lastEvent : Int] /\ Capped(lim[Org(r)])
      BY <1>3, Zenon DEF PayInv, Clock, TypeInv
    <2> QED
      BY <1>1, <1>4, <2>1, LimiterCapped, Zenon
  <1>6. PICK g : grants[r] = <<g>>
    BY <1>3, Zenon DEF Admitted
  <1>7. PICK h : h = [at |-> l.lastEvent, n |-> Size(r)]
    BY Zenon
  <1>8. grants' = [grants EXCEPT ![r] = <<g, h>>]
    BY <1>2, <1>6, <1>7, AppendSecond, Zenon
  <1>9. \A q \in Requests : Few(q)'
    <2>1. grants'[r] = <<g, h>> /\ \A q \in Requests \ {r} : grants'[q] = grants[q]
      BY <1>8, Zenon DEF PayInv, Shape
    <2>2. Few(r)'
      BY <2>1, Zenon DEF Few
    <2> QED
      BY <2>1, <2>2, FewKept, Zenon
  <1>10. st' \in [Requests -> States]
    BY <1>2, Zenon DEF TypeInv, States, AfterReserve
  <1> QED
    BY <1>2, <1>3, <1>5, <1>9, <1>10, LimitersCapped, Zenon DEF TypeInv

LEMMA WaitCanceledTypes ==
  ASSUME PayInv, TypeInv, NEW r \in Requests, WaitCanceled(r)
  PROVE  TypeInv'
  <1>1. Org(r) \in Limited /\ Reserved(r)
    BY Zenon DEF WaitCanceled, PayInv, Paying
  <1>2. Size(r) \in Nat
    BY FS_CardinalityType DEF PayInv, Shape, Size
  <1>3. PICK t, n : t = Reservation(r).at /\ n = Reservation(r).n
    BY Zenon
  <1>4. t \in Int /\ n \in Nat
    BY <1>1, <1>2, <1>3 DEF Reserved, Reservation
  <1>5. /\ now' = now /\ from' = from /\ st' = [st EXCEPT ![r] = "check"]
        /\ lim' = [lim EXCEPT ![Org(r)] = CancelAt(lim[Org(r)], t, n)]
        /\ grants' = [grants EXCEPT ![r] = <<grants[r][1]>>]
    BY <1>1, <1>3, Zenon DEF WaitCanceled, Goto, PayInv, Clock, Shape
  <1>6. Capped(CancelAt(lim[Org(r)], t, n))
    <2>1. Clock /\ lim[Org(r)] \in [tokens : Int, last : Int, lastEvent : Int] /\ Capped(lim[Org(r)])
      BY <1>1, Zenon DEF PayInv, Clock, TypeInv
    <2> QED
      BY <1>4, <2>1, LimiterCapped, Zenon
  <1>7. \A q \in Requests : Few(q)'
    <2>1. grants'[r] = <<grants[r][1]>> /\ \A q \in Requests \ {r} : grants'[q] = grants[q]
      BY <1>5, Zenon DEF PayInv, Shape
    <2>2. Few(r)'
      BY <2>1, Zenon DEF Few
    <2> QED
      BY <2>1, <2>2, FewKept, Zenon
  <1>8. st' \in [Requests -> States]
    BY <1>5, Zenon DEF TypeInv, States
  <1> QED
    BY <1>1, <1>5, <1>6, <1>7, <1>8, LimitersCapped, Zenon DEF TypeInv

LEMMA NextTypes ==
  ASSUME PayInv, TypeInv, [Next]_vars
  PROVE  TypeInv'
  <1>1. ASSUME NEW r \in Requests, Step(r), ~ WaitN(r), ~ WaitCanceled(r)
        PROVE  TypeInv'
    <2>1. UNCHANGED <<now, lim, from, grants>> /\ \E s \in States : st' = [st EXCEPT ![r] = s]
      BY <1>1, Zenon DEF Step, RefuseBody, PrepareIngest, RateLimitCanceled, TooLarge, WaitOver, Check, Publish, Answer,
                         Goto, States, Answers
    <2>2. st' \in [Requests -> States]
      BY <2>1, Zenon DEF TypeInv
    <2>3. (\A o \in Limited : Capped(lim[o])') /\ (\A q \in Requests : Few(q)')
      BY <2>1, Zenon DEF TypeInv, Capped, Few
    <2> QED
      BY <2>1, <2>2, <2>3, Zenon DEF TypeInv
  <1>2. CASE Tick
    <2>1. now' = now + 1 /\ UNCHANGED <<lim, st, from, grants>>
      BY <1>2, Zenon DEF Tick
    <2>2. ASSUME NEW o \in Limited
          PROVE  Capped(lim[o])'
      <3>1. lim[o].last \in Int /\ lim[o].last <= now /\ lim[o].tokens <= Burst /\ now \in Nat
        BY DEF PayInv, Clock, TypeInv, Capped
      <3>2. lim[o].last <= now + 1
        BY <3>1
      <3> QED
        BY <2>1, <3>1, <3>2, Zenon DEF Capped
    <2>3. now' \in Nat
      BY <2>1 DEF TypeInv
    <2> QED
      BY <2>1, <2>2, <2>3, Zenon DEF TypeInv, Few
  <1>3. ASSUME NEW r \in Requests, Cancel(r)
        PROVE  TypeInv'
    BY <1>3, Zenon DEF Cancel, TypeInv, Capped, Few
  <1>4. CASE UNCHANGED vars
    BY <1>4, Zenon DEF vars, TypeInv, Capped, Few
  <1> QED
    BY <1>1, <1>2, <1>3, <1>4, ArriveTypes, WaitNTypes, WaitCanceledTypes, Zenon DEF Next

\* The variables keep their types; in particular a limiter never holds more
\* than its burst, whatever is given back to it, and a request never holds
\* more than one token and one reservation.
THEOREM IngestTypes == Spec => []TypeOK
  <1>1. Init => TypeInv
    <2> SUFFICES ASSUME Init
                 PROVE  TypeInv
      OBVIOUS
    <2>1. \A o \in Limited : Capped(lim[o])
      BY IngestAssumption DEF Init, Capped, NoTime
    <2> QED
      BY <2>1, Zenon DEF Init, TypeInv, States, Few
  <1>2. PayInv /\ TypeInv => TypeOK
    <2> SUFFICES ASSUME PayInv, TypeInv
                 PROVE  TypeOK
      OBVIOUS
    <2>1. ASSUME NEW r \in Requests
          PROVE  Len(grants[r]) <= 2
      <3>1. Len(<<>>) = 0 /\ (\A g : Len(<<g>>) = 1) /\ (\A g, h : Len(<<g, h>>) = 2)
        OBVIOUS
      <3>2. Len(grants[r]) = 0 \/ Len(grants[r]) = 1 \/ Len(grants[r]) = 2
        BY <3>1, Zenon DEF TypeInv, Few
      <3>3. 0 <= 2 /\ 1 <= 2 /\ 2 <= 2
        OBVIOUS
      <3> QED
        BY <3>2, <3>3, Zenon
    <2> QED
      BY <2>1, Zenon DEF TypeOK, TypeInv, Capped, States, PayInv, Shape
  <1> QED
    BY <1>1, <1>2, InitPay, NextPay, NextTypes, PTL DEF Spec

-----------------------------------------------------------------------------
(* Tokens *)

\* The tokens of the grants gr at the places S whose time is in I.
Tokens(S, gr, I) ==
  {y \in S \X (1 .. Burst) : gr[y[1][1]][y[1][2]].at \in I /\ y[2] <= gr[y[1][1]][y[1][2]].n}

From(a) == {t \in Int : t >= a}

LEMMA TokensFinite ==
  ASSUME NEW S, IsFiniteSet(S), NEW gr, NEW I
  PROVE  IsFiniteSet(Tokens(S, gr, I)) /\ Cardinality(Tokens(S, gr, I)) \in Nat
  <1>1. IsFiniteSet(1 .. Burst)
    BY FS_Interval, IngestAssumption
  <1>2. IsFiniteSet(S \X (1 .. Burst))
    BY <1>1, FS_Product, Zenon
  <1>3. Tokens(S, gr, I) \in SUBSET (S \X (1 .. Burst))
    BY Zenon DEF Tokens
  <1> QED
    BY <1>2, <1>3, FS_Subset, FS_CardinalityType, Zenon

\* More places, or more time, never make fewer tokens.
LEMMA TokensMonotone ==
  ASSUME NEW S, IsFiniteSet(S), NEW R \in SUBSET S, NEW gr, NEW I, NEW J, I \subseteq J
  PROVE  Cardinality(Tokens(R, gr, I)) <= Cardinality(Tokens(S, gr, J))
  <1>1. Tokens(R, gr, I) \in SUBSET Tokens(S, gr, J)
    BY Zenon DEF Tokens
  <1> QED
    BY <1>1, TokensFinite, FS_Subset, Zenon

\* Grants that agree on the places have the same tokens there.
LEMMA TokensAgree ==
  ASSUME NEW S, NEW gr, NEW hr, \A x \in S : gr[x[1]][x[2]] = hr[x[1]][x[2]], NEW I
  PROVE  Tokens(S, gr, I) = Tokens(S, hr, I)
  <1>1. \A y \in S \X (1 .. Burst) : gr[y[1][1]][y[1][2]] = hr[y[1][1]][y[1][2]]
    BY Zenon
  <1> QED
    BY <1>1, Zenon DEF Tokens

\* The grant at z, a place that is not in S: m tokens for time t.
Placed(S, gr, z, t, m) ==
  /\ IsFiniteSet(S) /\ z \notin S
  /\ gr[z[1]][z[2]].at = t /\ gr[z[1]][z[2]].n = m /\ t \in Int /\ m \in 0 .. Burst

Grows(c, d, counts, m) == IF counts THEN d = c + m ELSE d = c

LEMMA TokensAdded ==
  ASSUME NEW S, NEW gr, NEW z, NEW t, NEW m, Placed(S, gr, z, t, m), NEW I
  PROVE  Grows(Cardinality(Tokens(S, gr, I)), Cardinality(Tokens(S \cup {z}, gr, I)), t \in I, m)
  <1> DEFINE X == {z} \X (1 .. m)
  <1>1. Burst \in Nat /\ m \in Nat
    BY IngestAssumption DEF Placed
  <1>2. IsFiniteSet(X) /\ Cardinality(X) = m
    <2>1. IsFiniteSet(1 .. m) /\ Cardinality(1 .. m) = m
      BY <1>1, FS_Interval
    <2>2. IsFiniteSet({z}) /\ Cardinality({z}) = 1
      BY FS_Singleton
    <2>3. IsFiniteSet(X) /\ Cardinality(X) = Cardinality({z}) * Cardinality(1 .. m)
      BY <2>1, <2>2, FS_Product, Zenon
    <2> QED
      BY <1>1, <2>1, <2>2, <2>3
  <1>3. ASSUME NEW k
        PROVE  k \in 1 .. m <=> k \in 1 .. Burst /\ k <= m
    BY <1>1 DEF Placed
  <1>4. Tokens({z}, gr, I) = IF t \in I THEN X ELSE {}
    <2>1. ASSUME NEW y
          PROVE  y \in Tokens({z}, gr, I) <=> y \in X /\ t \in I
      <3>1. y \in Tokens({z}, gr, I) <=> y \in {z} \X (1 .. Burst) /\ t \in I /\ y[2] <= m
        BY Zenon DEF Tokens, Placed
      <3>2. y \in X <=> y \in {z} \X (1 .. Burst) /\ y[2] <= m
        BY <1>3, Zenon
      <3> QED
        BY <3>1, <3>2, Zenon
    <2> QED
      BY <2>1, Zenon
  <1>5. Tokens(S \cup {z}, gr, I) = Tokens(S, gr, I) \cup Tokens({z}, gr, I)
    BY Zenon DEF Tokens
  <1>6. Tokens(S, gr, I) \cap Tokens({z}, gr, I) = {}
    BY Zenon DEF Tokens, Placed
  <1> HIDE DEF X
  <1>7. IsFiniteSet(Tokens({z}, gr, I)) /\ Cardinality(Tokens({z}, gr, I)) = IF t \in I THEN m ELSE 0
    BY <1>2, <1>4, FS_EmptySet, Zenon
  <1>8. IsFiniteSet(Tokens(S, gr, I)) /\ Cardinality(Tokens(S, gr, I)) \in Nat
    BY TokensFinite, Zenon DEF Placed
  <1>9. PICK P, Q : P = Tokens(S, gr, I) /\ Q = Tokens({z}, gr, I)
    BY Zenon
  <1>10. Cardinality(P \cup Q) = Cardinality(P) + Cardinality(Q) - Cardinality(P \cap Q)
    BY <1>7, <1>8, <1>9, FS_Union, Zenon
  <1>11. Cardinality({}) = 0
    BY FS_EmptySet
  <1>12. PICK c, d, u : c = Cardinality(P) /\ d = Cardinality(Q) /\ u = Cardinality(P \cup Q)
    BY Zenon
  <1>13. c \in Nat /\ (t \in I => d = m) /\ (t \notin I => d = 0) /\ u = c + d - 0
    BY <1>6, <1>7, <1>8, <1>9, <1>11, <1>10, <1>12, Zenon
  <1>14. (t \in I => u = c + m) /\ (t \notin I => u = c)
    BY <1>1, <1>13
  <1> QED
    BY <1>5, <1>9, <1>12, <1>14, Zenon DEF Grows

-----------------------------------------------------------------------------
(* Reservations and give-backs *)

\* e is the time at which the limiter has no tokens and owes none. What is
\* given for a time from a on is what the limiter can have earned by e, with
\* the burst, and no window has more than the burst and what it earns.
Bounded(S, gr, e) ==
  /\ \A a \in Int : Cardinality(Tokens(S, gr, From(a))) > 0 => Cardinality(Tokens(S, gr, From(a))) <= e - a + Burst
  /\ \A a, b \in Int : a <= b => Cardinality(Tokens(S, gr, a .. b)) <= Burst + (b - a)

\* Of m tokens for time t, by a limiter that was empty at f.
LEMMA ReserveBounded ==
  ASSUME NEW S, NEW gr, NEW z, NEW t, NEW m, Placed(S, gr, z, t, m),
         NEW e \in Int, NEW f \in Int, Bounded(S, gr, e), e <= f, f + m <= t, t <= f + Burst
  PROVE  Bounded(S \cup {z}, gr, f + m)
  <1>1. Burst \in Nat /\ m \in Nat /\ t \in Int /\ m <= Burst /\ IsFiniteSet(S)
    BY IngestAssumption DEF Placed
  <1>2. IsFiniteSet(S \cup {z})
    BY <1>1, FS_AddElement, Zenon
  <1>3. ASSUME NEW a \in Int, Cardinality(Tokens(S \cup {z}, gr, From(a))) > 0
        PROVE  Cardinality(Tokens(S \cup {z}, gr, From(a))) <= (f + m) - a + Burst
    <2>1. PICK c : c = Cardinality(Tokens(S, gr, From(a)))
      BY Zenon
    <2>2. c \in Nat
      BY <1>1, <2>1, TokensFinite, Zenon
    <2>3. c > 0 => c <= e - a + Burst
      BY <2>1, Zenon DEF Bounded
    <2>4. Grows(c, Cardinality(Tokens(S \cup {z}, gr, From(a))), t \in From(a), m)
      BY <2>1, TokensAdded, Zenon
    <2>5. t \in From(a) <=> t >= a
      BY <1>1 DEF From
    <2> QED
      BY <1>1, <1>3, <2>2, <2>3, <2>4, <2>5 DEF Grows
  <1>4. ASSUME NEW a \in Int, NEW b \in Int, a <= b
        PROVE  Cardinality(Tokens(S \cup {z}, gr, a .. b)) <= Burst + (b - a)
    <2>1. PICK c : c = Cardinality(Tokens(S \cup {z}, gr, a .. b))
      BY Zenon
    <2>2. PICK d : d = Cardinality(Tokens(S \cup {z}, gr, From(a)))
      BY Zenon
    <2>3. c \in Nat /\ d \in Nat
      BY <1>2, <2>1, <2>2, TokensFinite, Zenon
    <2>4. CASE t \in a .. b
      <3>1. a .. b \subseteq From(a)
        BY DEF From
      <3>2. c <= d
        BY <1>2, <2>1, <2>2, <3>1, TokensMonotone, Zenon
      <3>3. d > 0 => d <= (f + m) - a + Burst
        BY <1>3, <2>2, Zenon
      <3> QED
        BY <1>1, <1>4, <2>1, <2>3, <2>4, <3>2, <3>3
    <2>5. CASE t \notin a .. b
      <3>1. Grows(Cardinality(Tokens(S, gr, a .. b)), c, t \in a .. b, m)
        BY <2>1, TokensAdded, Zenon
      <3>2. Cardinality(Tokens(S, gr, a .. b)) <= Burst + (b - a) /\ Cardinality(Tokens(S, gr, a .. b)) \in Nat
        BY <1>1, <1>4, TokensFinite, Zenon DEF Bounded
      <3> QED
        BY <2>1, <2>5, <3>1, <3>2 DEF Grows
    <2> QED
      BY <2>4, <2>5
  <1>5. f + m \in Int
    BY <1>1
  <1> QED
    BY <1>3, <1>4, Zenon DEF Bounded

\* Nothing is given back for the grant at z.
LEMMA DropBounded ==
  ASSUME NEW S, IsFiniteSet(S), NEW z, NEW gr, NEW e \in Int, NEW f \in Int,
         Bounded(S \cup {z}, gr, e), e <= f
  PROVE  Bounded(S, gr, f)
  <1>1. IsFiniteSet(S \cup {z}) /\ S \in SUBSET (S \cup {z}) /\ Burst \in Nat
    BY FS_AddElement, IngestAssumption, Zenon
  <1>2. ASSUME NEW I
        PROVE  /\ Cardinality(Tokens(S, gr, I)) <= Cardinality(Tokens(S \cup {z}, gr, I))
               /\ Cardinality(Tokens(S, gr, I)) \in Nat /\ Cardinality(Tokens(S \cup {z}, gr, I)) \in Nat
    BY <1>1, TokensMonotone, TokensFinite, Zenon
  <1>3. ASSUME NEW a \in Int, Cardinality(Tokens(S, gr, From(a))) > 0
        PROVE  Cardinality(Tokens(S, gr, From(a))) <= f - a + Burst
    <2>1. PICK c, d : c = Cardinality(Tokens(S, gr, From(a))) /\ d = Cardinality(Tokens(S \cup {z}, gr, From(a)))
      BY Zenon
    <2>2. c \in Nat /\ d \in Nat /\ c <= d /\ c > 0 /\ (d > 0 => d <= e - a + Burst)
      BY <1>2, <1>3, <2>1, Zenon DEF Bounded
    <2>3. c <= f - a + Burst
      BY <1>1, <2>2
    <2> QED
      BY <2>1, <2>3, Zenon
  <1>4. ASSUME NEW a \in Int, NEW b \in Int, a <= b
        PROVE  Cardinality(Tokens(S, gr, a .. b)) <= Burst + (b - a)
    <2>1. PICK c, d : c = Cardinality(Tokens(S, gr, a .. b)) /\ d = Cardinality(Tokens(S \cup {z}, gr, a .. b))
      BY Zenon
    <2>2. c \in Nat /\ d \in Nat /\ c <= d /\ d <= Burst + (b - a)
      BY <1>2, <1>4, <2>1, Zenon DEF Bounded
    <2>3. c <= Burst + (b - a)
      BY <1>1, <2>2
    <2> QED
      BY <2>1, <2>3, Zenon
  <1> QED
    BY <1>3, <1>4, Zenon DEF Bounded

\* Of the m tokens at z all but those after t are given back, and no grant is
\* later than l.
LEMMA GiveBackBounded ==
  ASSUME NEW S, NEW gr, NEW z, NEW t, NEW m, Placed(S, gr, z, t, m),
         NEW e \in Int, NEW f \in Int, NEW l \in Int, Bounded(S \cup {z}, gr, e), e - (m - (l - t)) <= f,
         t <= l, \A x \in S : gr[x[1]][x[2]].at \in Int /\ gr[x[1]][x[2]].at <= l
  PROVE  Bounded(S, gr, f)
  <1>1. Burst \in Nat /\ m \in Nat /\ t \in Int /\ m <= Burst /\ IsFiniteSet(S)
    BY IngestAssumption DEF Placed
  <1>2. IsFiniteSet(S \cup {z}) /\ S \in SUBSET (S \cup {z})
    BY <1>1, FS_AddElement, Zenon
  <1>3. ASSUME NEW a \in Int, Cardinality(Tokens(S, gr, From(a))) > 0
        PROVE  Cardinality(Tokens(S, gr, From(a))) <= f - a + Burst
    <2>1. PICK c, d : c = Cardinality(Tokens(S, gr, From(a))) /\ d = Cardinality(Tokens(S \cup {z}, gr, From(a)))
      BY Zenon
    <2>2. c \in Nat /\ d \in Nat /\ c > 0 /\ (d > 0 => d <= e - a + Burst)
      BY <1>1, <1>2, <1>3, <2>1, TokensFinite, Zenon DEF Bounded
    <2>3. Grows(c, d, t \in From(a), m)
      BY <2>1, TokensAdded, Zenon
    <2>4. CASE a <= t
      <3>1. d = c + m
        BY <1>1, <2>3, <2>4 DEF From, Grows
      <3>2. c <= f - a + Burst
        BY <1>1, <2>2, <3>1
      <3> QED
        BY <2>1, <3>2, Zenon
    <2>5. CASE ~ (a <= t)
      <3>1. a <= l
        <4>1. Tokens(S, gr, From(a)) # {}
          <5>1. Cardinality({}) = 0 /\ c # 0
            BY <2>2, FS_EmptySet
          <5> QED
            BY <2>1, <5>1, Zenon
        <4>2. PICK y \in S \X (1 .. Burst) : gr[y[1][1]][y[1][2]].at \in From(a)
          BY <4>1, Zenon DEF Tokens
        <4>3. PICK h : h = gr[y[1][1]][y[1][2]].at
          BY Zenon
        <4>4. y[1] \in S
          BY <4>2
        <4>5. h \in Int /\ h <= l /\ h \in From(a)
          BY <4>2, <4>3, <4>4, Zenon
        <4>6. h >= a
          BY <4>5, Zenon DEF From
        <4> QED
          BY <4>5, <4>6
      <3>2. PICK p, q : p = Cardinality(Tokens(S, gr, From(t))) /\ q = Cardinality(Tokens(S \cup {z}, gr, From(t)))
        BY Zenon
      <3>3. p \in Nat /\ q \in Nat /\ (q > 0 => q <= e - t + Burst)
        BY <1>1, <1>2, <3>2, TokensFinite, Zenon DEF Bounded
      <3>4. q = p + m
        <4>1. t \in From(t)
          BY <1>1 DEF From
        <4>2. Grows(p, q, t \in From(t), m)
          BY <3>2, TokensAdded, Zenon
        <4> QED
          BY <4>1, <4>2, Zenon DEF Grows
      <3>5. c <= p
        <4>1. From(a) \subseteq From(t)
          BY <1>1, <2>5 DEF From
        <4>2. S \in SUBSET S
          OBVIOUS
        <4> QED
          BY <1>1, <2>1, <3>2, <4>1, <4>2, TokensMonotone, Zenon
      <3>6. c <= f - a + Burst
        BY <1>1, <2>2, <2>3, <2>5, <3>1, <3>3, <3>4, <3>5
      <3> QED
        BY <2>1, <3>6, Zenon
    <2> QED
      BY <2>4, <2>5, Zenon
  <1>4. ASSUME NEW a \in Int, NEW b \in Int, a <= b
        PROVE  Cardinality(Tokens(S, gr, a .. b)) <= Burst + (b - a)
    <2>1. \A c, d \in Int : Bounded(S \cup {z}, gr, c) /\ c <= d => Bounded(S, gr, d)
      BY <1>1, DropBounded, Zenon
    <2>2. e <= e
      OBVIOUS
    <2> QED
      BY <1>4, <2>1, <2>2, Zenon DEF Bounded
  <1> QED
    BY <1>3, <1>4, Zenon DEF Bounded

-----------------------------------------------------------------------------
(* The limiter's account *)

Limiters == [tokens : Int, last : Int, lastEvent : Int]

\* When a limiter has, or had, no tokens and owes none.
Empty(l) == l.last - l.tokens

\* The same after advance; it is never further back than a burst.
LEMMA AdvanceAccount ==
  ASSUME Clock, NEW l \in Limiters
  PROVE  /\ Advance(l) \in Int /\ Empty(l) \in Int /\ now \in Int
         /\ Empty(l) <= now - Advance(l) /\ now <= (now - Advance(l)) + Burst
  <1>1. Burst \in Int /\ now \in Int /\ l.tokens \in Int /\ l.last \in Int
    BY IngestAssumption DEF Clock, Limiters
  <1>2. PICK e \in Int : e = l.tokens + (now - l.last)
    BY <1>1
  <1>3. Min({Burst, e}) \in Int /\ Min({Burst, e}) <= Burst /\ Min({Burst, e}) <= e
    BY <1>1 DEF Min
  <1>4. Advance(l) = Min({Burst, e})
    BY <1>2, Zenon DEF Advance
  <1> QED
    BY <1>1, <1>2, <1>3, <1>4 DEF Empty

LEMMA ReserveAccount ==
  ASSUME Clock, NEW l \in Limiters, NEW m \in 0 .. Burst
  PROVE  LET f == now - Advance(l)
             t == ReserveN(l, m).lastEvent
         IN  /\ f \in Int /\ t \in Int /\ Empty(l) \in Int /\ Empty(l) <= f
             /\ Empty(ReserveN(l, m)) = f + m /\ f + m <= t /\ t <= f + Burst
             /\ Advance(l) >= m => t = now
  <1>1. PICK d : d = Advance(l)
    BY Zenon
  <1>2. d \in Int /\ Empty(l) \in Int /\ now \in Int /\ Empty(l) <= now - d /\ now <= (now - d) + Burst
    BY <1>1, AdvanceAccount, Zenon
  <1>3. Burst \in Nat /\ m \in Nat /\ m <= Burst
    BY IngestAssumption
  <1>4. PICK k \in Int : k = - (d - m)
    BY <1>2, <1>3
  <1>5. Max({0, k}) \in Int /\ Max({0, k}) >= 0 /\ Max({0, k}) >= k /\ (Max({0, k}) = 0 \/ Max({0, k}) = k)
    BY DEF Max
  <1>6. /\ ReserveN(l, m).tokens = d - m /\ ReserveN(l, m).last = now
        /\ ReserveN(l, m).lastEvent = now + Max({0, k})
    BY <1>1, <1>4, Zenon DEF ReserveN
  <1> QED
    BY <1>1, <1>2, <1>3, <1>4, <1>5, <1>6 DEF Empty

\* A limiter gives back at most what CancelAt computes.
LEMMA CancelAccount ==
  ASSUME Clock, NEW l \in Limiters, NEW t \in Int, NEW m \in Int
  PROVE  LET k == CancelAt(l, t, m)
         IN  /\ Empty(l) \in Int /\ Empty(k) \in Int
             /\ Empty(l) <= Empty(k) \/ Empty(l) - (m - (l.lastEvent - t)) <= Empty(k)
  <1>1. PICK d : d = Advance(l)
    BY Zenon
  <1>2. d \in Int /\ Empty(l) \in Int /\ now \in Int /\ Empty(l) <= now - d
    BY <1>1, AdvanceAccount, Zenon
  <1>3. Burst \in Int /\ l.lastEvent \in Int
    BY IngestAssumption DEF Limiters
  <1>4. PICK e \in Int : e = m - (l.lastEvent - t)
    BY <1>3
  <1>5. PICK h \in Int : h = Min({Burst, d + e}) /\ h <= d + e
    BY <1>2, <1>3 DEF Min
  <1>6. CancelAt(l, t, m) = l \/ (CancelAt(l, t, m).tokens = h /\ CancelAt(l, t, m).last = now)
    BY <1>1, <1>4, <1>5, Zenon DEF CancelAt
  <1>7. CASE CancelAt(l, t, m) = l
    BY <1>2, <1>7
  <1>8. CASE CancelAt(l, t, m).tokens = h /\ CancelAt(l, t, m).last = now
    <2>1. Empty(CancelAt(l, t, m)) = now - h
      BY <1>8, Zenon DEF Empty
    <2> QED
      BY <1>2, <1>4, <1>5, <2>1
  <1> QED
    BY <1>6, <1>7, <1>8

-----------------------------------------------------------------------------
(* The grants of an org *)

GrantOK(g) == g.at \in Int /\ g.n \in 0 .. Burst

RateInv ==
  /\ \A r \in Requests : \A i \in DOMAIN grants[r] : GrantOK(grants[r][i])
  /\ \A r \in Requests : st[r] = "new" => grants[r] = <<>>
  /\ \A o \in Limited \ misled : Bounded(Slots(o), grants, Empty(lim[o]))

LEMMA SlotsFinite ==
  ASSUME NEW o
  PROVE  IsFiniteSet(Slots(o))
  <1>1. IsFiniteSet(Requests)
    BY FS_Interval, IngestAssumption DEF Requests
  <1>2. IsFiniteSet({1, 2})
    <2>1. 1 \in Int /\ 2 \in Int /\ 1 .. 2 = {1, 2}
      OBVIOUS
    <2> QED
      BY <2>1, FS_Interval, Zenon
  <1>3. IsFiniteSet(Requests \X {1, 2})
    BY <1>1, <1>2, FS_Product, Zenon
  <1>4. Slots(o) \in SUBSET (Requests \X {1, 2})
    BY Zenon DEF Slots
  <1> QED
    BY <1>3, <1>4, FS_Subset, Zenon

\* The bound depends only on the grants at the places.
LEMMA BoundedAgree ==
  ASSUME NEW S, NEW gr, NEW hr, \A x \in S : gr[x[1]][x[2]] = hr[x[1]][x[2]], NEW e, Bounded(S, gr, e)
  PROVE  Bounded(S, hr, e)
  <1>1. \A I : Tokens(S, gr, I) = Tokens(S, hr, I)
    BY TokensAgree, Zenon
  <1>2. \A a \in Int : Tokens(S, gr, From(a)) = Tokens(S, hr, From(a))
    BY <1>1, Zenon
  <1>3. \A a, b \in Int : Tokens(S, gr, a .. b) = Tokens(S, hr, a .. b)
    BY <1>1, Zenon
  <1> QED
    BY <1>2, <1>3 DEF Bounded

\* The limiters and places of other orgs are left alone.
Same(o) == Slots(o)' = Slots(o) /\ lim'[o] = lim[o] /\ \A x \in Slots(o) : grants'[x[1]][x[2]] = grants[x[1]][x[2]]

LEMMA SameBounded ==
  ASSUME NEW o, Bounded(Slots(o), grants, Empty(lim[o])), Same(o)
  PROVE  Bounded(Slots(o), grants, Empty(lim[o]))'
  <1>1. PICK S, gr, hr, e : S = Slots(o) /\ gr = grants /\ hr = grants' /\ e = Empty(lim[o])
    BY Zenon
  <1>2. Bounded(S, gr, e) /\ \A x \in S : gr[x[1]][x[2]] = hr[x[1]][x[2]]
    BY <1>1, Zenon DEF Same
  <1>3. Bounded(S, hr, e)
    BY <1>2, BoundedAgree, Zenon
  <1>4. Slots(o)' = S /\ Empty(lim[o])' = e
    BY <1>1, Zenon DEF Same, Empty
  <1> QED
    BY <1>1, <1>3, <1>4, Zenon

\* Steps that change neither the grants nor who sent what, nor a limiter.
LEMMA QuietRate ==
  ASSUME RateInv, UNCHANGED <<lim, grants, misled>>,
         \A q \in Requests : grants[q] # <<>> => from'[q] = from[q],
         \A q \in Requests : st'[q] = "new" => st[q] = "new"
  PROVE  RateInv'
  <1>1. DOMAIN <<>> = {}
    OBVIOUS
  <1>2. ASSUME NEW o
        PROVE  Slots(o)' = Slots(o)
    <2>1. \A q \in Requests : \A i \in DOMAIN grants[q] : Org(q)' = Org(q)
      BY <1>1, Zenon DEF Org
    <2> QED
      BY <2>1, Zenon DEF Slots
  <1>3. \A o : Same(o)
    BY <1>2, Zenon DEF Same
  <1>4. \A o \in Limited \ misled : Bounded(Slots(o), grants, Empty(lim[o]))'
    BY <1>3, SameBounded, Zenon DEF RateInv
  <1> QED
    BY <1>4, Zenon DEF RateInv, GrantOK

\* Only the places of r change: in the one direction the one at i, of org o, is
\* added.
PlaceAdded(r, i, o, gr, fr, hr, kr) ==
  /\ \A q \in Requests \ {r} : gr[q] = hr[q] /\ fr[q] = kr[q]
  /\ i \in {1, 2} /\ i \notin DOMAIN gr[r] /\ DOMAIN hr[r] = DOMAIN gr[r] \cup {i}
  /\ \A j \in DOMAIN gr[r] : gr[r][j] = hr[r][j] /\ fr[r].org = kr[r].org
  /\ kr[r].org = o

\* Slots of the grants gr and the senders fr.
Places(gr, fr, o) == {x \in Requests \X {1, 2} : x[2] \in DOMAIN gr[x[1]] /\ fr[x[1]].org = o}

OneMore(r, i, o, gr, fr, hr, kr) ==
  /\ Places(hr, kr, o) = Places(gr, fr, o) \cup {<<r, i>>} /\ <<r, i>> \notin Places(gr, fr, o)
  /\ \A p : p # o => Places(hr, kr, p) = Places(gr, fr, p)
  /\ \A p : \A x \in Places(gr, fr, p) : gr[x[1]][x[2]] = hr[x[1]][x[2]]

LEMMA PlacesAdded ==
  ASSUME NEW r \in Requests, NEW i, NEW o, NEW gr, NEW fr, NEW hr, NEW kr, PlaceAdded(r, i, o, gr, fr, hr, kr)
  PROVE  OneMore(r, i, o, gr, fr, hr, kr)
  <1>1. ASSUME NEW q \in Requests, NEW j \in {1, 2}, NEW p
        PROVE  (j \in DOMAIN hr[q] /\ kr[q].org = p)
                 <=> ((j \in DOMAIN gr[q] /\ fr[q].org = p) \/ (q = r /\ j = i /\ p = o))
    <2>1. CASE q = r
      BY <2>1, Zenon DEF PlaceAdded
    <2>2. CASE q # r
      BY <2>2, Zenon DEF PlaceAdded
    <2> QED
      BY <2>1, <2>2, Zenon
  <1>2. ASSUME NEW x \in Requests \X {1, 2}
        PROVE  x[1] \in Requests /\ x[2] \in {1, 2} /\ (x[1] = r /\ x[2] = i <=> x = <<r, i>>)
    OBVIOUS
  <1>3. ASSUME NEW x \in Requests \X {1, 2}, NEW p
        PROVE  x \in Places(hr, kr, p) <=> x \in Places(gr, fr, p) \/ (x = <<r, i>> /\ p = o)
    <2>1. PICK q \in Requests, j \in {1, 2} : q = x[1] /\ j = x[2]
      BY <1>2, Zenon
    <2>2. (j \in DOMAIN hr[q] /\ kr[q].org = p)
             <=> ((j \in DOMAIN gr[q] /\ fr[q].org = p) \/ (q = r /\ j = i /\ p = o))
      BY ONLY <1>1, <2>1
    <2>3. q = r /\ j = i <=> x = <<r, i>>
      BY <1>2, <2>1, Zenon
    <2>4. /\ x \in Places(hr, kr, p) <=> j \in DOMAIN hr[q] /\ kr[q].org = p
          /\ x \in Places(gr, fr, p) <=> j \in DOMAIN gr[q] /\ fr[q].org = p
      BY <2>1, Zenon DEF Places
    <2> QED
      BY <2>2, <2>3, <2>4, Zenon
  <1>4. <<r, i>> \in Requests \X {1, 2} /\ <<r, i>>[1] = r /\ <<r, i>>[2] = i
    BY Zenon DEF PlaceAdded
  <1>5. \A p : Places(hr, kr, p) \subseteq Requests \X {1, 2} /\ Places(gr, fr, p) \subseteq Requests \X {1, 2}
    BY Zenon DEF Places
  <1>6. Places(hr, kr, o) = Places(gr, fr, o) \cup {<<r, i>>}
    BY <1>3, <1>4, <1>5, Zenon
  <1>7. <<r, i>> \notin Places(gr, fr, o)
    BY <1>4, Zenon DEF Places, PlaceAdded
  <1>8. \A p : p # o => Places(hr, kr, p) = Places(gr, fr, p)
    <2> SUFFICES ASSUME NEW p, p # o
                 PROVE  Places(hr, kr, p) = Places(gr, fr, p)
      BY Zenon
    <2>1. \A x \in Requests \X {1, 2} : x \in Places(hr, kr, p) <=> x \in Places(gr, fr, p)
      BY <1>3, Zenon
    <2>2. \A x : x \in Places(hr, kr, p) <=> x \in Places(gr, fr, p)
      BY <1>5, <2>1, Zenon
    <2> QED
      BY <2>2, Zenon
  <1>9. ASSUME NEW p, NEW x \in Places(gr, fr, p)
        PROVE  gr[x[1]][x[2]] = hr[x[1]][x[2]]
    <2>1. x[1] \in Requests /\ x[2] \in DOMAIN gr[x[1]]
      BY <1>2, Zenon DEF Places
    <2>2. CASE x[1] = r
      BY <2>1, <2>2, Zenon DEF PlaceAdded
    <2>3. CASE x[1] # r
      <3>1. gr[x[1]] = hr[x[1]]
        BY <2>1, <2>3, Zenon DEF PlaceAdded
      <3> QED
        BY <3>1, Zenon
    <2> QED
      BY <2>2, <2>3, Zenon
  <1> QED
    BY <1>6, <1>7, <1>8, <1>9, Zenon DEF OneMore

LEMMA SlotsArePlaces == /\ \A o : Slots(o) = Places(grants, from, o)
                        /\ \A o : Slots(o)' = Places(grants', from', o)
  BY Zenon DEF Slots, Places, Org

\* Allow and WaitN: a reservation of m tokens, at the place i of r.
LEMMA ReserveRate ==
  ASSUME PayInv, RateInv, NEW r \in Requests, NEW i, NEW o \in Limited, NEW m \in 0 .. Burst,
         PlaceAdded(r, i, o, grants, from, grants', from'), misled' = misled,
         lim' = [lim EXCEPT ![o] = ReserveN(lim[o], m)],
         grants'[r][i] = [at |-> ReserveN(lim[o], m).lastEvent, n |-> m]
  PROVE  /\ \A p \in Limited \ misled : Bounded(Slots(p), grants, Empty(lim[p]))'
         /\ GrantOK(grants'[r][i])
  <1>1. PICK gr, fr, hr, kr : gr = grants /\ fr = from /\ hr = grants' /\ kr = from'
    BY Zenon
  <1>2. /\ Places(hr, kr, o) = Places(gr, fr, o) \cup {<<r, i>>} /\ <<r, i>> \notin Places(gr, fr, o)
        /\ \A p : p # o => Places(hr, kr, p) = Places(gr, fr, p)
        /\ \A p : \A x \in Places(gr, fr, p) : gr[x[1]][x[2]] = hr[x[1]][x[2]]
    <2>1. PlaceAdded(r, i, o, gr, fr, hr, kr)
      BY <1>1, Zenon
    <2>2. OneMore(r, i, o, gr, fr, hr, kr)
      BY <2>1, PlacesAdded, Zenon
    <2> QED
      BY <2>2, Zenon DEF OneMore
  <1>3. \A p : Slots(p) = Places(gr, fr, p) /\ Slots(p)' = Places(hr, kr, p)
    BY <1>1, SlotsArePlaces, Zenon
  <1>4. PICK l, k : l = lim[o] /\ k = ReserveN(lim[o], m)
    BY Zenon
  <1>5. Clock /\ l \in Limiters /\ lim'[o] = k /\ \A p \in Limited : p # o => lim'[p] = lim[p]
    BY <1>4, Zenon DEF PayInv, Clock, Limiters
  <1>6. PICK f, t : f = now - Advance(l) /\ t = k.lastEvent
    BY Zenon
  <1>7. /\ f \in Int /\ t \in Int /\ Empty(l) \in Int /\ Empty(l) <= f
        /\ Empty(k) = f + m /\ f + m <= t /\ t <= f + Burst
    BY <1>4, <1>5, <1>6, ReserveAccount, Zenon
  <1>8. hr[r][i].at = t /\ hr[r][i].n = m
    <2>1. hr[r][i] = [at |-> t, n |-> m]
      BY <1>1, <1>4, <1>6, Zenon
    <2> QED
      BY <2>1
  <1>9. ASSUME NEW p \in Limited, p \notin misled'
        PROVE  Bounded(Slots(p), grants, Empty(lim[p]))'
    <2>1. Bounded(Places(gr, fr, p), gr, Empty(lim[p]))
      BY <1>1, <1>3, <1>9, Zenon DEF RateInv
    <2>2. Bounded(Places(gr, fr, p), hr, Empty(lim[p]))
      BY <1>2, <2>1, BoundedAgree, Zenon
    <2>3. CASE p # o
      <3>1. Empty(lim[p])' = Empty(lim[p])
        BY <1>5, <2>3, Zenon DEF Empty
      <3> QED
        BY <1>1, <1>2, <1>3, <2>2, <2>3, <3>1, Zenon
    <2>4. CASE p = o
      <3>1. PICK S, z : S = Places(gr, fr, o) /\ z = <<r, i>>
        BY Zenon
      <3>2. z[1] = r /\ z[2] = i
        BY <3>1, Zenon
      <3>3. Placed(S, hr, z, t, m)
        <4>1. IsFiniteSet(S)
          BY <1>3, <3>1, SlotsFinite, Zenon
        <4> QED
          BY <1>2, <1>7, <1>8, <3>1, <3>2, <4>1, Zenon DEF Placed
      <3>4. Bounded(S, hr, Empty(l))
        BY <1>4, <2>2, <2>4, <3>1, Zenon
      <3>5. Bounded(S \cup {z}, hr, f + m)
        BY <1>7, <3>3, <3>4, ReserveBounded, Zenon
      <3>6. Empty(lim[o])' = f + m
        BY <1>5, <1>7, Zenon DEF Empty
      <3> QED
        BY <1>1, <1>2, <1>3, <2>4, <3>1, <3>5, <3>6, Zenon
    <2> QED
      BY <2>3, <2>4, Zenon
  <1>10. GrantOK(grants'[r][i])
    BY <1>1, <1>7, <1>8, Zenon DEF GrantOK
  <1> QED
    BY <1>9, <1>10, Zenon

\* The grants of others, and what r had, stay; none is had before Allow.
LEMMA GrantsKept ==
  ASSUME RateInv, NEW r \in Requests, NEW i, NEW o, PlaceAdded(r, i, o, grants, from, grants', from'),
         GrantOK(grants'[r][i])
  PROVE  \A q \in Requests : \A j \in DOMAIN grants'[q] : GrantOK(grants'[q][j])
  <1> SUFFICES ASSUME NEW q \in Requests, NEW j \in DOMAIN grants'[q]
               PROVE  GrantOK(grants'[q][j])
    BY Zenon
  <1>1. CASE q # r
    BY <1>1, Zenon DEF PlaceAdded, RateInv
  <1>2. CASE q = r
    <2>1. j = i \/ (j \in DOMAIN grants[r] /\ grants'[r][j] = grants[r][j])
      BY <1>2, Zenon DEF PlaceAdded
    <2> QED
      BY <1>2, <2>1, Zenon DEF RateInv
  <1> QED
    BY <1>1, <1>2, Zenon

LEMMA AllowRate ==
  ASSUME PayInv, RateInv, NEW r \in Requests, NEW s \in Senders, Allow(r, s)
  PROVE  RateInv'
  <1>1. /\ st[r] = "new" /\ s.org \in Limited /\ Advance(lim[s.org]) >= 1 /\ misled' = misled
        /\ lim' = [lim EXCEPT ![s.org] = ReserveN(lim[s.org], 1)]
        /\ grants' = [grants EXCEPT ![r] = <<[at |-> now, n |-> 1]>>]
        /\ from' = [from EXCEPT ![r] = s] /\ st' = [st EXCEPT ![r] = "body"]
    BY Zenon DEF Allow, Arrive, Goto
  <1>2. grants[r] = <<>> /\ grants'[r] = <<[at |-> now, n |-> 1]>> /\ from'[r].org = s.org
    BY <1>1, Zenon DEF RateInv, PayInv, Shape
  <1>3. \A q \in Requests \ {r} : grants[q] = grants'[q] /\ from[q] = from'[q]
    BY <1>1, Zenon DEF PayInv, Shape
  <1>4. DOMAIN grants[r] = {} /\ DOMAIN grants'[r] = {1} /\ grants'[r][1] = [at |-> now, n |-> 1]
    BY <1>2
  <1>5. PlaceAdded(r, 1, s.org, grants, from, grants', from')
    BY <1>2, <1>3, <1>4, Zenon DEF PlaceAdded
  <1>6. 1 \in 0 .. Burst
    BY IngestAssumption
  <1>7. ReserveN(lim[s.org], 1).lastEvent = now
    <2>1. Clock /\ lim[s.org] \in Limiters
      BY <1>1, Zenon DEF PayInv, Clock, Limiters
    <2> QED
      BY <1>1, <1>6, <2>1, ReserveAccount, Zenon
  <1>8. /\ \A p \in Limited \ misled : Bounded(Slots(p), grants, Empty(lim[p]))'
        /\ GrantOK(grants'[r][1])
    BY <1>1, <1>4, <1>5, <1>6, <1>7, ReserveRate, Zenon
  <1>9. \A q \in Requests : st'[q] = "new" => grants'[q] = <<>>
    <2>1. st'[r] # "new"
      BY <1>1 DEF PayInv, Shape
    <2> QED
      BY <1>1, <1>3, <2>1, Zenon DEF RateInv, PayInv, Shape
  <1> QED
    BY <1>1, <1>5, <1>8, <1>9, GrantsKept, Zenon DEF RateInv

LEMMA WaitNRate ==
  ASSUME PayInv, RateInv, NEW r \in Requests, WaitN(r)
  PROVE  RateInv'
  <1>1. PICK l : l = ReserveN(lim[Org(r)], Size(r))
    BY Zenon
  <1>2. /\ st[r] = "limit" /\ Size(r) <= Burst /\ misled' = misled
        /\ lim' = [lim EXCEPT ![Org(r)] = l] /\ from' = from
        /\ grants' = [grants EXCEPT ![r] = Append(@, [at |-> l.lastEvent, n |-> Size(r)])]
        /\ st' = [st EXCEPT ![r] = AfterReserve(l)]
    BY <1>1, Zenon DEF WaitN, Goto
  <1>3. Org(r) \in Limited /\ Admitted(r)
    BY <1>2, Zenon DEF PayInv, Paying
  <1>4. Size(r) \in 0 .. Burst
    <2>1. Size(r) \in Nat
      BY FS_CardinalityType DEF PayInv, Shape, Size
    <2>2. Size(r) <= Burst
      BY <1>2, Zenon
    <2>3. Burst \in Nat
      BY IngestAssumption
    <2> QED
      BY <2>1, <2>2, <2>3
  <1>5. PICK g, h : grants[r] = <<g>> /\ h = [at |-> l.lastEvent, n |-> Size(r)]
    BY <1>3, Zenon DEF Admitted
  <1>6. grants'[r] = <<g, h>>
    <2>1. grants'[r] = Append(<<g>>, h)
      BY <1>2, <1>5, Zenon DEF PayInv, Shape
    <2> QED
      BY <2>1, AppendSecond, Zenon
  <1>7. \A q \in Requests \ {r} : grants[q] = grants'[q] /\ from[q] = from'[q]
    BY <1>2, Zenon DEF PayInv, Shape
  <1>8. /\ DOMAIN grants[r] = {1} /\ DOMAIN grants'[r] = {1} \cup {2} /\ grants'[r][2] = h
        /\ grants'[r][1] = grants[r][1] /\ 2 \notin {1}
    BY <1>5, <1>6
  <1>9. PlaceAdded(r, 2, Org(r), grants, from, grants', from')
    BY <1>2, <1>7, <1>8, Zenon DEF PlaceAdded, Org
  <1>10. /\ \A p \in Limited \ misled : Bounded(Slots(p), grants, Empty(lim[p]))'
         /\ GrantOK(grants'[r][2])
    BY <1>1, <1>2, <1>3, <1>4, <1>5, <1>8, <1>9, ReserveRate, Zenon
  <1>11. \A q \in Requests : st'[q] = "new" => grants'[q] = <<>>
    <2>1. st'[r] # "new"
      BY <1>2 DEF PayInv, Shape, AfterReserve
    <2> QED
      BY <1>2, <1>7, <2>1, Zenon DEF RateInv, PayInv, Shape
  <1> QED
    BY <1>2, <1>9, <1>10, <1>11, GrantsKept, Zenon DEF RateInv

LEMMA WaitCanceledRate ==
  ASSUME PayInv, RateInv, NEW r \in Requests, WaitCanceled(r)
  PROVE  RateInv'
  <1>1. PICK o, g, h : o = Org(r) /\ grants[r] = <<g, h>>
    <2>1. Reserved(r)
      BY Zenon DEF WaitCanceled, PayInv, Paying
    <2> QED
      BY <2>1, Zenon DEF Reserved
  <1>2. o \in Limited
    BY <1>1, Zenon DEF WaitCanceled, PayInv
  <1>3. /\ DOMAIN <<g, h>> = {1} \cup {2} /\ <<g, h>>[2] = h /\ <<g, h>>[1] = g
        /\ DOMAIN <<g>> = {1} /\ 2 \notin {1} /\ <<g>>[1] = g
    OBVIOUS
  <1>4. Reservation(r) = h /\ GrantOK(h) /\ GrantOK(g)
    BY <1>1, <1>3, Zenon DEF Reservation, RateInv
  <1>5. PICK t \in Int, m \in 0 .. Burst : t = h.at /\ m = h.n
    BY <1>4, Zenon DEF GrantOK
  <1>6. /\ lim' = [lim EXCEPT ![o] = CancelAt(lim[o], t, m)] /\ from' = from
        /\ grants' = [grants EXCEPT ![r] = <<g>>] /\ st' = [st EXCEPT ![r] = "check"]
        /\ misled' = IF \E x \in Slots(o) : Grant(x).at > lim[o].lastEvent THEN misled \cup {o} ELSE misled
    BY <1>1, <1>2, <1>3, <1>4, <1>5, Zenon DEF WaitCanceled, Goto, PayInv, Clock, Shape
  <1>7. grants'[r] = <<g>> /\ \A q \in Requests \ {r} : grants[q] = grants'[q]
    BY <1>6, Zenon DEF PayInv, Shape
  <1>8. PICK gr, fr, hr, kr : gr = grants' /\ fr = from' /\ hr = grants /\ kr = from
    BY Zenon
  <1>9. OneMore(r, 2, o, gr, fr, hr, kr)
    <2>1. PlaceAdded(r, 2, o, gr, fr, hr, kr)
      BY <1>1, <1>3, <1>6, <1>7, <1>8, Zenon DEF PlaceAdded, Org
    <2> QED
      BY <2>1, PlacesAdded, Zenon
  <1>10. \A p : Slots(p)' = Places(gr, fr, p) /\ Slots(p) = Places(hr, kr, p)
    BY <1>8, SlotsArePlaces, Zenon
  <1>11. PICK l, k : l = lim[o] /\ k = CancelAt(lim[o], t, m)
    BY Zenon
  <1>12. Clock /\ l \in Limiters /\ lim'[o] = k /\ \A p \in Limited : p # o => lim'[p] = lim[p]
    BY <1>2, <1>6, <1>11, Zenon DEF PayInv, Clock, Limiters
  <1>13. m \in Int /\ l.lastEvent \in Int
    BY <1>12, IngestAssumption DEF Limiters
  <1>14. /\ Empty(l) \in Int /\ Empty(k) \in Int
         /\ Empty(l) <= Empty(k) \/ Empty(l) - (m - (l.lastEvent - t)) <= Empty(k)
    BY <1>11, <1>12, <1>13, CancelAccount, Zenon
  <1>15. ASSUME NEW p \in Limited, p \notin misled'
         PROVE  Bounded(Slots(p), grants, Empty(lim[p]))'
    <2>1. Bounded(Places(hr, kr, p), hr, Empty(lim[p]))
      BY <1>6, <1>8, <1>10, <1>15, Zenon DEF RateInv
    <2>2. CASE p # o
      <3>1. Empty(lim[p])' = Empty(lim[p]) /\ Places(gr, fr, p) = Places(hr, kr, p)
        BY <1>9, <1>12, <2>2, Zenon DEF Empty, OneMore
      <3>2. \A x \in Places(gr, fr, p) : hr[x[1]][x[2]] = gr[x[1]][x[2]]
        BY <1>9, Zenon DEF OneMore
      <3>3. Bounded(Places(gr, fr, p), gr, Empty(lim[p]))
        BY <2>1, <3>1, <3>2, BoundedAgree, Zenon
      <3> QED
        BY <1>8, <1>10, <3>1, <3>3, Zenon
    <2>3. CASE p = o
      <3>1. PICK S, z : S = Places(gr, fr, o) /\ z = <<r, 2>>
        BY Zenon
      <3>2. z[1] = r /\ z[2] = 2
        BY <3>1, Zenon
      <3>3. /\ Places(hr, kr, o) = S \cup {z} /\ z \notin S
            /\ \A x \in S : hr[x[1]][x[2]] = gr[x[1]][x[2]]
        BY <1>9, <3>1, Zenon DEF OneMore
      <3>4. IsFiniteSet(S)
        <4>1. IsFiniteSet(S \cup {z})
          BY <1>10, <3>3, SlotsFinite, Zenon
        <4>2. S \in SUBSET (S \cup {z})
          BY Zenon
        <4> QED
          BY <4>1, <4>2, FS_Subset, Zenon
      <3>5. Placed(S, hr, z, t, m)
        BY <1>1, <1>3, <1>5, <1>8, <3>2, <3>3, <3>4, Zenon DEF Placed
      <3>6. Bounded(S \cup {z}, hr, Empty(l))
        BY <1>11, <2>1, <2>3, <3>3, Zenon
      <3>7. \A x \in S \cup {z} : hr[x[1]][x[2]].at \in Int /\ hr[x[1]][x[2]].at <= l.lastEvent
        <4> SUFFICES ASSUME NEW x \in Slots(o)
                     PROVE  Grant(x).at \in Int /\ Grant(x).at <= l.lastEvent
          BY <1>8, <1>10, <3>3, Zenon DEF Grant
        <4>1. x[1] \in Requests /\ x[2] \in DOMAIN grants[x[1]]
          BY DEF Slots
        <4>2. Grant(x).at \in Int
          BY <4>1, Zenon DEF RateInv, GrantOK, Grant
        <4>3. ~ (Grant(x).at > l.lastEvent)
          BY <1>6, <1>11, <1>15, <2>3, Zenon
        <4>4. PICK a \in Int : a = Grant(x).at
          BY <4>2, Zenon
        <4>5. a <= l.lastEvent
          BY <1>13, <4>3, <4>4
        <4> QED
          BY <4>2, <4>4, <4>5, Zenon
      <3>8. Bounded(S, hr, Empty(k))
        <4>1. CASE Empty(l) <= Empty(k)
          BY <1>14, <3>4, <3>6, <4>1, DropBounded, Zenon
        <4>2. CASE Empty(l) - (m - (l.lastEvent - t)) <= Empty(k)
          <5>1. t <= l.lastEvent
            BY <3>5, <3>7, Zenon DEF Placed
          <5>2. \A x \in S : hr[x[1]][x[2]].at \in Int /\ hr[x[1]][x[2]].at <= l.lastEvent
            BY <3>7, Zenon
          <5> QED
            BY <1>13, <1>14, <3>5, <3>6, <4>2, <5>1, <5>2, GiveBackBounded, Zenon
        <4> QED
          BY <1>14, <4>1, <4>2, Zenon
      <3>9. Bounded(S, gr, Empty(k))
        BY <3>3, <3>8, BoundedAgree, Zenon
      <3>10. Empty(lim[o])' = Empty(k)
        BY <1>12, Zenon DEF Empty
      <3> QED
        BY <1>8, <1>10, <2>3, <3>1, <3>9, <3>10, Zenon
    <2> QED
      BY <2>2, <2>3, Zenon
  <1>16. \A q \in Requests : \A j \in DOMAIN grants'[q] : GrantOK(grants'[q][j])
    <2>1. \A j \in DOMAIN grants'[r] : GrantOK(grants'[r][j])
      BY <1>3, <1>4, <1>7, Zenon
    <2>2. \A q \in Requests \ {r} : \A j \in DOMAIN grants'[q] : GrantOK(grants'[q][j])
      BY <1>7, Zenon DEF RateInv
    <2> QED
      BY <2>1, <2>2, Zenon
  <1>17. \A q \in Requests : st'[q] = "new" => grants'[q] = <<>>
    <2>1. st'[r] # "new"
      BY <1>6 DEF PayInv, Shape
    <2> QED
      BY <1>6, <1>7, <2>1, Zenon DEF RateInv, PayInv, Shape
  <1> QED
    BY <1>15, <1>16, <1>17, Zenon DEF RateInv

LEMMA NextRate ==
  ASSUME PayInv, RateInv, [Next]_vars
  PROVE  RateInv'
  <1>1. ASSUME NEW r \in Requests, Step(r), ~ WaitN(r), ~ WaitCanceled(r)
        PROVE  RateInv'
    <2>1. UNCHANGED <<lim, from, grants, misled>> /\ \E s \in States \ {"new"} : st' = [st EXCEPT ![r] = s]
      <3>1. {"ok", "refused", "limit", "check", "publish"} \subseteq States \ {"new"}
        BY DEF States, Answers
      <3> QED
        BY <1>1, <3>1, Zenon DEF Step, RefuseBody, PrepareIngest, RateLimitCanceled, TooLarge, WaitOver, Check, Publish,
                                 Answer, Goto
    <2>2. \A q \in Requests : st'[q] = "new" => st[q] = "new"
      BY <2>1, Zenon DEF PayInv, Shape
    <2> QED
      BY <2>1, <2>2, QuietRate, Zenon
  <1>2. CASE Tick \/ UNCHANGED vars \/ \E r \in Requests : Cancel(r)
    <2>1. UNCHANGED <<lim, from, grants, misled, st>>
      BY <1>2, Zenon DEF Tick, vars, Cancel
    <2> QED
      BY <2>1, QuietRate, Zenon
  <1>3. ASSUME NEW r \in Requests, NEW s \in Senders, Unauthorized(r, s) \/ Reject(r, s) \/ PassUnlimited(r, s)
        PROVE  RateInv'
    <2>1. /\ st[r] = "new" /\ from' = [from EXCEPT ![r] = s] /\ UNCHANGED <<lim, grants, misled>>
          /\ \E a \in {"refused", "body"} : st' = [st EXCEPT ![r] = a]
      BY <1>3, Zenon DEF Unauthorized, Reject, PassUnlimited, Arrive, Goto
    <2>2. \A q \in Requests : st'[q] = "new" => st[q] = "new"
      BY <2>1, Zenon DEF PayInv, Shape
    <2>3. \A q \in Requests : grants[q] # <<>> => from'[q] = from[q]
      BY <2>1, Zenon DEF RateInv, PayInv, Shape
    <2> QED
      BY <2>1, <2>2, <2>3, QuietRate, Zenon
  <1> QED
    BY <1>1, <1>2, <1>3, AllowRate, WaitNRate, WaitCanceledRate, Zenon DEF Next

\* No window of time has more tokens than the burst and what it earns, however
\* many requests check the budget, reserve, wait and give back, as long as
\* CancelAt never meets a lastEvent that is not the last.
THEOREM RateIsBounded == Spec => []RateBounded
  <1>1. Init => RateInv
    <2> SUFFICES ASSUME Init
                 PROVE  RateInv
      OBVIOUS
    <2>1. \A r \in Requests : grants[r] = <<>>
      BY Zenon DEF Init
    <2>2. DOMAIN <<>> = {}
      OBVIOUS
    <2>3. ASSUME NEW o \in Limited
          PROVE  Bounded(Slots(o), grants, Empty(lim[o]))
      <3>1. Slots(o) = {}
        BY <2>1, <2>2, Zenon DEF Slots
      <3>2. \A I : Tokens({}, grants, I) = {}
        BY Zenon DEF Tokens
      <3>3. Cardinality({}) = 0 /\ Burst \in Nat
        BY FS_EmptySet, IngestAssumption
      <3>4. \A I : Cardinality(Tokens(Slots(o), grants, I)) = 0
        BY <3>1, <3>2, <3>3, Zenon
      <3>5. ~ (0 > 0) /\ \A a, b \in Int : a <= b => 0 <= Burst + (b - a)
        BY <3>3
      <3> QED
        BY <3>4, <3>5 DEF Bounded
    <2> QED
      BY <2>1, <2>2, <2>3, Zenon DEF RateInv
  <1>2. RateInv => RateBounded
    <2> SUFFICES ASSUME RateInv, NEW o \in Limited \ misled, NEW x \in Slots(o), NEW y \in Slots(o),
                        Grant(x).at <= Grant(y).at
                 PROVE  Used(o, Grant(x).at, Grant(y).at) <= Burst + (Grant(y).at - Grant(x).at)
      BY DEF RateBounded
    <2>1. ASSUME NEW v \in Slots(o)
          PROVE  Grant(v).at \in Int
      <3>1. v[1] \in Requests /\ v[2] \in DOMAIN grants[v[1]]
        BY DEF Slots
      <3> QED
        BY <3>1, Zenon DEF RateInv, GrantOK, Grant
    <2>2. PICK a \in Int, b \in Int : a = Grant(x).at /\ b = Grant(y).at
      BY <2>1, Zenon
    <2>3. Used(o, a, b) = Cardinality(Tokens(Slots(o), grants, a .. b))
      BY Zenon DEF Used, Tokens, Grant
    <2>4. Cardinality(Tokens(Slots(o), grants, a .. b)) <= Burst + (b - a)
      BY <2>2, Zenon DEF RateInv, Bounded
    <2> QED
      BY <2>2, <2>3, <2>4, Zenon
  <1> QED
    BY <1>1, <1>2, InitPay, NextPay, NextRate, PTL DEF Spec

-----------------------------------------------------------------------------
(* Induction over the numbers, with sets in place of predicates *)

LEMMA LeastNumber ==
  ASSUME NEW T, T \subseteq Nat, T # {}
  PROVE  \E m \in T : \A k \in T : m <= k
  <1> DEFINE R == OpToRel(<, Nat)
  <1>1. IsWellFoundedOn(R, Nat)
    BY NatLessThanWellFounded
  <1>2. \A a, b \in Nat : a < b => <<a, b>> \in R
    BY DEF OpToRel
  <1> HIDE DEF R
  <1>3. PICK x \in T : \A y \in T : <<y, x>> \notin R
    BY <1>1, WFMin, Zenon
  <1>4. ASSUME NEW y \in T
        PROVE  x <= y
    <2>1. x \in Nat /\ y \in Nat /\ ~ (y < x)
      BY <1>2, <1>3, Zenon
    <2> QED
      BY <2>1
  <1> QED
    BY <1>4, Zenon

\* What holds of 0, and of n + 1 when it holds of n < m, holds of 0 .. m.
LEMMA Induction ==
  ASSUME NEW m \in Nat, NEW S, 0 \in S, \A n \in 0 .. m - 1 : n \in S => n + 1 \in S
  PROVE  0 .. m \subseteq S
  <1> SUFFICES ASSUME (0 .. m) \ S # {}
               PROVE  FALSE
    OBVIOUS
  <1>1. PICK k \in (0 .. m) \ S : \A j \in (0 .. m) \ S : k <= j
    <2>1. (0 .. m) \ S \subseteq Nat
      OBVIOUS
    <2> QED
      BY <2>1, LeastNumber, Zenon
  <1>2. k # 0 /\ k - 1 \in 0 .. m - 1 /\ k - 1 \in S
    BY <1>1
  <1> QED
    BY <1>2

-----------------------------------------------------------------------------
(* The response *)

\* after[n] is the response after n rounds, up to m of them.
IsAfter(after, b, m) ==
  after = [n \in 0 .. m |-> IF n = 0 THEN NewMetricsResponse ELSE Round(after[n - 1], b, n)]

\* There is such a function, so that the recursive definition defines it.
LEMMA AfterExists ==
  ASSUME NEW b, Len(b) \in Nat
  PROVE  \E after : IsAfter(after, b, Len(b))
  <1> DEFINE S == {m \in Nat : \E g : IsAfter(g, b, m)}
  <1>1. 0 \in S
    <2> DEFINE g == [n \in 0 .. 0 |-> NewMetricsResponse]
    <2>1. IsAfter(g, b, 0)
      <3>1. \A n \in 0 .. 0 : n = 0
        OBVIOUS
      <3> QED
        BY <3>1, Zenon DEF IsAfter
    <2> QED
      BY <2>1
  <1>2. ASSUME NEW m \in 0 .. Len(b) - 1, m \in S
        PROVE  m + 1 \in S
    <2>1. PICK g : IsAfter(g, b, m)
      BY <1>2
    <2> DEFINE h == [n \in 0 .. m + 1 |-> IF n = m + 1 THEN Round(g[m], b, n) ELSE g[n]]
    <2>2. ASSUME NEW n \in 0 .. m + 1
          PROVE  h[n] = IF n = 0 THEN NewMetricsResponse ELSE Round(h[n - 1], b, n)
      <3>1. CASE n = m + 1
        <4>1. n # 0 /\ n - 1 = m /\ m \in 0 .. m + 1 /\ m # m + 1
          BY <3>1
        <4>2. h[m] = g[m]
          BY <4>1, Zenon
        <4> QED
          BY <3>1, <4>1, <4>2, Zenon
      <3>2. CASE n # m + 1
        <4>1. n \in 0 .. m /\ (n # 0 => n - 1 \in 0 .. m + 1 /\ n - 1 # m + 1)
          BY <3>2
        <4>2. g[n] = IF n = 0 THEN NewMetricsResponse ELSE Round(g[n - 1], b, n)
          BY <2>1, <4>1, Zenon DEF IsAfter
        <4>3. h[n] = g[n] /\ (n # 0 => h[n - 1] = g[n - 1])
          BY <3>2, <4>1, Zenon
        <4> QED
          BY <4>2, <4>3, Zenon
      <3> QED
        BY <3>1, <3>2, Zenon
    <2>3. h = [n \in 0 .. m + 1 |-> h[n]]
      BY Zenon
    <2> HIDE DEF h
    <2>4. IsAfter(h, b, m + 1)
      BY <2>2, <2>3, Zenon DEF IsAfter
    <2> QED
      BY <2>4
  <1> HIDE DEF S
  <1>3. 0 .. Len(b) \subseteq S
    BY <1>1, <1>2, Induction, Zenon
  <1>4. Len(b) \in S
    BY <1>3
  <1> QED
    BY <1>4, Zenon DEF S

LEMMA ResponseIsAfter ==
  ASSUME NEW b, Len(b) \in Nat
  PROVE  \E after : IsAfter(after, b, Len(b)) /\ Response(b) = after[Len(b)]
  <1> DEFINE after == CHOOSE after : IsAfter(after, b, Len(b))
  <1>1. IsAfter(after, b, Len(b))
    BY AfterExists, Zenon
  <1>2. Response(b) = after[Len(b)]
    BY Zenon DEF Response, IsAfter
  <1> QED
    BY <1>1, <1>2, Zenon

\* The places of the first n metrics that are e.
Of(b, e, n) == {i \in 1 .. n : b[i].err = e}

\* Those of them before place j.
Before(b, e, n, j) == {i \in Of(b, e, n) : i < j}

\* What the response says of e after n rounds.
ExactFor(v, b, e, n) ==
  /\ v.count = Cardinality(Of(b, e, n))
  /\ v.examples \in Seq(Nat) /\ Len(v.examples) = (IF v.count < 10 THEN v.count ELSE 9)
  /\ \A k \in DOMAIN v.examples : /\ v.examples[k] \in Of(b, e, n)
                                  /\ Cardinality(Before(b, e, n, v.examples[k])) = k - 1

ExactAfter(res, b, n) ==
  /\ res.invalid \in Nat /\ res.invalid + Cardinality(Of(b, NoError, n)) = n
  /\ res.errors = [e \in Reasons |-> res.errors[e]]
  /\ \A e \in Reasons : ExactFor(res.errors[e], b, e, n)

LEMMA OfFinite ==
  ASSUME NEW b, NEW e, NEW n \in Nat
  PROVE  IsFiniteSet(Of(b, e, n)) /\ Cardinality(Of(b, e, n)) \in Nat
  <1>1. IsFiniteSet(1 .. n) /\ Of(b, e, n) \in SUBSET (1 .. n)
    BY FS_Interval DEF Of
  <1> QED
    BY <1>1, FS_Subset, FS_CardinalityType, Zenon

\* Metric n is e.
Errs(b, e, n) == b[n].err = e

LEMMA OfMore ==
  ASSUME NEW b, NEW e, NEW n \in Nat, Errs(b, e, n + 1)
  PROVE  /\ n + 1 \in Of(b, e, n + 1) /\ \A i \in Of(b, e, n) : i \in Of(b, e, n + 1)
         /\ Cardinality(Of(b, e, n + 1)) = Cardinality(Of(b, e, n)) + 1
  <1>1. (\A i : i \in 1 .. n + 1 <=> i \in 1 .. n \/ i = n + 1) /\ n + 1 \notin 1 .. n
    OBVIOUS
  <1>2. Of(b, e, n + 1) = Of(b, e, n) \cup {n + 1} /\ n + 1 \notin Of(b, e, n)
    BY <1>1, Zenon DEF Of, Errs
  <1>3. Cardinality(Of(b, e, n) \cup {n + 1}) = Cardinality(Of(b, e, n)) + 1
    BY <1>2, OfFinite, FS_AddElement, Zenon
  <1> QED
    BY <1>2, <1>3, Zenon

LEMMA OfSame ==
  ASSUME NEW b, NEW e, NEW n \in Nat, b[n + 1].err # e
  PROVE  Of(b, e, n + 1) = Of(b, e, n)
  <1>1. \A i : i \in 1 .. n + 1 <=> i \in 1 .. n \/ i = n + 1
    OBVIOUS
  <1> QED
    BY <1>1, Zenon DEF Of

\* What is before one of the first n places stays the same, and all of them
\* are before the next.
LEMMA BeforeSame ==
  ASSUME NEW b, NEW e, NEW n \in Nat, NEW j \in 1 .. n
  PROVE  Before(b, e, n + 1, j) = Before(b, e, n, j)
  BY DEF Of, Before

LEMMA BeforeNext ==
  ASSUME NEW b, NEW e, NEW n \in Nat
  PROVE  Before(b, e, n + 1, n + 1) = Of(b, e, n)
  BY DEF Of, Before

LEMMA AppendFacts ==
  ASSUME NEW x \in Seq(Nat), NEW a \in Nat
  PROVE  /\ Append(x, a) \in Seq(Nat) /\ Len(Append(x, a)) = Len(x) + 1
         /\ DOMAIN Append(x, a) = DOMAIN x \cup {Len(x) + 1}
         /\ Append(x, a)[Len(x) + 1] = a /\ \A k \in DOMAIN x : Append(x, a)[k] = x[k]
  <1>1. Append(x, a) \in Seq(Nat) /\ Len(Append(x, a)) = Len(x) + 1 /\ Len(x) \in Nat
    OBVIOUS
  <1>2. Append(x, a)[Len(x) + 1] = a /\ \A k \in 1 .. Len(x) : Append(x, a)[k] = x[k]
    OBVIOUS
  <1>3. DOMAIN x = 1 .. Len(x) /\ DOMAIN Append(x, a) = 1 .. Len(x) + 1
    BY <1>1
  <1>4. 1 .. Len(x) + 1 = (1 .. Len(x)) \cup {Len(x) + 1}
    BY <1>1
  <1> QED
    BY <1>1, <1>2, <1>3, <1>4, Zenon

\* What is added for one more metric that is e.
LEMMA AddedExact ==
  ASSUME NEW b, NEW e, NEW n \in Nat, NEW v, ExactFor(v, b, e, n), Errs(b, e, n + 1)
  PROVE  ExactFor([count |-> v.count + 1,
                   examples |-> IF v.count + 1 < 10 THEN Append(v.examples, n + 1) ELSE v.examples], b, e, n + 1)
  <1>1. PICK c, x, w : /\ c = v.count /\ x = v.examples
                       /\ w = [count |-> c + 1, examples |-> IF c + 1 < 10 THEN Append(x, n + 1) ELSE x]
    BY Zenon
  <1>2. /\ c = Cardinality(Of(b, e, n)) /\ x \in Seq(Nat) /\ Len(x) = (IF c < 10 THEN c ELSE 9)
        /\ \A k \in DOMAIN x : x[k] \in Of(b, e, n) /\ Cardinality(Before(b, e, n, x[k])) = k - 1
    BY <1>1, Zenon DEF ExactFor
  <1>3. /\ c \in Nat /\ Cardinality(Of(b, e, n + 1)) = c + 1
        /\ n + 1 \in Of(b, e, n + 1) /\ \A i \in Of(b, e, n) : i \in Of(b, e, n + 1)
    <2>1. Cardinality(Of(b, e, n)) \in Nat
      BY OfFinite, Zenon
    <2>2. Cardinality(Of(b, e, n + 1)) = Cardinality(Of(b, e, n)) + 1
      BY OfMore, Zenon
    <2>3. n + 1 \in Of(b, e, n + 1) /\ \A i \in Of(b, e, n) : i \in Of(b, e, n + 1)
      BY OfMore, Zenon
    <2> QED
      BY <1>2, <2>1, <2>2, <2>3
  <1>4. \A k \in DOMAIN x : /\ x[k] \in Of(b, e, n + 1)
                            /\ Cardinality(Before(b, e, n + 1, x[k])) = k - 1
    <2> SUFFICES ASSUME NEW k \in DOMAIN x
                 PROVE  x[k] \in Of(b, e, n + 1) /\ Cardinality(Before(b, e, n + 1, x[k])) = k - 1
      BY Zenon
    <2>1. PICK j : j = x[k]
      BY Zenon
    <2>2. j \in Of(b, e, n) /\ Cardinality(Before(b, e, n, j)) = k - 1
      BY <1>2, <2>1, Zenon
    <2>3. j \in 1 .. n
      BY <2>2, Zenon DEF Of
    <2>4. Before(b, e, n + 1, j) = Before(b, e, n, j)
      BY <2>3, BeforeSame, Zenon
    <2> QED
      BY <1>3, <2>1, <2>2, <2>4, Zenon
  <1>5. CASE c + 1 < 10
    <2>1. PICK y : y = Append(x, n + 1)
      BY Zenon
    <2>2. /\ y \in Seq(Nat) /\ Len(y) = Len(x) + 1 /\ DOMAIN y = DOMAIN x \cup {Len(x) + 1}
          /\ y[Len(x) + 1] = n + 1 /\ \A k \in DOMAIN x : y[k] = x[k]
      <3>1. x \in Seq(Nat) /\ n + 1 \in Nat
        BY <1>2
      <3> QED
        BY <2>1, <3>1, AppendFacts, Zenon
    <2>3. Len(x) = c
      BY <1>2, <1>3, <1>5
    <2>4. Before(b, e, n + 1, n + 1) = Of(b, e, n)
      BY BeforeNext, Zenon
    <2>5. \A k \in DOMAIN y : y[k] \in Of(b, e, n + 1) /\ Cardinality(Before(b, e, n + 1, y[k])) = k - 1
      <3> SUFFICES ASSUME NEW k \in DOMAIN y
                   PROVE  y[k] \in Of(b, e, n + 1) /\ Cardinality(Before(b, e, n + 1, y[k])) = k - 1
        BY Zenon
      <3>1. CASE k \in DOMAIN x
        BY <1>4, <2>2, <3>1, Zenon
      <3>2. CASE k \notin DOMAIN x
        <4>1. k = Len(x) + 1
          BY <2>2, <3>2, Zenon
        <4>2. y[k] = n + 1 /\ n + 1 \in Of(b, e, n + 1)
          BY <1>3, <2>2, <4>1, Zenon
        <4>3. Cardinality(Before(b, e, n + 1, y[k])) = c
          BY <1>2, <2>4, <4>2, Zenon
        <4>4. k - 1 = c
          BY <1>3, <2>3, <4>1
        <4> QED
          BY <4>2, <4>3, <4>4, Zenon
      <3> QED
        BY <3>1, <3>2, Zenon
    <2>6. w.count = c + 1 /\ w.examples = y
      BY <1>1, <1>5, <2>1
    <2>7. Len(y) = (IF c + 1 < 10 THEN c + 1 ELSE 9)
      BY <1>5, <2>2, <2>3
    <2>8. ExactFor(w, b, e, n + 1)
      BY <1>3, <2>2, <2>5, <2>6, <2>7, Zenon DEF ExactFor
    <2> QED
      BY <1>1, <2>8, Zenon
  <1>6. CASE ~ (c + 1 < 10)
    <2>1. w.count = c + 1 /\ w.examples = x
      BY <1>1, <1>6
    <2>2. Len(x) = (IF c + 1 < 10 THEN c + 1 ELSE 9)
      BY <1>2, <1>3, <1>6
    <2>3. ExactFor(w, b, e, n + 1)
      BY <1>2, <1>3, <1>4, <2>1, <2>2, Zenon DEF ExactFor
    <2> QED
      BY <1>1, <2>3, Zenon
  <1> QED
    BY <1>5, <1>6, Zenon

\* A round on a metric with another error.
LEMMA OtherExact ==
  ASSUME NEW b, NEW e, NEW n \in Nat, NEW v, ExactFor(v, b, e, n), b[n + 1].err # e
  PROVE  ExactFor(v, b, e, n + 1)
  <1>1. Of(b, e, n + 1) = Of(b, e, n)
    BY OfSame, Zenon
  <1> QED
    BY <1>1, Zenon DEF ExactFor, Before

LEMMA RoundExact ==
  ASSUME NEW b, NEW n \in Nat, NEW res, ExactAfter(res, b, n), b[n + 1].err \in Reasons \cup {NoError}
  PROVE  ExactAfter(Round(res, b, n + 1), b, n + 1)
  <1>1. PICK e : e = b[n + 1].err
    BY Zenon
  <1>2. PICK c : c = Cardinality(Of(b, NoError, n)) /\ c \in Nat
    BY OfFinite, Zenon
  <1>3. res.invalid \in Nat /\ res.invalid + c = n /\ res.errors = [d \in Reasons |-> res.errors[d]]
    BY <1>2, Zenon DEF ExactAfter
  <1>4. CASE e = NoError
    <2>1. Round(res, b, n + 1) = res
      BY <1>1, <1>4, Zenon DEF Round
    <2>2. Cardinality(Of(b, NoError, n + 1)) = c + 1
      <3>1. Cardinality(Of(b, NoError, n + 1)) = Cardinality(Of(b, NoError, n)) + 1
        <4>1. Errs(b, NoError, n + 1)
          BY <1>1, <1>4, Zenon DEF Errs
        <4> QED
          BY <4>1, OfMore, Zenon
      <3> QED
        BY <1>2, <3>1
    <2>3. \A d \in Reasons : ExactFor(res.errors[d], b, d, n + 1)
      BY <1>1, <1>4, IngestAssumption, OtherExact, Zenon DEF ExactAfter
    <2>4. res.invalid + (c + 1) = n + 1
      BY <1>2, <1>3
    <2> QED
      BY <1>3, <2>1, <2>2, <2>3, <2>4, Zenon DEF ExactAfter
  <1>5. CASE e # NoError
    <2>1. e \in Reasons
      BY <1>1, <1>5, Zenon
    <2>2. PICK v, w : /\ v = res.errors[e]
                      /\ w = [count |-> v.count + 1,
                              examples |-> IF v.count + 1 < 10 THEN Append(v.examples, n + 1) ELSE v.examples]
      BY Zenon
    <2>3. Errs(b, e, n + 1)
      BY <1>1, Zenon DEF Errs
    <2>4. ExactFor(w, b, e, n + 1)
      BY <2>1, <2>2, <2>3, AddedExact, Zenon DEF ExactAfter
    <2>5. PICK new : new = Round(res, b, n + 1)
      BY Zenon
    <2>6. new = [invalid |-> res.invalid + 1, errors |-> [res.errors EXCEPT ![e] = w]]
      BY <1>1, <1>5, <2>2, <2>5, Zenon DEF Round, AddInvalid
    <2>7. new.invalid = res.invalid + 1 /\ new.errors = [res.errors EXCEPT ![e] = w]
      BY <2>6, Zenon
    <2>8. /\ new.errors = [d \in Reasons |-> new.errors[d]] /\ new.errors[e] = w
          /\ \A d \in Reasons \ {e} : new.errors[d] = res.errors[d]
      BY <1>3, <2>1, <2>7, Zenon
    <2>9. \A d \in Reasons : ExactFor(new.errors[d], b, d, n + 1)
      <3>1. \A d \in Reasons \ {e} : ExactFor(res.errors[d], b, d, n + 1)
        BY <1>1, OtherExact, Zenon DEF ExactAfter
      <3> QED
        BY <2>8, <2>4, <3>1, Zenon
    <2>10. Of(b, NoError, n + 1) = Of(b, NoError, n)
      BY <1>1, <1>5, OfSame, Zenon
    <2>11. new.invalid \in Nat /\ new.invalid + c = n + 1
      BY <1>2, <1>3, <2>7
    <2> QED
      BY <1>2, <2>5, <2>8, <2>9, <2>10, <2>11, Zenon DEF ExactAfter
  <1> QED
    BY <1>4, <1>5, Zenon

LEMMA NewExact == ASSUME NEW b PROVE ExactAfter(NewMetricsResponse, b, 0)
  <1>1. \A e : Of(b, e, 0) = {}
    BY DEF Of
  <1>2. Cardinality({}) = 0
    BY FS_EmptySet
  <1>3. /\ NewMetricsResponse.invalid = 0
        /\ NewMetricsResponse.errors = [e \in Reasons |-> [count |-> 0, examples |-> <<>>]]
    BY Zenon DEF NewMetricsResponse
  <1>4. ASSUME NEW e \in Reasons
        PROVE  ExactFor(NewMetricsResponse.errors[e], b, e, 0)
    <2>1. PICK v : v = NewMetricsResponse.errors[e]
      BY Zenon
    <2>2. v = [count |-> 0, examples |-> <<>>]
      BY <1>3, <2>1, Zenon
    <2>3. v.count = 0 /\ v.examples = <<>>
      BY <2>2, Zenon
    <2>4. <<>> \in Seq(Nat) /\ Len(<<>>) = 0 /\ DOMAIN <<>> = {} /\ 0 < 10
      OBVIOUS
    <2> QED
      BY <1>1, <1>2, <2>1, <2>3, <2>4, Zenon DEF ExactFor
  <1>5. 0 \in Nat /\ 0 + 0 = 0
    OBVIOUS
  <1> QED
    BY <1>1, <1>2, <1>3, <1>4, <1>5, Zenon DEF ExactAfter

\* The loop over a body, for every body.
LEMMA ResponseExact ==
  ASSUME NEW b \in Bodies
  PROVE  ExactAfter(Response(b), b, Len(b))
  <1>1. Len(b) \in Nat /\ DOMAIN b = 1 .. Len(b) /\ \A i \in 1 .. Len(b) : b[i].err \in Reasons \cup {NoError}
    <2>1. b \in Seq({b[i] : i \in DOMAIN b}) /\ \A i \in DOMAIN b : b[i].err \in Reasons \cup {NoError}
      BY IngestAssumption, Zenon
    <2>2. Len(b) \in Nat /\ DOMAIN b = 1 .. Len(b)
      BY <2>1
    <2> QED
      BY <2>1, <2>2, Zenon
  <1>2. PICK after : IsAfter(after, b, Len(b)) /\ Response(b) = after[Len(b)]
    BY <1>1, ResponseIsAfter, Zenon
  <1> DEFINE S == {n \in 0 .. Len(b) : ExactAfter(after[n], b, n)}
  <1>3. 0 \in S
    <2>1. 0 \in 0 .. Len(b)
      BY <1>1
    <2>2. after[0] = NewMetricsResponse
      BY <1>2, <2>1, Zenon DEF IsAfter
    <2> QED
      BY <2>1, <2>2, NewExact, Zenon
  <1>4. ASSUME NEW n \in 0 .. Len(b) - 1, n \in S
        PROVE  n + 1 \in S
    <2>1. n \in Nat /\ n + 1 \in 1 .. Len(b) /\ n + 1 \in 0 .. Len(b) /\ n + 1 # 0 /\ (n + 1) - 1 = n
      BY <1>1
    <2>2. after[n + 1] = Round(after[n], b, n + 1)
      BY <1>2, <2>1, Zenon DEF IsAfter
    <2>3. ExactAfter(after[n], b, n) /\ b[n + 1].err \in Reasons \cup {NoError}
      BY <1>1, <1>4, <2>1, Zenon
    <2>4. ExactAfter(Round(after[n], b, n + 1), b, n + 1)
      BY <2>1, <2>3, RoundExact, Zenon
    <2> QED
      BY <2>1, <2>2, <2>4, Zenon
  <1>5. 0 .. Len(b) \subseteq S
    <2> HIDE DEF S
    <2> QED
      BY <1>1, <1>3, <1>4, Induction, Zenon
  <1>6. Len(b) \in 0 .. Len(b)
    BY <1>1
  <1> QED
    BY <1>2, <1>5, <1>6, Zenon

\* From prepareIngest on, a request has its body, the batch and the response.
Parsed(r) ==
  st[r] \in {"limit", "wait", "check", "publish"} =>
    /\ body[r] \in Bodies /\ resp[r] = Response(body[r])
    /\ DOMAIN batch[r] = {i \in DOMAIN body[r] : body[r][i].err = NoError}

ParseInv ==
  /\ body = [r \in Requests |-> body[r]] /\ resp = [r \in Requests |-> resp[r]]
  /\ \A r \in Requests : Parsed(r)

\* A step of r after which r is parsed.
LEMMA StepParsed ==
  ASSUME ParseInv, NEW r \in Requests, Parsed(r)',
         body' = [q \in Requests |-> body'[q]], resp' = [q \in Requests |-> resp'[q]],
         \A q \in Requests \ {r} : UNCHANGED <<st[q], body[q], resp[q], batch[q]>>
  PROVE  ParseInv'
  <1>1. ASSUME NEW q \in Requests \ {r}
        PROVE  Parsed(q)'
    <2>1. Parsed(q) /\ UNCHANGED <<st[q], body[q], resp[q], batch[q]>>
      BY DEF ParseInv
    <2> QED
      BY <2>1, Zenon DEF Parsed
  <1> QED
    BY <1>1, Zenon DEF ParseInv

LEMMA AnswerParsed ==
  ASSUME PayInv, ParseInv, NEW r \in Requests, NEW a \in Answers, Answer(r, a)
  PROVE  ParseInv'
  <1>1. /\ body' = [q \in Requests |-> body'[q]] /\ resp' = [q \in Requests |-> resp'[q]] /\ st'[r] = a
        /\ \A q \in Requests \ {r} : UNCHANGED <<st[q], body[q], resp[q], batch[q]>>
    BY Zenon DEF Answer, Goto, PayInv, Shape, ParseInv
  <1>2. Parsed(r)'
    BY <1>1 DEF Parsed, Answers
  <1> QED
    BY <1>1, <1>2, StepParsed, Zenon

LEMMA PrepareIngestParsed ==
  ASSUME PayInv, ParseInv, NEW r \in Requests, NEW b \in Bodies, PrepareIngest(r, b)
  PROVE  ParseInv'
  <1>1. /\ body' = [body EXCEPT ![r] = b] /\ resp' = [resp EXCEPT ![r] = Response(b)]
        /\ batch' = [batch EXCEPT ![r] = ToPublish(r, b)]
        /\ \E s : st' = [st EXCEPT ![r] = s]
    BY Zenon DEF PrepareIngest, Goto
  <1>2. /\ body' = [q \in Requests |-> body'[q]] /\ resp' = [q \in Requests |-> resp'[q]]
        /\ \A q \in Requests \ {r} : UNCHANGED <<st[q], body[q], resp[q], batch[q]>>
        /\ body'[r] = b /\ resp'[r] = Response(b) /\ batch'[r] = ToPublish(r, b)
    BY <1>1, Zenon DEF PayInv, Shape, ParseInv
  <1>3. DOMAIN ToPublish(r, b) = {i \in DOMAIN b : b[i].err = NoError}
    BY DEF ToPublish
  <1>4. Parsed(r)'
    <2>1. Response(b)' = Response(b)
      BY DEF Response, Round, AddInvalid, NewMetricsResponse
    <2> QED
      BY <1>2, <1>3, <2>1, Zenon DEF Parsed
  <1> QED
    BY <1>2, <1>4, StepParsed, Zenon

LEMMA NextParsed ==
  ASSUME PayInv, ParseInv, [Next]_vars
  PROVE  ParseInv'
  <1>1. ASSUME NEW r \in Requests,
               \/ RateLimitCanceled(r) \/ WaitN(r) \/ WaitOver(r) \/ WaitCanceled(r)
               \/ (Check(r) /\ ~ GivenUp(r))
        PROVE  ParseInv'
    <2>1. /\ UNCHANGED <<body, resp, batch>> /\ \E s : st' = [st EXCEPT ![r] = s]
          /\ st[r] \in {"limit", "wait", "check", "publish"}
      BY <1>1, Zenon DEF RateLimitCanceled, WaitN, WaitOver, WaitCanceled, Check, Goto, data
    <2>2. Parsed(r)'
      BY <2>1, Zenon DEF ParseInv, Parsed
    <2>3. /\ body' = [q \in Requests |-> body'[q]] /\ resp' = [q \in Requests |-> resp'[q]]
          /\ \A q \in Requests \ {r} : UNCHANGED <<st[q], body[q], resp[q], batch[q]>>
      BY <2>1, Zenon DEF PayInv, Shape, ParseInv
    <2> QED
      BY <2>2, <2>3, StepParsed, Zenon
  <1>2. ASSUME NEW r \in Requests, RefuseBody(r) \/ TooLarge(r) \/ Publish(r) \/ (Check(r) /\ GivenUp(r))
        PROVE  ParseInv'
    <2>1. \E a \in Answers : Answer(r, a)
      BY <1>2, Zenon DEF RefuseBody, TooLarge, Publish, Check, Answers
    <2> QED
      BY <2>1, AnswerParsed, Zenon
  <1>3. ASSUME NEW r \in Requests, NEW s \in Senders,
               Unauthorized(r, s) \/ Allow(r, s) \/ Reject(r, s) \/ PassUnlimited(r, s)
        PROVE  ParseInv'
    <2>1. UNCHANGED <<body, resp, batch>> /\ (\E a \in {"refused", "body"} : st' = [st EXCEPT ![r] = a])
      BY <1>3, Zenon DEF Unauthorized, Allow, Reject, PassUnlimited, Arrive, Goto, data
    <2>2. st'[r] \in {"refused", "body"}
      BY <2>1, Zenon DEF PayInv, Shape
    <2>3. Parsed(r)'
      BY <2>2 DEF Parsed
    <2>4. /\ body' = [q \in Requests |-> body'[q]] /\ resp' = [q \in Requests |-> resp'[q]]
          /\ \A q \in Requests \ {r} : UNCHANGED <<st[q], body[q], resp[q], batch[q]>>
      BY <2>1, Zenon DEF PayInv, Shape, ParseInv
    <2> QED
      BY <2>3, <2>4, StepParsed, Zenon
  <1>4. CASE Tick \/ UNCHANGED vars \/ \E r \in Requests : Cancel(r)
    <2>1. UNCHANGED <<st, body, resp, batch>>
      BY <1>4, Zenon DEF Tick, vars, Cancel, data
    <2> QED
      BY <2>1, Zenon DEF ParseInv, Parsed
  <1> QED
    BY <1>1, <1>2, <1>3, <1>4, PrepareIngestParsed, Zenon DEF Next, Step

\* What the handler answers accounts for each metric of the body, for bodies of
\* every length: by induction over the rounds of its loop.
THEOREM ResponsesAreExact == Spec => []ResponseIsExact
  <1>1. Init => ParseInv
    <2> SUFFICES ASSUME Init
                 PROVE  ParseInv
      OBVIOUS
    <2>1. \A r \in Requests : st[r] = "new"
      BY Zenon DEF Init
    <2>2. \A r \in Requests : Parsed(r)
      BY <2>1 DEF Parsed
    <2> QED
      BY <2>2, Zenon DEF Init, ParseInv
  <1>2. ParseInv => ResponseIsExact
    <2> SUFFICES ASSUME ParseInv, NEW r \in Requests, st[r] = "publish"
                 PROVE  /\ resp[r].invalid + Size(r) = Len(body[r])
                        /\ \A e \in Reasons :
                             LET v == resp[r].errors[e]
                                 At == {i \in DOMAIN body[r] : body[r][i].err = e}
                             IN  /\ v.count = Cardinality(At)
                                 /\ Len(v.examples) <= 10 /\ (At # {} => v.examples # <<>>)
                                 /\ \A k \in DOMAIN v.examples :
                                      v.examples[k] \in At /\ Cardinality({i \in At : i < v.examples[k]}) = k - 1
      BY Zenon DEF ResponseIsExact
    <2>1. PICK b \in Bodies : b = body[r]
      BY DEF ParseInv, Parsed
    <2>2. ExactAfter(resp[r], b, Len(b)) /\ DOMAIN batch[r] = {i \in DOMAIN b : b[i].err = NoError}
      BY <2>1, ResponseExact DEF ParseInv, Parsed
    <2>3. Len(b) \in Nat /\ DOMAIN b = 1 .. Len(b)
      <3>1. b \in Seq({b[i] : i \in DOMAIN b})
        BY IngestAssumption, Zenon
      <3> QED
        BY <3>1
    <2>4. \A e : Of(b, e, Len(b)) = {i \in DOMAIN body[r] : body[r][i].err = e}
      BY <2>1, <2>3, Zenon DEF Of
    <2>5. resp[r].invalid + Size(r) = Len(body[r])
      BY <2>1, <2>2, <2>4, Zenon DEF ExactAfter, Size
    <2>6. ASSUME NEW e \in Reasons
          PROVE  LET v == resp[r].errors[e]
                     At == {i \in DOMAIN body[r] : body[r][i].err = e}
                 IN  /\ v.count = Cardinality(At)
                     /\ Len(v.examples) <= 10 /\ (At # {} => v.examples # <<>>)
                     /\ \A k \in DOMAIN v.examples :
                          v.examples[k] \in At /\ Cardinality({i \in At : i < v.examples[k]}) = k - 1
      <3>1. PICK v, At : v = resp[r].errors[e] /\ At = Of(b, e, Len(b))
        BY Zenon
      <3>2. ExactFor(v, b, e, Len(b))
        BY <2>2, <3>1, Zenon DEF ExactAfter
      <3>3. /\ v.count = Cardinality(At) /\ v.examples \in Seq(Nat)
            /\ Len(v.examples) = (IF v.count < 10 THEN v.count ELSE 9)
            /\ \A k \in DOMAIN v.examples :
                 v.examples[k] \in At /\ Cardinality({i \in At : i < v.examples[k]}) = k - 1
        BY <3>1, <3>2, Zenon DEF ExactFor, Before
      <3>4. IsFiniteSet(At) /\ Cardinality(At) \in Nat
        BY <2>3, <3>1, OfFinite, Zenon
      <3>5. At # {} => Cardinality(At) # 0
        BY <3>4, FS_EmptySet, Zenon
      <3>6. Len(v.examples) <= 10 /\ (Cardinality(At) # 0 => Len(v.examples) # 0)
        BY <3>3, <3>4
      <3>7. Len(<<>>) = 0
        OBVIOUS
      <3>8. At # {} => v.examples # <<>>
        BY <3>5, <3>6, <3>7, Zenon
      <3> QED
        BY <2>4, <3>1, <3>3, <3>6, <3>8, Zenon
    <2> QED
      BY <2>5, <2>6, Zenon
  <1> QED
    BY <1>1, <1>2, InitPay, NextPay, NextParsed, PTL DEF Spec
=============================================================================
