------------------------- MODULE RateLimiterProofs -------------------------
(***************************************************************************)
(* The buckets of a process keep the promise of a token bucket.            *)
(***************************************************************************)
EXTENDS RateLimiter, TLAPS

----------------------------------------------------------------------------
(* Types *)

LEMMA HalvedType == ASSUME NEW m \in Mults PROVE Halved(m) \in Mults
BY DEF Mults, Halved

LEMMA UnusedType == Unused \in Bucket
BY DEF Unused, Bucket, Full, Mults

LEMMA CapacityType == ASSUME NEW b \in Buckets PROVE Capacity(b) \in Nat /\ Rate[b] \in Nat
<1>1. Rate[b] \in Nat /\ Second \in Nat
  BY RateAssumption
<1>2. Rate[b] * Full \in Nat
  BY <1>1 DEF Full
<1> QED BY <1>1, <1>2 DEF Capacity

LEMMA LifetimeType == ASSUME NEW k \in Bucket PROVE Lifetime(k) \in Nat
<1>1. Full \div k.mult \in Nat
  BY DEF Bucket, Mults, Full
<1>2. Second \in Nat
  BY RateAssumption
<1> QED BY <1>1, <1>2 DEF Lifetime

LEMMA StoredType ==
  ASSUME TypeOK, NEW w \in Stores, NEW b \in Buckets PROVE Stored(w, b) \in Bucket
BY UnusedType DEF TypeOK, Stored

LEMMA AvailableType ==
  ASSUME NEW b \in Buckets, NEW k \in Bucket, NEW t \in Nat
  PROVE  Available(b, k, t) \in Nat /\ Available(b, k, t) <= Capacity(b)
<1>1. Elapsed(k, t) \in Nat /\ k.tokens \in Nat /\ k.mult \in Nat /\ Rate[b] \in Nat
  BY CapacityType DEF Elapsed, Bucket, Mults
<1>2. Elapsed(k, t) * (Rate[b] * k.mult) \in Nat
  BY <1>1
<1> QED BY <1>1, <1>2, CapacityType DEF Available

LEMMA ServedType ==
  ASSUME TypeOK, NEW w \in Stores, NEW b \in Buckets, NEW t \in Nat
  PROVE  Served(w, b, t) \in Bucket
<1> DEFINE k == Stored(w, b)
<1> DEFINE had == Available(b, k, t)
<1>1. k \in Bucket /\ had \in Nat /\ Cost \in Nat /\ now \in Nat
  BY StoredType, AvailableType, NumberAssumption DEF TypeOK
<1>2. now + Lifetime(k) \in Nat
  BY <1>1, LifetimeType
<1> HIDE DEF k, had
<1>3. had < Cost \/ had >= Cost
  BY <1>1
<1>4. had >= Cost => had - Cost \in Nat
  BY <1>1
<1>5. Served(w, b, t) = CASE had < Cost -> [k EXCEPT !.known = TRUE, !.last = t, !.tokens = had]
         [] had >= Cost /\ w = "local" -> [k EXCEPT !.known = TRUE, !.last = t, !.tokens = had - Cost]
         [] had >= Cost /\ w = "redis" ->
              [k EXCEPT !.known = TRUE, !.last = t, !.tokens = had - Cost, !.expires = now + Lifetime(k)]
  BY DEF Served, k, had
<1> QED BY <1>1, <1>2, <1>3, <1>4, <1>5 DEF Bucket, Stores

LEMMA ServeType ==
  ASSUME TypeOK, NEW w \in Stores, NEW b \in Buckets, NEW t \in Nat, Serve(w, b, t)
  PROVE  store' \in [Stores -> [Buckets -> Bucket]] /\ taken' \in [Buckets -> Nat]
<1>1. store' \in [Stores -> [Buckets -> Bucket]]
  BY ServedType DEF Serve, TypeOK
<1>2. taken' \in [Buckets -> Nat]
  BY NumberAssumption DEF Serve, TypeOK
<1> QED BY <1>1, <1>2

\* The types of a caller's states, one by one.
LEMMA CallTypes ==
  ASSUME TypeOK, NEW c \in Callers
  PROVE  /\ At(c, {"ask", "sent", "local"}) =>
              call[c].start \in Nat /\ call[c].next \in Positions(c) /\ Key(c) \in Buckets
         /\ At(c, {"sent"}) => call[c].stamp \in Nat
         /\ At(c, {"sleep"}) => call[c].start \in Nat
         /\ At(c, {"halve"}) => call[c].mult \in Mults
<1>1. call[c] \in Calls(c)
  BY DEF TypeOK
<1>2. Route[c] \in Seq(Buckets)
  BY PlanAssumption
<1>3. \A i \in Positions(c) : Route[c][i] \in Buckets
  BY <1>2 DEF Positions
<1>4. CASE call[c] \in [at : {"idle", "load", "request", "report", "slow"}]
  BY <1>4 DEF At
<1>5. CASE call[c] \in [at : {"ask", "local"}, start : Nat, next : Positions(c)]
  BY <1>3, <1>5 DEF At, Key
<1>6. CASE call[c] \in [at : {"sent"}, start : Nat, next : Positions(c), stamp : Nat]
  BY <1>3, <1>6 DEF At, Key
<1>7. CASE call[c] \in [at : {"sleep"}, start : Nat, until : Nat]
  BY <1>7 DEF At
<1>9. CASE call[c] \in [at : {"halve"}, mult : Mults]
  BY <1>9 DEF At
<1> QED BY <1>1, <1>4, <1>5, <1>6, <1>7, <1>9 DEF Calls

LEMMA BecomesType ==
  ASSUME TypeOK, NEW c \in Callers, NEW state \in Calls(c), Becomes(c, state)
  PROVE  DOMAIN call' = Callers /\ \A d \in Callers : call'[d] \in Calls(d)
BY DEF TypeOK, Becomes

LEMMA StatesInCalls ==
  ASSUME NEW c \in Callers
  PROVE  /\ \A p \in {"idle", "load", "request", "report", "slow"} : [at |-> p] \in Calls(c)
         /\ \A s \in Nat, n \in Positions(c) :
              /\ [at |-> "ask", start |-> s, next |-> n] \in Calls(c)
              /\ [at |-> "local", start |-> s, next |-> n] \in Calls(c)
              /\ \A t \in Nat : [at |-> "sent", start |-> s, next |-> n, stamp |-> t] \in Calls(c)
         /\ \A s, t \in Nat : [at |-> "sleep", start |-> s, until |-> t] \in Calls(c)
         /\ \A m \in Mults : [at |-> "halve", mult |-> m] \in Calls(c)
<1> USE DEF Calls
<1>1. \A p \in {"idle", "load", "request", "report", "slow"} : [at |-> p] \in Calls(c)
  OBVIOUS
<1>2. ASSUME NEW s \in Nat, NEW n \in Positions(c)
      PROVE  /\ [at |-> "ask", start |-> s, next |-> n] \in Calls(c)
             /\ [at |-> "local", start |-> s, next |-> n] \in Calls(c)
  OBVIOUS
<1>3. ASSUME NEW s \in Nat, NEW n \in Positions(c), NEW t \in Nat
      PROVE  [at |-> "sent", start |-> s, next |-> n, stamp |-> t] \in Calls(c)
  OBVIOUS
<1>4. ASSUME NEW s \in Nat, NEW t \in Nat PROVE [at |-> "sleep", start |-> s, until |-> t] \in Calls(c)
  OBVIOUS
<1>5. ASSUME NEW m \in Mults PROVE [at |-> "halve", mult |-> m] \in Calls(c)
  OBVIOUS
<1> QED BY <1>1, <1>2, <1>3, <1>4, <1>5

LEMMA AnsweredType ==
  ASSUME TypeOK, NEW c \in Callers, At(c, {"ask", "sent", "local"}),
         NEW granted \in BOOLEAN, Answered(c, granted)
  PROVE  DOMAIN call' = Callers /\ \A d \in Callers : call'[d] \in Calls(d)
<1>1. call[c].start \in Nat /\ call[c].next \in Positions(c) /\ Len(Route[c]) \in Nat
  BY CallTypes, PlanAssumption
<1>2. CASE granted /\ call[c].next < Len(Route[c])
           /\ Becomes(c, [at |-> "ask", start |-> call[c].start, next |-> call[c].next + 1])
  <2>1. call[c].next + 1 \in Positions(c)
    BY <1>1, <1>2 DEF Positions
  <2> QED BY <1>1, <1>2, <2>1, StatesInCalls, BecomesType
<1>3. CASE Becomes(c, [at |-> "request"])
  BY <1>3, StatesInCalls, BecomesType
<1>4. CASE Becomes(c, [at |-> "sleep", start |-> call[c].start,
                       until |-> IF now + Nap < MaxTime THEN now + Nap ELSE MaxTime])
  <2>1. (IF now + Nap < MaxTime THEN now + Nap ELSE MaxTime) \in Nat
    BY NumberAssumption DEF TypeOK
  <2> QED BY <1>1, <1>4, <2>1, StatesInCalls, BecomesType
<1> QED BY <1>2, <1>3, <1>4 DEF Answered

LEMMA TypeInit == Init => TypeOK
<1> SUFFICES ASSUME Init PROVE TypeOK
  OBVIOUS
<1>1. store \in [Stores -> [Buckets -> Bucket]]
  BY UnusedType DEF Init
<1>2. \A c \in Callers : Idle \in Calls(c)
  BY StatesInCalls DEF Idle
<1>3. DOMAIN call = Callers /\ \A c \in Callers : call[c] \in Calls(c)
  BY <1>2 DEF Init
<1> QED BY <1>1, <1>3 DEF Init, TypeOK

LEMMA EnterType ==
  ASSUME TypeOK, NEW c \in Callers, EnterLoop(c)
  PROVE  DOMAIN call' = Callers /\ \A d \in Callers : call'[d] \in Calls(d)
<1>1. Len(Route[c]) \in Nat \ {0}
  BY PlanAssumption
<1>2. now \in Nat /\ 1 \in Positions(c)
  BY <1>1 DEF TypeOK, Positions
<1> QED BY <1>2, StatesInCalls, BecomesType DEF EnterLoop

LEMMA AcquireType ==
  ASSUME TypeOK, NEW c \in Callers, Begin(c) \/ Acquire(c)
  PROVE  TypeOK'
<1>1. UNCHANGED <<now, opened>>
  BY DEF Begin, Acquire, Load, Send, Evaluate, EvaluateFails, AcquireLocally, Wake
<1>2. scripting' \in [Limiters -> {"unknown", "yes", "no"}]
  BY DEF TypeOK, Begin, Acquire, Load, Send, Evaluate, EvaluateFails, AcquireLocally, Wake
<1>3. store' \in [Stores -> [Buckets -> Bucket]] /\ taken' \in [Buckets -> Nat]
  <2>1. CASE UNCHANGED <<store, taken>>
    BY <2>1 DEF TypeOK
  <2>2. CASE At(c, {"sent"}) /\ Serve("redis", Key(c), call[c].stamp)
    <3>1. Key(c) \in Buckets /\ call[c].stamp \in Nat
      BY <2>2, CallTypes DEF At
    <3> QED BY <2>2, <3>1, ServeType DEF Stores
  <2>3. CASE AcquireLocally(c)
    <3>1. Key(c) \in Buckets /\ now \in Nat
      BY <2>3, CallTypes DEF AcquireLocally, At, TypeOK
    <3> QED BY <2>3, <3>1, ServeType DEF AcquireLocally, Stores
  <2> QED BY <2>1, <2>2, <2>3 DEF Begin, Acquire, Load, Send, Evaluate, EvaluateFails, Wake
<1>4. DOMAIN call' = Callers /\ \A d \in Callers : call'[d] \in Calls(d)
  <2>1. CASE Begin(c) \/ Load(c)
    BY <2>1, EnterType, BecomesType, StatesInCalls DEF Begin, Load
  <2>2. CASE Send(c) \/ EvaluateFails(c)
    <3>1. call[c].start \in Nat /\ call[c].next \in Positions(c) /\ now \in Nat
      BY <2>2, CallTypes DEF Send, EvaluateFails, At, TypeOK
    <3>2. \/ Becomes(c, [at |-> "sent", start |-> call[c].start, next |-> call[c].next, stamp |-> now])
          \/ Becomes(c, [at |-> "local", start |-> call[c].start, next |-> call[c].next])
      BY <2>2 DEF Send, EvaluateFails
    <3>3. /\ [at |-> "sent", start |-> call[c].start, next |-> call[c].next, stamp |-> now] \in Calls(c)
          /\ [at |-> "local", start |-> call[c].start, next |-> call[c].next] \in Calls(c)
      BY <3>1, StatesInCalls
    <3>4. CASE Becomes(c, [at |-> "sent", start |-> call[c].start, next |-> call[c].next, stamp |-> now])
      BY <3>3, <3>4, BecomesType
    <3>5. CASE Becomes(c, [at |-> "local", start |-> call[c].start, next |-> call[c].next])
      BY <3>3, <3>5, BecomesType
    <3> QED BY <3>2, <3>4, <3>5
  <2>3. CASE Evaluate(c) \/ AcquireLocally(c)
    <3>1. At(c, {"ask", "sent", "local"})
      BY <2>3 DEF Evaluate, AcquireLocally, At
    <3> DEFINE remote == Grants("redis", Key(c), call[c].stamp)
    <3> DEFINE local == Grants("local", Key(c), now)
    <3>2. remote \in BOOLEAN /\ local \in BOOLEAN
      BY DEF Grants
    <3>3. Answered(c, remote) \/ Answered(c, local)
      BY <2>3 DEF Evaluate, AcquireLocally
    <3> HIDE DEF remote, local
    <3> QED BY <3>1, <3>2, <3>3, AnsweredType
  <2>4. CASE Wake(c)
    <3>1. call[c].start \in Nat
      BY <2>4, CallTypes DEF Wake
    <3>2. 1 \in Positions(c)
      BY PlanAssumption DEF Positions
    <3> QED BY <2>4, <3>1, <3>2, BecomesType, StatesInCalls DEF Wake, Idle
  <2> QED BY <2>1, <2>2, <2>3, <2>4 DEF Acquire
<1> QED BY <1>1, <1>2, <1>3, <1>4 DEF TypeOK

LEMMA ReportType ==
  ASSUME TypeOK, NEW c \in Callers, Reply(c) \/ Report(c)
  PROVE  TypeOK'
<1> DEFINE d == Domain[c]
<1>1. UNCHANGED <<now, opened, taken>>
  BY DEF Reply, Report, ReportRead, ReportWrite, ReportFails, ReportLocally
<1>2. scripting' \in [Limiters -> {"unknown", "yes", "no"}]
  BY DEF TypeOK, Reply, Report, ReportRead, ReportWrite, ReportFails, ReportLocally
<1>3. d \in Buckets /\ \A w \in Stores : Stored(w, d) \in Bucket /\ store[w][d] \in Bucket
  BY PlanAssumption, StoredType DEF TypeOK
<1>4. store' \in [Stores -> [Buckets -> Bucket]]
  <2>1. CASE UNCHANGED store
    BY <2>1 DEF TypeOK
  <2>2. CASE At(c, {"halve"}) /\ store' = [store EXCEPT !["redis"][d] =
                                             [Stored("redis", d) EXCEPT !.mult = Halved(call[c].mult)]]
    <3>1. Halved(call[c].mult) \in Mults
      BY <2>2, CallTypes, HalvedType
    <3>2. [Stored("redis", d) EXCEPT !.mult = Halved(call[c].mult)] \in Bucket
      BY <1>3, <3>1 DEF Bucket, Stores
    <3> QED BY <2>2, <3>2 DEF TypeOK
  <2>3. CASE ReportLocally(c)
    <3> DEFINE k == store["local"][d]
    <3> DEFINE bucket == IF k.known THEN k ELSE [Unused EXCEPT !.known = TRUE, !.last = now]
    <3>1. bucket \in Bucket
      BY <1>3, UnusedType DEF Bucket, Stores, TypeOK
    <3>2. bucket.mult \in Mults
      BY <3>1 DEF Bucket
    <3>3. [bucket EXCEPT !.mult = Halved(bucket.mult)] \in Bucket
      <4> HIDE DEF bucket
      <4> QED BY <3>1, <3>2, HalvedType DEF Bucket
    <3>4. store' = [store EXCEPT !["local"][d] = [bucket EXCEPT !.mult = Halved(bucket.mult)]]
      BY <2>3 DEF ReportLocally
    <3> HIDE DEF bucket
    <3> QED BY <3>3, <3>4 DEF TypeOK
  <2> QED BY <2>1, <2>2, <2>3 DEF Reply, Report, ReportRead, ReportWrite, ReportFails
<1>5. DOMAIN call' = Callers /\ \A e \in Callers : call'[e] \in Calls(e)
  <2>1. Stored("redis", d).mult \in Mults
    BY <1>3 DEF Bucket, Stores
  <2> QED
    BY <2>1, BecomesType, StatesInCalls
       DEF Reply, Report, ReportRead, ReportWrite, ReportFails, ReportLocally, Idle
<1> QED BY <1>1, <1>2, <1>4, <1>5 DEF TypeOK

LEMMA TypeStep == TypeOK /\ [Next]_vars => TypeOK'
<1> SUFFICES ASSUME TypeOK, [Next]_vars PROVE TypeOK'
  OBVIOUS
<1>1. CASE UNCHANGED vars
  BY <1>1 DEF vars, TypeOK
<1>2. CASE Tick \/ OpenWindow
  BY <1>2 DEF Tick, OpenWindow, TypeOK
<1>3. CASE \E c \in Callers : Begin(c) \/ Acquire(c) \/ Reply(c) \/ Report(c)
  BY <1>3, AcquireType, ReportType
<1> QED BY <1>1, <1>2, <1>3 DEF Next

\* Every reachable state of the limiter is well typed: in particular no bucket is
\* overdrawn, and no multiplier leaves the floor of 0.1.
THEOREM LimiterTypeCorrect == Spec => []TypeOK
BY TypeInit, TypeStep, PTL DEF Spec

----------------------------------------------------------------------------
(* The bound of a window *)

\* What bucket b gains in n ticks at the full rate.
Gain(b, n) == n * (Rate[b] * Full)

LEMMA GainType == ASSUME NEW b \in Buckets, NEW n \in Nat PROVE Gain(b, n) \in Nat
<1>1. Rate[b] * Full \in Nat
  BY CapacityType DEF Full
<1> QED BY <1>1 DEF Gain

LEMMA GainAdds ==
  ASSUME NEW b \in Buckets, NEW m \in Nat, NEW n \in Nat, NEW all, all = m + n
  PROVE  Gain(b, all) = Gain(b, m) + Gain(b, n)
<1>1. Rate[b] * Full \in Nat
  BY CapacityType DEF Full
<1> DEFINE r == Rate[b] * Full
<1> HIDE DEF r
<1>2. m * r \in Nat /\ (m + n) * r = m * r + n * r
  BY <1>1 DEF r
<1> QED BY <1>2 DEF Gain, r

LEMMA SlowerGain ==
  ASSUME NEW b \in Buckets, NEW m \in Mults, NEW n \in Nat
  PROVE  n * (Rate[b] * m) \in Nat /\ n * (Rate[b] * m) <= Gain(b, n)
<1>1. Rate[b] \in Nat /\ m \in Nat /\ m <= Full
  BY CapacityType DEF Mults, Full
<1>2. Rate[b] * m \in Nat /\ Rate[b] * Full \in Nat /\ Rate[b] * m <= Rate[b] * Full
  BY <1>1 DEF Mults, Full
<1> DEFINE slow == Rate[b] * m
<1> DEFINE fast == Rate[b] * Full
<1> HIDE DEF slow, fast
<1>3. slow \in Nat /\ fast \in Nat /\ slow <= fast
  BY <1>2 DEF slow, fast
<1>4. n * slow <= n * fast
  BY <1>3
<1> QED BY <1>3, <1>4 DEF Gain, slow, fast

\* The tokens left and those given out come from the capacity at the opening of
\* the window and from what was gained up to the last call.
BucketKept(b) ==
  LET k == store["local"][b] IN
  /\ k.expires = 0 /\ k.last <= now /\ k.tokens <= Capacity(b)
  /\ ~k.known \/ k.last < opened => taken[b] = 0
  /\ k.known /\ opened <= k.last => taken[b] + k.tokens <= Capacity(b) + Gain(b, k.last - opened)

LocalKept == \A b \in Buckets : BucketKept(b)

LEMMA ServedLocally ==
  ASSUME NEW b, NEW t, Available(b, Stored("local", b), t) \in Nat
  PROVE  LET k   == Stored("local", b)
             had == Available(b, k, t)
         IN Served("local", b, t) =
              [k EXCEPT !.known = TRUE, !.last = t, !.tokens = IF had < Cost THEN had ELSE had - Cost]
<1> DEFINE k == Stored("local", b)
<1> DEFINE had == Available(b, k, t)
<1> SUFFICES Served("local", b, t) =
               [k EXCEPT !.known = TRUE, !.last = t, !.tokens = IF had < Cost THEN had ELSE had - Cost]
  OBVIOUS
<1>1. Cost \in Nat /\ had \in Nat
  BY NumberAssumption
<1> DEFINE left == [k EXCEPT !.known = TRUE, !.last = t, !.tokens = had]
<1> DEFINE paid == [left EXCEPT !.tokens = had - Cost]
<1> DEFINE lasting == [left EXCEPT !.tokens = had - Cost, !.expires = now + Lifetime(k)]
<1>2. Served("local", b, t) =
        CASE had < Cost -> left [] had >= Cost /\ TRUE -> paid [] had >= Cost /\ FALSE -> lasting
  BY DEF Served
<1>3. /\ left = [k EXCEPT !.known = TRUE, !.last = t, !.tokens = had]
      /\ paid = [k EXCEPT !.known = TRUE, !.last = t, !.tokens = had - Cost]
  OBVIOUS
<1> HIDE DEF left, paid, lasting, k, had
<1>4. CASE had < Cost
  <2>1. ~(had >= Cost)
    BY <1>1, <1>4
  <2>2. Served("local", b, t) = left
    BY <1>2, <1>4, <2>1
  <2> QED BY <1>3, <1>4, <2>2
<1>5. CASE had >= Cost
  <2>1. ~(had < Cost)
    BY <1>1, <1>5
  <2>2. Served("local", b, t) = paid
    BY <1>2, <1>5, <2>1
  <2> QED BY <1>3, <2>1, <2>2
<1> QED BY <1>1, <1>4, <1>5

LEMMA ServeKept ==
  ASSUME TypeOK, Observed = "local", NEW b \in Buckets, BucketKept(b),
         Serve("local", b, now), UNCHANGED <<now, opened>>
  PROVE  BucketKept(b)'
<1> DEFINE k == store["local"][b]
<1> DEFINE had == Available(b, k, now)
<1> DEFINE d == now - k.last
<1>1. k \in Bucket /\ now \in Nat /\ opened \in Nat /\ opened <= now /\ taken[b] \in Nat
      /\ Cost \in Nat \ {0} /\ Capacity(b) \in Nat /\ Rate[b] \in Nat
  BY CapacityType, NumberAssumption DEF TypeOK, Stores
<1>2. Stored("local", b) = k /\ k.last <= now /\ k.last \in Nat /\ k.tokens \in Nat /\ d \in Nat
  BY <1>1 DEF BucketKept, Stored, Bucket
<1>3. had \in Nat /\ had <= Capacity(b)
  BY <1>1, AvailableType
<1>4. k.known => had <= k.tokens + Gain(b, d)
  <2>1. Elapsed(k, now) = d /\ k.mult \in Mults
    BY <1>1, <1>2 DEF Elapsed, Bucket
  <2>2. d * (Rate[b] * k.mult) \in Nat /\ d * (Rate[b] * k.mult) <= Gain(b, d) /\ Gain(b, d) \in Nat
    BY <1>2, <2>1, SlowerGain, GainType
  <2> DEFINE slow == d * (Rate[b] * k.mult)
  <2>3. k.known => had <= k.tokens + slow
    <3>1. slow \in Nat
      BY <2>2
    <3>2. had = IF k.known /\ k.tokens + slow < Capacity(b) THEN k.tokens + slow ELSE Capacity(b)
      BY <2>1 DEF Available
    <3> HIDE DEF slow, had
    <3> QED BY <1>1, <1>2, <3>1, <3>2
  <2> HIDE DEF slow, had, d
  <2> QED BY <1>2, <1>3, <2>2, <2>3 DEF slow
<1>5. taken[b] + had <= Capacity(b) + Gain(b, now - opened)
  <2>1. Gain(b, now - opened) \in Nat
    BY <1>1, GainType
  <2>2. CASE ~k.known \/ k.last < opened
    BY <1>1, <1>3, <2>1, <2>2 DEF BucketKept
  <2>3. CASE k.known /\ opened <= k.last
    <3>1. k.last - opened \in Nat /\ now - opened = (k.last - opened) + d
      BY <1>1, <1>2, <2>3
    <3>2. Gain(b, now - opened) = Gain(b, k.last - opened) + Gain(b, d)
          /\ Gain(b, k.last - opened) \in Nat /\ Gain(b, d) \in Nat
      <4> DEFINE m == k.last - opened
      <4> DEFINE all == now - opened
      <4>1. m \in Nat /\ d \in Nat /\ all = m + d
        BY <1>2, <3>1
      <4> HIDE DEF m, d, all
      <4>2. Gain(b, all) = Gain(b, m) + Gain(b, d) /\ Gain(b, m) \in Nat /\ Gain(b, d) \in Nat
        BY <4>1, GainAdds, GainType
      <4> QED BY <4>2 DEF m, d, all
    <3>3. taken[b] + k.tokens <= Capacity(b) + Gain(b, k.last - opened)
      BY <2>3 DEF BucketKept
    <3>4. had <= k.tokens + Gain(b, d)
      BY <1>4, <2>3
    <3> DEFINE before == Gain(b, k.last - opened)
    <3> DEFINE since == Gain(b, d)
    <3> DEFINE tokens == k.tokens
    <3>5. tokens \in Nat /\ before \in Nat /\ since \in Nat /\ Gain(b, now - opened) = before + since
      BY <1>2, <3>2
    <3>6. had <= tokens + since /\ taken[b] + tokens <= Capacity(b) + before
      BY <3>3, <3>4
    <3> HIDE DEF had, d, before, since, tokens, k
    <3> QED BY <1>1, <1>3, <3>5, <3>6
  <2> QED BY <1>1, <1>2, <2>2, <2>3
<1>6. store'["local"][b] = Served("local", b, now)
      /\ taken' = IF Grants("local", b, now) THEN [taken EXCEPT ![b] = @ + Cost] ELSE taken
  BY DEF Serve, TypeOK, Stores
<1>7. Grants("local", b, now) <=> had >= Cost
  BY <1>2 DEF Grants
<1>8. Served("local", b, now) =
         [k EXCEPT !.known = TRUE, !.last = now, !.tokens = IF had < Cost THEN had ELSE had - Cost]
  <2>1. Available(b, Stored("local", b), now) \in Nat
    BY <1>2, <1>3
  <2>2. Stored("local", b) = k
    BY <1>2
  <2> DEFINE s == Stored("local", b)
  <2>3. Served("local", b, now) =
          LET own == Available(b, s, now)
          IN [s EXCEPT !.known = TRUE, !.last = now, !.tokens = IF own < Cost THEN own ELSE own - Cost]
    BY <2>1, ServedLocally, Zenon
  <2> QED BY <2>2, <2>3
<1>9. CASE had < Cost
  <2>1. Served("local", b, now) = [k EXCEPT !.known = TRUE, !.last = now, !.tokens = had]
    BY <1>9, <1>8
  <2>2. taken' = taken
    BY <1>1, <1>3, <1>6, <1>7, <1>9
  <2> HIDE DEF k, had
  <2>3. /\ store'["local"][b].known = TRUE /\ store'["local"][b].last = now
        /\ store'["local"][b].tokens = had /\ store'["local"][b].expires = k.expires
    BY <1>1, <1>6, <2>1 DEF Bucket
  <2>4. k.expires = 0
    BY DEF k, BucketKept
  <2> QED BY <1>1, <1>3, <1>5, <2>2, <2>3, <2>4 DEF BucketKept, Gain, Capacity
<1>10. CASE had >= Cost
  <2>1. Served("local", b, now) = [k EXCEPT !.known = TRUE, !.last = now, !.tokens = had - Cost]
    <3>1. ~(had < Cost)
      BY <1>1, <1>3, <1>10
    <3> QED BY <1>8, <3>1
  <2>2. taken'[b] = taken[b] + Cost
    BY <1>1, <1>6, <1>7, <1>10 DEF TypeOK
  <2> HIDE DEF k, had
  <2>3. /\ store'["local"][b].known = TRUE /\ store'["local"][b].last = now
        /\ store'["local"][b].tokens = had - Cost /\ store'["local"][b].expires = k.expires
    BY <1>1, <1>6, <2>1 DEF Bucket
  <2>4. k.expires = 0
    BY DEF k, BucketKept
  <2>5. had - Cost <= Capacity(b) /\ taken[b] + Cost + (had - Cost) <= Capacity(b) + Gain(b, now - opened)
    BY <1>1, <1>3, <1>5
  <2> QED BY <1>1, <1>3, <2>2, <2>3, <2>4, <2>5 DEF BucketKept, Gain, Capacity
<1> QED BY <1>1, <1>3, <1>9, <1>10

\* A step that leaves the bucket and what it gave out as they are, at whatever time.
LEMMA SameKept ==
  ASSUME TypeOK, TypeOK', NEW b \in Buckets, BucketKept(b), opened' = opened, now <= now',
         store'["local"][b] = store["local"][b], taken'[b] = taken[b]
  PROVE  BucketKept(b)'
<1>1. store["local"][b].last \in Nat /\ now \in Nat /\ now' \in Nat
  BY DEF TypeOK, Stores, Bucket
<1> QED BY <1>1 DEF BucketKept, Gain, Capacity

\* A report slows the bucket down; one that it creates is empty.
LEMMA ReportKept ==
  ASSUME TypeOK, NEW c \in Callers, ReportLocally(c), NEW b \in Buckets, BucketKept(b)
  PROVE  BucketKept(b)'
<1> DEFINE k == store["local"][b]
<1>1. UNCHANGED <<now, opened, taken>> /\ k \in Bucket /\ now \in Nat /\ opened \in Nat /\ opened <= now
      /\ taken[b] \in Nat /\ Capacity(b) \in Nat
  BY CapacityType DEF ReportLocally, TypeOK, Stores
<1>2. CASE b # Domain[c]
  <2>1. store'["local"][b] = store["local"][b]
    BY <1>2 DEF ReportLocally, TypeOK, Stores
  <2> QED BY <1>1, <2>1 DEF BucketKept, Gain, Capacity
<1>3. CASE b = Domain[c] /\ k.known
  <2>1. store'["local"][b] = [k EXCEPT !.mult = Halved(k.mult)]
    BY <1>3 DEF ReportLocally, TypeOK, Stores
  <2> HIDE DEF k
  <2>2. /\ store'["local"][b].known = k.known /\ store'["local"][b].last = k.last
        /\ store'["local"][b].tokens = k.tokens /\ store'["local"][b].expires = k.expires
    BY <1>1, <2>1 DEF Bucket
  <2> QED BY <1>1, <2>2 DEF BucketKept, Gain, Capacity, k
<1>4. CASE b = Domain[c] /\ ~k.known
  <2> DEFINE new == [Unused EXCEPT !.known = TRUE, !.last = now]
  <2>1. store'["local"][b] = [new EXCEPT !.mult = Halved(new.mult)]
    BY <1>4 DEF ReportLocally, TypeOK, Stores
  <2>2. /\ store'["local"][b].known = TRUE /\ store'["local"][b].last = now
        /\ store'["local"][b].tokens = 0 /\ store'["local"][b].expires = 0
    BY <2>1 DEF Unused
  <2>3. taken[b] = 0
    BY <1>4 DEF BucketKept
  <2>4. Gain(b, now - opened) \in Nat
    BY <1>1, GainType
  <2> QED BY <1>1, <2>2, <2>3, <2>4 DEF BucketKept, Gain, Capacity
<1> QED BY <1>2, <1>3, <1>4

\* A window starts with nothing given out, and with no more than the capacity.
LEMMA OpenKept ==
  ASSUME TypeOK, OpenWindow, NEW b \in Buckets, BucketKept(b)
  PROVE  BucketKept(b)'
<1> DEFINE k == store["local"][b]
<1>1. k \in Bucket /\ k.last \in Nat /\ k.tokens \in Nat /\ now \in Nat /\ Capacity(b) \in Nat
  BY CapacityType DEF TypeOK, Stores, Bucket
<1>2. store' = store /\ now' = now /\ opened' = now /\ taken'[b] = 0
  BY DEF OpenWindow
<1>3. k.expires = 0 /\ k.last <= now /\ k.tokens <= Capacity(b)
  BY DEF BucketKept
<1>4. k.known /\ now <= k.last => k.last - now = 0 /\ Gain(b, 0) \in Nat
  BY <1>1, <1>3, GainType
<1> HIDE DEF k
<1>5. store'["local"][b] = k
  BY <1>2 DEF k
<1>6. k.known /\ now <= k.last => k.tokens <= Capacity(b) + Gain(b, k.last - now)
  BY <1>1, <1>3, <1>4
<1> QED BY <1>1, <1>2, <1>3, <1>5, <1>6 DEF BucketKept, Gain, Capacity

LEMMA KeptInit == Init => LocalKept
<1> SUFFICES ASSUME Init, NEW b \in Buckets PROVE BucketKept(b)
  BY DEF LocalKept
<1> QED BY CapacityType DEF Init, Unused, BucketKept, Stores

\* A call to Redis reaches neither the local buckets nor the observer.
LEMMA RedisKept ==
  ASSUME TypeOK, Observed = "local", NEW a \in Buckets, NEW t \in Nat, Serve("redis", a, t)
  PROVE  store'["local"] = store["local"] /\ taken' = taken
BY DEF Serve, TypeOK, Stores

\* Serving one bucket leaves the others alone.
LEMMA OthersServed ==
  ASSUME TypeOK, NEW a \in Buckets, Serve("local", a, now), NEW b \in Buckets, b # a
  PROVE  store'["local"][b] = store["local"][b] /\ taken'[b] = taken[b]
<1>1. store'["local"][b] = store["local"][b]
  BY DEF Serve, TypeOK, Stores
<1>2. taken'[b] = taken[b]
  BY DEF Serve, TypeOK
<1> QED BY <1>1, <1>2

LEMMA KeptStep == Observed = "local" /\ TypeOK /\ LocalKept /\ [Next]_vars => LocalKept'
<1> SUFFICES ASSUME Observed = "local", TypeOK, LocalKept, [Next]_vars, NEW b \in Buckets
             PROVE  BucketKept(b)'
  BY DEF LocalKept
<1>1. BucketKept(b) /\ TypeOK'
  BY TypeStep DEF LocalKept
<1>2. now \in Nat
  BY DEF TypeOK
<1>3. CASE opened' = opened /\ now <= now' /\ store'["local"][b] = store["local"][b] /\ taken'[b] = taken[b]
  BY <1>1, <1>3, SameKept
<1>4. CASE UNCHANGED vars \/ Tick
  BY <1>2, <1>3, <1>4 DEF vars, Tick
<1>5. CASE OpenWindow
  BY <1>1, <1>5, OpenKept
<1>6. ASSUME NEW c \in Callers, Begin(c) \/ Acquire(c) \/ Reply(c) \/ Report(c)
      PROVE  BucketKept(b)'
  <2>1. UNCHANGED <<now, opened>>
    BY <1>6 DEF Begin, Acquire, Load, Send, Evaluate, EvaluateFails, AcquireLocally, Wake,
                Reply, Report, ReportRead, ReportWrite, ReportFails, ReportLocally
  <2>2. CASE UNCHANGED <<store, taken>>
    BY <1>2, <1>3, <2>1, <2>2
  <2>3. CASE At(c, {"sent"}) /\ Serve("redis", Key(c), call[c].stamp)
    <3>1. Key(c) \in Buckets /\ call[c].stamp \in Nat
      BY <2>3, CallTypes DEF At
    <3> QED BY <1>2, <1>3, <2>1, <2>3, <3>1, RedisKept
  <2>4. CASE AcquireLocally(c)
    <3>1. Key(c) \in Buckets /\ Serve("local", Key(c), now)
      BY <2>4, CallTypes DEF AcquireLocally, At
    <3>2. CASE b = Key(c)
      BY <1>1, <2>1, <3>1, <3>2, ServeKept
    <3>3. CASE b # Key(c)
      BY <1>2, <1>3, <2>1, <3>1, <3>3, OthersServed
    <3> QED BY <3>2, <3>3
  <2>5. CASE At(c, {"halve"}) /\ UNCHANGED taken
          /\ store' = [store EXCEPT !["redis"][Domain[c]] =
                         [Stored("redis", Domain[c]) EXCEPT !.mult = Halved(call[c].mult)]]
    <3>1. store'["local"] = store["local"]
      BY <2>5 DEF TypeOK, Stores
    <3> QED BY <1>2, <1>3, <2>1, <2>5, <3>1
  <2>6. CASE ReportLocally(c)
    BY <1>1, <2>6, ReportKept
  <2> QED
    BY <1>6, <2>2, <2>3, <2>4, <2>5, <2>6
       DEF Begin, Acquire, Load, Send, Evaluate, EvaluateFails, Wake, Reply, Report, ReportRead,
           ReportWrite, ReportFails
<1> QED BY <1>4, <1>5, <1>6 DEF Next

LEMMA KeptBound == TypeOK /\ LocalKept => WindowBound
<1> SUFFICES ASSUME TypeOK, LocalKept, NEW b \in Buckets
             PROVE  taken[b] <= Capacity(b) + Gain(b, now - opened)
  BY DEF WindowBound, Gain
<1> DEFINE k == store["local"][b]
<1>1. k.last \in Nat /\ k.tokens \in Nat /\ now \in Nat /\ opened \in Nat /\ opened <= now
      /\ taken[b] \in Nat /\ Capacity(b) \in Nat
  BY CapacityType DEF TypeOK, Stores, Bucket
<1>2. BucketKept(b)
  BY DEF LocalKept
<1>3. Gain(b, now - opened) \in Nat
  BY <1>1, GainType
<1>4. CASE ~k.known \/ k.last < opened
  BY <1>1, <1>2, <1>3, <1>4 DEF BucketKept
<1>5. CASE k.known /\ opened <= k.last
  <2>1. k.last <= now /\ taken[b] + k.tokens <= Capacity(b) + Gain(b, k.last - opened)
    BY <1>2, <1>5 DEF BucketKept
  <2>2. k.last - opened \in Nat /\ now - k.last \in Nat
        /\ now - opened = (k.last - opened) + (now - k.last)
    BY <1>1, <1>5, <2>1
  <2> DEFINE before == Gain(b, k.last - opened)
  <2> DEFINE since == Gain(b, now - k.last)
  <2>3. Gain(b, now - opened) = before + since /\ before \in Nat /\ since \in Nat
    <3> DEFINE m == k.last - opened
    <3> DEFINE n == now - k.last
    <3> DEFINE all == now - opened
    <3>1. m \in Nat /\ n \in Nat /\ all = m + n
      BY <2>2
    <3> HIDE DEF m, n, all
    <3>2. Gain(b, all) = Gain(b, m) + Gain(b, n) /\ Gain(b, m) \in Nat /\ Gain(b, n) \in Nat
      BY <3>1, GainAdds, GainType
    <3> QED BY <3>2 DEF m, n, all
  <2> DEFINE tokens == k.tokens
  <2>4. tokens \in Nat /\ taken[b] + tokens <= Capacity(b) + before
    BY <1>1, <2>1
  <2> HIDE DEF before, since, tokens, k
  <2> QED BY <1>1, <2>3, <2>4
<1> QED BY <1>1, <1>4, <1>5

\* The buckets of a process give out, in any window, no more than the capacity
\* and the gain at the full rate: for all callers, limiters, routes and rates, with
\* limiters changing over from Redis at any time and reports of 429 at any time.
THEOREM WindowBoundCorrect == ASSUME Observed = "local" PROVE Spec => []WindowBound
<1>1. Init => TypeOK /\ LocalKept
  BY TypeInit, KeptInit
<1>2. TypeOK /\ LocalKept /\ [Next]_vars => (TypeOK /\ LocalKept)'
  BY TypeStep, KeptStep
<1>3. TypeOK /\ LocalKept => WindowBound
  BY KeptBound
<1> QED BY <1>1, <1>2, <1>3, PTL DEF Spec

=============================================================================
