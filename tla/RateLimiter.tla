---------------------------- MODULE RateLimiter ----------------------------
(***************************************************************************)
(* The rate limiter of the worker engines: token buckets in Redis, driven  *)
(* by a Lua script, with buckets in the memory of the process to fall back *)
(* on; the loop that acquires one token from every bucket of a request;    *)
(* and the report of a 429.                                                *)
(*                                                                         *)
(* Time runs in ticks.  A multiplier is counted in 1/Full, and tokens in a *)
(* unit that makes every refill whole, so the arithmetic is exact: a       *)
(* bucket gains Rate * multiplier units a tick, and a request costs Cost.  *)
(***************************************************************************)
EXTENDS Naturals, Sequences

CONSTANTS
  Callers,    \* coroutines that send requests
  Limiters,   \* RateLimiter instances, one for each engine of a process
  LimiterOf,  \* the limiter of a caller
  Buckets,    \* keys: global, configured domains, scans
  Route,      \* the buckets of a caller's requests, in the order of acquire
  Domain,     \* the key report_429 slows down for a caller
  Rate,       \* units a bucket gains in a tick, for each 1/Full of multiplier
  Second,     \* ticks in a second
  Cost,       \* units of one request
  Nap,        \* ticks of the sleep between two rounds
  Timeout,    \* ticks after which acquire gives up
  MaxTime,    \* bound on the clock
  Observed,   \* the store whose grants are counted
  Throttled,  \* callers whose target may answer 429
  Env         \* {"redis"} when commands may fail

Stores == {"redis", "local"}
Full   == 40
Mults  == {40, 20, 10, 5, 4}

ASSUME PlanAssumption ==
  /\ LimiterOf \in [Callers -> Limiters]
  /\ Route \in [Callers -> Seq(Buckets)] /\ \A c \in Callers : Route[c] # <<>>
  /\ Domain \in [Callers -> Buckets]
ASSUME RateAssumption == Rate \in [Buckets -> Nat \ {0}] /\ Second \in Nat \ {0}
ASSUME NumberAssumption ==
  Cost \in Nat \ {0} /\ Nap \in Nat /\ Timeout \in Nat \ {0} /\ MaxTime \in Nat
ASSUME EnvAssumption == Observed \in Stores /\ Env \subseteq {"redis"}

VARIABLES
  now,        \* time.time()
  scripting,  \* _scripting_supported of each limiter
  store,      \* the buckets in Redis and those of the process
  call,       \* where each caller is, with its local variables
  opened,     \* history: when the observer's window was opened
  taken       \* history: units each observed bucket gave out in the window

vars == <<now, scripting, store, call, opened, taken>>

----------------------------------------------------------------------------
(* Buckets *)

\* max(0.1, m * 0.5)
Halved(m) == IF m \div 2 < 4 THEN 4 ELSE m \div 2

\* The capacity is what the bucket gains in a second.
Capacity(b) == Rate[b] * Full * Second

\* A bucket nobody has used; known tells whether it holds tokens, and expires
\* is 0 without a time to live.
Unused == [known |-> FALSE, tokens |-> 0, last |-> 0, mult |-> Full, expires |-> 0]

\* A Redis key is gone once its time to live has passed.
Stored(where, b) ==
  LET k == store[where][b] IN
  IF k.expires # 0 /\ k.expires <= now THEN Unused ELSE k

Elapsed(k, t) == IF t > k.last THEN t - k.last ELSE 0

Available(b, k, t) ==
  LET filled == k.tokens + Elapsed(k, t) * (Rate[b] * k.mult) IN
  IF k.known /\ filled < Capacity(b) THEN filled ELSE Capacity(b)

\* EXPIRE: twice the time an empty bucket needs to fill.
Lifetime(k) == 2 * (Full \div k.mult) * Second

Grants(where, b, t) == Available(b, Stored(where, b), t) >= Cost

\* The seeded defects (their names end in Bug) are used only to show that the
\* properties below are sensitive to the code; no specification uses them.
SpendUncheckedBug(where, b, t) ==
  LET k == Stored(where, b) IN
  [k EXCEPT !.known = TRUE, !.last = t, !.tokens = Available(b, k, t) - Cost]

\* What a call that carries the time t leaves of bucket b.
Served(where, b, t) ==
  LET k    == Stored(where, b)
      had  == Available(b, k, t)
      left == [k EXCEPT !.known = TRUE, !.last = t, !.tokens = had]
  IN CASE had < Cost -> left
       [] had >= Cost /\ where = "local" -> [left EXCEPT !.tokens = had - Cost]
       [] had >= Cost /\ where = "redis" ->
            [left EXCEPT !.tokens = had - Cost, !.expires = now + Lifetime(k)]

Serve(where, b, t) ==
  /\ store' = [store EXCEPT ![where][b] = Served(where, b, t)]
  /\ taken' = IF where = Observed /\ Grants(where, b, t)
                THEN [taken EXCEPT ![b] = @ + Cost] ELSE taken

----------------------------------------------------------------------------
(* The clock and the observer *)

Idle == [at |-> "idle"]

Init ==
  /\ now = 0
  /\ scripting = [l \in Limiters |-> "unknown"]
  /\ store = [w \in Stores |-> [b \in Buckets |-> Unused]]
  /\ call = [c \in Callers |-> Idle]
  /\ opened = 0
  /\ taken = [b \in Buckets |-> 0]

Tick ==
  /\ now < MaxTime
  /\ now' = now + 1
  /\ UNCHANGED <<scripting, store, call, opened, taken>>

\* A window may be opened at any instant, what was given out in it before not
\* being counted; what holds of it holds of all windows.
OpenWindow ==
  /\ opened < now
  /\ opened' = now
  /\ taken' = [b \in Buckets |-> 0]
  /\ UNCHANGED <<now, scripting, store, call>>

----------------------------------------------------------------------------
(* acquire *)

At(c, places) == call[c].at \in places
Scripting(c)  == scripting[LimiterOf[c]]
Key(c)        == Route[c][call[c].next]

Becomes(c, state) == call' = [call EXCEPT ![c] = state]

\* The loop is entered; a call too late for the bounded clock is left out.
EnterLoop(c) ==
  /\ now + Timeout <= MaxTime
  /\ Becomes(c, [at |-> "ask", start |-> now, next |-> 1])

Begin(c) ==
  /\ At(c, {"idle"})
  /\ \/ Scripting(c) = "unknown" /\ Becomes(c, [at |-> "load"])
     \/ Scripting(c) # "unknown" /\ EnterLoop(c)
  /\ UNCHANGED <<now, scripting, store, opened, taken>>

\* SCRIPT LOAD, by every caller that saw no answer to an earlier one yet.
Load(c) ==
  /\ At(c, {"load"})
  /\ \/ scripting' = [scripting EXCEPT ![LimiterOf[c]] = "yes"]
     \/ "redis" \in Env /\ scripting' = [scripting EXCEPT ![LimiterOf[c]] = "no"]
  /\ EnterLoop(c)
  /\ UNCHANGED <<now, store, opened, taken>>

\* The caller reads its clock and sends EVALSHA.
Send(c) ==
  /\ At(c, {"ask"}) /\ Scripting(c) = "yes"
  /\ Becomes(c, [at |-> "sent", start |-> call[c].start, next |-> call[c].next, stamp |-> now])
  /\ UNCHANGED <<now, scripting, store, opened, taken>>

\* The answer of one bucket: on to the next, through, or to sleep until the
\* next round, which the end of the bounded clock cuts short.  What the earlier
\* buckets gave is not returned.
Answered(c, granted) ==
  \/ /\ granted /\ call[c].next < Len(Route[c])
     /\ Becomes(c, [at |-> "ask", start |-> call[c].start, next |-> call[c].next + 1])
  \/ /\ granted /\ call[c].next = Len(Route[c])
     /\ Becomes(c, [at |-> "request"])
  \/ /\ ~granted
     /\ Becomes(c, [at |-> "sleep", start |-> call[c].start,
                    until |-> IF now + Nap < MaxTime THEN now + Nap ELSE MaxTime])

\* Redis runs the script, for the time the caller sent along.
Evaluate(c) ==
  /\ At(c, {"sent"})
  /\ Serve("redis", Key(c), call[c].stamp)
  /\ Answered(c, Grants("redis", Key(c), call[c].stamp))
  /\ UNCHANGED <<now, scripting, opened>>

\* EVALSHA fails, having run or not: the limiter changes over to the local
\* buckets, and the caller asks the local one instead.
EvaluateFails(c) ==
  /\ "redis" \in Env
  /\ At(c, {"sent"})
  /\ Serve("redis", Key(c), call[c].stamp) \/ UNCHANGED <<store, taken>>
  /\ scripting' = [scripting EXCEPT ![LimiterOf[c]] = "no"]
  /\ Becomes(c, [at |-> "local", start |-> call[c].start, next |-> call[c].next])
  /\ UNCHANGED <<now, opened>>

\* The local bucket reads the clock under its lock.
AcquireLocally(c) ==
  /\ At(c, {"local"}) \/ (At(c, {"ask"}) /\ Scripting(c) = "no")
  /\ Serve("local", Key(c), now)
  /\ Answered(c, Grants("local", Key(c), now))
  /\ UNCHANGED <<now, scripting, opened>>

KeepPollingBug(c) ==
  /\ At(c, {"sleep"}) /\ call[c].until <= now
  /\ Becomes(c, [at |-> "ask", start |-> call[c].start, next |-> 1])
  /\ UNCHANGED <<now, scripting, store, opened, taken>>

\* The next round, or the end of the call without success.
Wake(c) ==
  /\ At(c, {"sleep"}) /\ call[c].until <= now
  /\ \/ /\ now - call[c].start < Timeout
        /\ Becomes(c, [at |-> "ask", start |-> call[c].start, next |-> 1])
     \/ /\ now - call[c].start >= Timeout
        /\ Becomes(c, Idle)
  /\ UNCHANGED <<now, scripting, store, opened, taken>>

----------------------------------------------------------------------------
(* report_429 *)

\* The target's answer to the request.
Reply(c) ==
  /\ At(c, {"request"})
  /\ Becomes(c, Idle) \/ (c \in Throttled /\ Becomes(c, [at |-> "report"]))
  /\ UNCHANGED <<now, scripting, store, opened, taken>>

\* HMGET ...
ReportRead(c) ==
  /\ At(c, {"report"}) /\ Scripting(c) = "yes"
  /\ Becomes(c, [at |-> "halve", mult |-> Stored("redis", Domain[c]).mult])
  /\ UNCHANGED <<now, scripting, store, opened, taken>>

\* ... and HSET, which leaves the other fields and the time to live alone.
ReportWrite(c) ==
  /\ At(c, {"halve"})
  /\ store' = [store EXCEPT !["redis"][Domain[c]] =
                 [Stored("redis", Domain[c]) EXCEPT !.mult = Halved(call[c].mult)]]
  /\ Becomes(c, Idle)
  /\ UNCHANGED <<now, scripting, opened, taken>>

\* One of the two fails, having run or not.
ReportFails(c) ==
  /\ "redis" \in Env
  /\ \/ At(c, {"report"}) /\ Scripting(c) = "yes" /\ UNCHANGED store
     \/ At(c, {"halve"}) /\ UNCHANGED store
     \/ /\ At(c, {"halve"})
        /\ store' = [store EXCEPT !["redis"][Domain[c]] =
                       [Stored("redis", Domain[c]) EXCEPT !.mult = Halved(call[c].mult)]]
  /\ scripting' = [scripting EXCEPT ![LimiterOf[c]] = "no"]
  /\ Becomes(c, [at |-> "slow"])
  /\ UNCHANGED <<now, opened, taken>>

FillOnReportBug(c) ==
  /\ At(c, {"slow"}) \/ (At(c, {"report"}) /\ Scripting(c) = "no")
  /\ store' = [store EXCEPT !["local"][Domain[c]] = [Unused EXCEPT !.mult = Halved(@)]]
  /\ Becomes(c, Idle)
  /\ UNCHANGED <<now, scripting, opened, taken>>

\* The local report; a bucket it creates is empty.
ReportLocally(c) ==
  /\ At(c, {"slow"}) \/ (At(c, {"report"}) /\ Scripting(c) = "no")
  /\ LET k == store["local"][Domain[c]]
         bucket == IF k.known THEN k ELSE [Unused EXCEPT !.known = TRUE, !.last = now]
     IN store' = [store EXCEPT !["local"][Domain[c]] = [bucket EXCEPT !.mult = Halved(@)]]
  /\ Becomes(c, Idle)
  /\ UNCHANGED <<now, scripting, opened, taken>>

----------------------------------------------------------------------------

Acquire(c) == Load(c) \/ Send(c) \/ Evaluate(c) \/ EvaluateFails(c) \/ AcquireLocally(c) \/ Wake(c)
Report(c)  == ReportRead(c) \/ ReportWrite(c) \/ ReportFails(c) \/ ReportLocally(c)

Next ==
  \/ Tick \/ OpenWindow
  \/ \E c \in Callers : Begin(c) \/ Acquire(c) \/ Reply(c) \/ Report(c)

Spec == Init /\ [][Next]_vars

\* Time passes, and the event loop runs every call of acquire that can go on.
Fairness == WF_vars(Tick) /\ \A c \in Callers : WF_vars(Acquire(c))

FairSpec == Spec /\ Fairness

----------------------------------------------------------------------------
(* Correctness *)

Bucket == [known : BOOLEAN, tokens : Nat, last : Nat, mult : Mults, expires : Nat]

Positions(c) == 1..Len(Route[c])

\* The states of a caller, each with the local variables it has there.
Calls(c) ==
  [at : {"idle", "load", "request", "report", "slow"}]
    \cup [at : {"ask", "local"}, start : Nat, next : Positions(c)]
    \cup [at : {"sent"}, start : Nat, next : Positions(c), stamp : Nat]
    \cup [at : {"sleep"}, start : Nat, until : Nat]
    \cup [at : {"halve"}, mult : Mults]

\* Type invariant.
TypeOK ==
  /\ now \in Nat /\ opened \in 0..now
  /\ scripting \in [Limiters -> {"unknown", "yes", "no"}]
  /\ store \in [Stores -> [Buckets -> Bucket]]
  /\ DOMAIN call = Callers /\ \A c \in Callers : call[c] \in Calls(c)
  /\ taken \in [Buckets -> Nat]

\* The promise of a token bucket: in a window of any length it gives out no more
\* than its capacity and what it gains in that time at the full rate, whatever
\* callers, limiters and reports of 429 do.  The buckets of a process keep it,
\* even when limiters change over to them at any time.
WindowBound ==
  \A b \in Buckets : taken[b] <= Capacity(b) + (now - opened) * (Rate[b] * Full)

\* A call of acquire returns, however busy the buckets are.
AcquireReturns ==
  \A c \in Callers : At(c, {"ask", "sent", "local", "sleep"}) ~> At(c, {"idle", "request"})

=============================================================================
