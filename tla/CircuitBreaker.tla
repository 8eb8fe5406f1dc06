--------------------------- MODULE CircuitBreaker ---------------------------
(***************************************************************************)
(* src/CircuitBreaker.cpp, used as RpcClusterChannel::attemptOnce uses it: *)
(* a request asks allowRequest(), and when it is done reports onSuccess(), *)
(* onError() or, when it failed with kUnknown, nothing.                    *)
(*                                                                         *)
(* Every method runs under mutex_ and is one step, with one reading of the *)
(* clock.  Time is a number of units, and a unit is any length.            *)
(***************************************************************************)
EXTENDS Integers, Sequences, FiniteSets

CONSTANTS
    Requests,       \* requests, each granted at most once
    MinRequests,    \* minRequestAmount_
    RateNum,        \* errorRateThreshold_ = RateNum / RateDen
    RateDen,
    Window,         \* windowMs_
    Slice,          \* the length of a bucket, 1 s
    FirstIsolation, \* 100 ms
    MaxIsolation,   \* kMaxIsolation
    MaxTime         \* bound: the last instant

ASSUME BreakerAssumption ==
    /\ MinRequests \in Nat /\ RateNum \in Nat
    /\ RateDen \in Nat \ {0}
    /\ Window \in Nat \ {0} /\ Slice \in Nat \ {0}
    /\ FirstIsolation \in Nat \ {0} /\ MaxIsolation \in Nat
    /\ FirstIsolation <= MaxIsolation
    /\ MaxTime \in Nat

VARIABLES
    now,           \* the clock
    state,         \* state_
    openedAt,      \* openedAt_
    lastIsolation, \* lastIsolation_
    buckets,       \* buckets_
    req,           \* where each request is; "probe" if it was granted as one
    recorded,      \* history: the results recorded since the window was reset
    failures,      \* history: times the circuit re-opened since it was last closed
    probeAt        \* history: when the circuit opened or the last probe was granted

breakerVars == <<state, openedAt, lastIsolation, buckets>>
vars == <<now, breakerVars, req, recorded, failures, probeAt>>

Bucket == [start : Nat, requests : Nat, errors : Nat]
Result == [req : Requests, at : Nat, error : BOOLEAN]

TypeOK ==
    /\ now \in 0..MaxTime
    /\ state \in {"Closed", "Open", "HalfOpen"}
    /\ openedAt \in 0..now
    /\ lastIsolation \in FirstIsolation..MaxIsolation
    /\ buckets \in Seq(Bucket)
    /\ req \in [Requests -> {"new", "allowed", "probe", "ended"}]
    /\ recorded \subseteq Result
    /\ failures \in Nat
    /\ probeAt \in 0..now

Init ==
    /\ now = 0
    /\ state = "Closed"
    /\ openedAt = 0
    /\ lastIsolation = FirstIsolation
    /\ buckets = <<>>
    /\ req = [r \in Requests |-> "new"]
    /\ recorded = {}
    /\ failures = 0
    /\ probeAt = 0

-----------------------------------------------------------------------------
(* The sliding window *)

\* The first k buckets, and no more, are to be dropped.
Outdated(k) ==
    /\ \A i \in 1..k : now - buckets[i].start >= Window
    /\ k < Len(buckets) => now - buckets[k + 1].start < Window

Opened(bs) == Append(bs, [start |-> now, requests |-> 0, errors |-> 0])

\* Mutant: outdated buckets stay.
RolledNever(k) ==
    IF buckets = <<>> \/ now - buckets[Len(buckets)].start >= Slice THEN Opened(buckets) ELSE buckets

\* rollWindowLocked: drop the first k buckets, open a new one if need be.
Rolled(k) ==
    LET kept == SubSeq(buckets, k + 1, Len(buckets)) IN
    IF kept = <<>> \/ now - kept[Len(kept)].start >= Slice THEN Opened(kept) ELSE kept

\* Mutant: every result opens a bucket of its own.
RecordedApart(bs, error) ==
    Append(bs, [start |-> now, requests |-> 1, errors |-> IF error THEN 1 ELSE 0])

\* record, on a window just rolled (so that the roll of record itself is idle).
Recorded(bs, error) ==
    [bs EXCEPT ![Len(bs)] = [start    |-> @.start,
                             requests |-> @.requests + 1,
                             errors   |-> @.errors + (IF error THEN 1 ELSE 0)]]

\* tally adds up what the buckets count.
Tally(counts) ==
    LET sum[i \in 0..Len(counts)] == IF i = 0 THEN 0 ELSE sum[i - 1] + counts[i]
    IN  sum[Len(counts)]

Requested(bs) == Tally([i \in 1..Len(bs) |-> bs[i].requests])
Erred(bs)     == Tally([i \in 1..Len(bs) |-> bs[i].errors])

\* Mutant: the minimum is forgotten.
TripsEarly(bs) == Erred(bs) > 0

Trips(bs) ==
    /\ Requested(bs) >= MinRequests
    /\ Erred(bs) * RateDen > RateNum * Requested(bs)

-----------------------------------------------------------------------------
(* allowRequest *)

Grant(r, as) == req' = [req EXCEPT ![r] = as]

\* CLOSED: granted, even by the request that trips the circuit.
AllowClosed(r, bs) ==
    /\ state = "Closed"
    /\ Grant(r, "allowed")
    /\ \/ /\ Trips(bs)
          /\ state' = "Open"
          /\ openedAt' = now
          /\ probeAt' = now
       \/ /\ ~Trips(bs)
          /\ UNCHANGED <<state, openedAt, probeAt>>

\* Mutant: the isolation is taken to start at the beginning of time.
IsolationOverAnyhow == now >= lastIsolation

IsolationOver == now - openedAt >= lastIsolation

\* OPEN: one probe once the isolation has elapsed.
AllowOpen(r) ==
    /\ state = "Open"
    /\ UNCHANGED openedAt
    /\ \/ /\ IsolationOver
          /\ state' = "HalfOpen"
          /\ Grant(r, "probe")
          /\ probeAt' = now
       \/ /\ ~IsolationOver
          /\ UNCHANGED <<state, req, probeAt>>

\* HALF_OPEN: denied.  A denied request may ask again.
AllowHalfOpen ==
    /\ state = "HalfOpen"
    /\ UNCHANGED <<state, openedAt, req, probeAt>>

AllowRequest(r) ==
    /\ req[r] = "new"
    /\ \E k \in 0..Len(buckets) :
        /\ Outdated(k)
        /\ buckets' = Rolled(k)
        /\ AllowClosed(r, Rolled(k)) \/ AllowOpen(r) \/ AllowHalfOpen
    /\ UNCHANGED <<now, lastIsolation, recorded, failures>>

-----------------------------------------------------------------------------
(* Results *)

End(r) ==
    /\ req[r] \in {"allowed", "probe"}
    /\ req' = [req EXCEPT ![r] = "ended"]
    /\ UNCHANGED <<now, probeAt>>

\* The result of r counts, whatever request it is, when the circuit is not
\* half-open.
Count(r, k, error) ==
    /\ state # "HalfOpen"
    /\ buckets' = Recorded(Rolled(k), error)
    /\ recorded' = recorded \cup {[req |-> r, at |-> now, error |-> error]}
    /\ UNCHANGED <<state, openedAt, lastIsolation, failures>>

OnSuccess(r) ==
    /\ End(r)
    /\ \E k \in 0..Len(buckets) :
        /\ Outdated(k)
        /\ \/ Count(r, k, FALSE)
           \/ /\ state = "HalfOpen"
              /\ state' = "Closed"
              /\ buckets' = <<>>
              /\ lastIsolation' = FirstIsolation
              /\ recorded' = {}
              /\ failures' = 0
              /\ UNCHANGED openedAt

\* Mutant: the isolation is not capped.
DoubledUncapped == lastIsolation * 2

Doubled == IF lastIsolation * 2 < MaxIsolation THEN lastIsolation * 2 ELSE MaxIsolation

OnError(r) ==
    /\ End(r)
    /\ \E k \in 0..Len(buckets) :
        /\ Outdated(k)
        /\ \/ Count(r, k, TRUE)
           \/ /\ state = "HalfOpen"
              /\ state' = "Open"
              /\ openedAt' = now
              /\ lastIsolation' = Doubled
              /\ failures' = failures + 1
              /\ buckets' = Rolled(k)
              /\ UNCHANGED recorded

\* The request fails with kUnknown: the cluster channel does not tell the breaker.
NoVerdict(r) ==
    /\ End(r)
    /\ UNCHANGED <<breakerVars, recorded, failures>>

Tick ==
    /\ now < MaxTime
    /\ now' = now + 1
    /\ UNCHANGED <<breakerVars, req, recorded, failures, probeAt>>

Next ==
    \/ Tick
    \/ \E r \in Requests : AllowRequest(r) \/ OnSuccess(r) \/ OnError(r) \/ NoVerdict(r)

Spec == Init /\ [][Next]_vars

-----------------------------------------------------------------------------
(* Properties *)

Younger(age) == {x \in recorded : now - x.at < age}
Errors(R) == {x \in R : x.error}

\* The sliding window (rollWindowLocked, record, tally): whenever the window is
\* rolled, the tally counts every result younger than Window - Slice + 1 units,
\* and none as old as Window, however results, denials and quiet periods fell
\* on the buckets.
WindowCounts ==
    \A k \in 0..Len(buckets) : Outdated(k) =>
        LET bs == Rolled(k) IN
        /\ Requested(bs) \in
             Cardinality(Younger(Window - Slice + 1))..Cardinality(Younger(Window))
        /\ Erred(bs) \in
             Cardinality(Errors(Younger(Window - Slice + 1)))..Cardinality(Errors(Younger(Window)))

\* The deque of buckets stays bounded: slices apart, they fit in one window.
BucketsBounded ==
    \A i \in 1..Len(buckets) :
        (i - 1) * Slice <= buckets[i].start - buckets[1].start
            /\ buckets[i].start - buckets[1].start < Window

\* CircuitBreaker.h: the circuit opens when "window error rate > threshold AND
\* requests >= minAmount".  Measured by the results themselves: a closed circuit
\* never opens unless MinRequests of them, with an error among them, came within
\* the last Window.
TripJustified ==
    [][state = "Closed" /\ state' = "Open" =>
        /\ Cardinality(Younger(Window)) >= MinRequests
        /\ Errors(Younger(Window)) # {}]_vars

TwoTo[n \in Nat] == IF n = 0 THEN 1 ELSE 2 * TwoTo[n - 1]

\* CircuitBreaker.h: the isolation "starts at 100ms and doubles", "capped at 30s":
\* it is determined by how often the circuit re-opened since it was last closed.
Backoff ==
    lastIsolation =
        LET due == FirstIsolation * TwoTo[failures] IN IF due < MaxIsolation THEN due ELSE MaxIsolation

\* "so a recovering backend is not hammered": a probe is granted only when the
\* isolation in force has passed since the circuit opened and since the previous
\* probe, even if results of older requests re-opened the circuit in between.
ProbeSpacing ==
    [][state # "HalfOpen" /\ state' = "HalfOpen" => now - probeAt >= lastIsolation]_vars

\* CircuitBreaker.cpp, allowRequest: "the single probe slot is taken until it
\* resolves".  While the circuit is half-open, and so denies every request, the
\* probe that will decide it is under way.
HalfOpenHasProbe == state = "HalfOpen" => \E r \in Requests : req[r] = "probe"
=============================================================================
