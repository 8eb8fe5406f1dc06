------------------------ MODULE CircuitBreakerProofs ------------------------
(***************************************************************************)
(* Theorems about CircuitBreaker, for every window, slice, isolation and   *)
(* set of requests.                                                        *)
(***************************************************************************)
EXTENDS CircuitBreaker, FiniteSetTheorems, WellFoundedInduction, TLAPS

-----------------------------------------------------------------------------
(* The buckets *)

\* BucketsBounded between any two buckets, so that it survives the loss of the
\* first ones.
Spaced(bs) ==
    \A i, j \in 1..Len(bs) : i <= j =>
        /\ (j - i) * Slice <= bs[j].start - bs[i].start
        /\ bs[j].start - bs[i].start < Window

BucketsInv ==
    /\ now \in Nat
    /\ buckets \in Seq(Bucket)
    /\ Spaced(buckets)
    /\ \A i \in 1..Len(buckets) : buckets[i].start <= now

\* What a rolled window is, apart from its counts.
WindowShape(bs) ==
    /\ bs \in Seq(Bucket)
    /\ Len(bs) > 0
    /\ Spaced(bs)
    /\ \A i \in 1..Len(bs) : bs[i].start <= now

LEMMA OneMore == \A a, s \in Int : (a + 1) * s = a * s + s
  OBVIOUS

LEMMA Later == \A t, x, y, s, a \in Int : t - x >= s /\ a <= x - y => a + s <= t - y
  OBVIOUS

LEMMA Within == \A t, x, y, w \in Int : t - x < w /\ x <= y => t - y < w
  OBVIOUS

LEMMA Longer == \A t, x, y, s \in Int : t - y >= s /\ x <= y => t - x >= s
  OBVIOUS

LEMMA NotNegative == \A a, s \in Nat : a * s >= 0
  OBVIOUS

\* Dropping the first k buckets keeps the rest spaced and typed.
LEMMA Suffix ==
    ASSUME BucketsInv, NEW k \in 0..Len(buckets), NEW kept,
           kept = SubSeq(buckets, k + 1, Len(buckets))
    PROVE  /\ kept \in Seq(Bucket)
           /\ Len(kept) = Len(buckets) - k
           /\ \A i \in 1..Len(kept) : kept[i] = buckets[k + i]
           /\ Spaced(kept)
           /\ \A i \in 1..Len(kept) : kept[i].start <= now
<1>1. /\ kept \in Seq(Bucket)
      /\ Len(kept) = Len(buckets) - k
      /\ \A i \in 1..Len(kept) : kept[i] = buckets[k + i]
  BY DEF BucketsInv
<1>2. ASSUME NEW i \in 1..Len(kept), NEW j \in 1..Len(kept), i <= j
      PROVE  /\ (j - i) * Slice <= kept[j].start - kept[i].start
             /\ kept[j].start - kept[i].start < Window
  <2>1. k + i \in 1..Len(buckets) /\ k + j \in 1..Len(buckets) /\ k + i <= k + j
    BY <1>1, <1>2 DEF BucketsInv
  <2>2. (k + j) - (k + i) = j - i
    OBVIOUS
  <2> QED
    BY <1>1, <2>1, <2>2, Zenon DEF BucketsInv, Spaced
<1>3. \A i \in 1..Len(kept) : kept[i].start <= now
  BY <1>1 DEF BucketsInv
<1> QED
  BY <1>1, <1>2, <1>3, Zenon DEF Spaced

\* Opening a bucket now, a slice after the last one and within a window of the
\* first one.
LEMMA OpenedSpaced ==
    ASSUME now \in Nat, NEW kept \in Seq(Bucket), Spaced(kept),
           \A i \in 1..Len(kept) : kept[i].start <= now,
           kept # <<>> => /\ now - kept[Len(kept)].start >= Slice
                          /\ now - kept[1].start < Window
    PROVE  WindowShape(Opened(kept))
<1> DEFINE n == Len(kept)
           new == [start |-> now, requests |-> 0, errors |-> 0]
           bs == Opened(kept)
<1>1. n \in Nat /\ \A i \in 1..n : kept[i] \in Bucket
  OBVIOUS
<1>2. new \in Bucket /\ bs = Append(kept, new)
  BY Zenon DEF Bucket, Opened
<1>3. /\ bs \in Seq(Bucket) /\ Len(bs) = n + 1
      /\ \A i \in 1..n : bs[i] = kept[i]
      /\ bs[n + 1] = new
  BY <1>2
<1>4. \A i \in 1..Len(bs) : bs[i].start <= now
  BY <1>1, <1>3, SMTT(20)
<1>5. \A i \in 1..n : kept[i].start \in Nat
  BY <1>1, Zenon DEF Bucket
<1>6. ASSUME NEW i \in 1..Len(bs), NEW j \in 1..Len(bs), i <= j
      PROVE  /\ (j - i) * Slice <= bs[j].start - bs[i].start
             /\ bs[j].start - bs[i].start < Window
  <2>1. CASE j <= n
    <3>1. i \in 1..n /\ j \in 1..n
      BY <1>1, <1>3, <1>6, <2>1
    <3> QED
      BY <1>3, <1>6, <3>1, Zenon DEF Spaced
  <2>2. CASE i = n + 1
    <3>1. j = n + 1
      BY <1>1, <1>3, <1>6, <2>2
    <3>2. bs[j].start = now /\ bs[i].start = now
      BY <1>3, <2>2, <3>1
    <3>3. (j - i) * Slice = 0
      BY <1>1, <2>2, <3>1, BreakerAssumption
    <3>4. now - now = 0 /\ 0 <= 0 /\ 0 < Window
      BY BreakerAssumption
    <3> QED BY <3>2, <3>3, <3>4, Zenon
  <2>3. CASE i <= n /\ j = n + 1
    <3>1. i \in 1..n /\ n \in 1..n /\ 1 \in 1..n /\ kept # <<>>
      BY <1>1, <1>3, <1>6, <2>3
    <3>2. (n - i) * Slice <= kept[n].start - kept[i].start
      BY <3>1, <1>1 DEF Spaced
    <3>3. (i - 1) * Slice <= kept[i].start - kept[1].start
      BY <3>1, <1>1 DEF Spaced
    <3>4. (i - 1) * Slice >= 0
      BY <3>1, NotNegative, BreakerAssumption
    <3>5. (i - 1) * Slice \in Int /\ (n - i) * Slice \in Int
      BY <3>1, <1>1, BreakerAssumption
    <3>6. kept[1].start <= kept[i].start
      <4>1. PICK x \in Int : x = kept[1].start
        BY <3>1, <1>5
      <4>2. PICK y \in Int : y = kept[i].start
        BY <3>1, <1>5, SMTT(20)
      <4>3. PICK a \in Int : a = (i - 1) * Slice
        BY <3>5, Zenon
      <4>4. 0 <= a /\ a <= y - x
        BY <3>3, <3>4, <4>1, <4>2, <4>3, Zenon
      <4>5. x <= y
        BY <4>4
      <4> QED
        BY <4>1, <4>2, <4>5, Zenon
    <3>7. ((n - i) + 1) * Slice = (n - i) * Slice + Slice
      BY <3>1, <1>1, OneMore, BreakerAssumption
    <3>8. j - i = (n - i) + 1
      BY <3>1, <1>1, <2>3
    <3>9. bs[j].start = now /\ bs[i].start = kept[i].start
      BY <1>3, <2>3, <3>1
    <3>10. (j - i) * Slice = (n - i) * Slice + Slice
      BY <3>7, <3>8, Zenon
    <3>11. now - kept[n].start >= Slice /\ now - kept[1].start < Window
      BY <3>1, Zenon
    <3>12. kept[i].start \in Nat /\ kept[n].start \in Nat /\ kept[1].start \in Nat
      BY <3>1, <1>5, Zenon
    <3>13. now \in Int /\ Slice \in Int /\ Window \in Int
      BY BreakerAssumption
    <3>14. (n - i) * Slice + Slice <= now - kept[i].start
      <4>1. PICK x \in Int : x = kept[n].start
        BY <3>12
      <4>2. PICK y \in Int : y = kept[i].start
        BY <3>12, SMTT(20)
      <4>3. PICK a \in Int : a = (n - i) * Slice
        BY <3>5, Zenon
      <4>4. now - x >= Slice /\ a <= x - y
        BY <3>2, <3>11, <4>1, <4>2, <4>3, Zenon
      <4>5. a + Slice <= now - y
        BY <3>13, <4>4, Later, Zenon
      <4> QED
        BY <4>2, <4>3, <4>5, Zenon
    <3>15. now - kept[i].start < Window
      <4>1. PICK x \in Int : x = kept[1].start
        BY <3>12
      <4>2. PICK y \in Int : y = kept[i].start
        BY <3>12, SMTT(20)
      <4>3. now - x < Window /\ x <= y
        BY <3>6, <3>11, <4>1, <4>2, Zenon
      <4>4. now - y < Window
        BY <3>13, <4>3, Within, Zenon
      <4> QED
        BY <4>2, <4>4, Zenon
    <3> QED
      BY <3>9, <3>10, <3>14, <3>15, Zenon
  <2> QED
    BY <1>1, <1>3, <1>6, <2>1, <2>2, <2>3
<1> QED
  BY <1>1, <1>3, <1>4, <1>6 DEF WindowShape, Spaced

\* rollWindowLocked keeps the window in shape.
LEMMA RolledWindow ==
    ASSUME BucketsInv, NEW k \in 0..Len(buckets), Outdated(k)
    PROVE  WindowShape(Rolled(k))
<1> DEFINE kept == SubSeq(buckets, k + 1, Len(buckets))
<1>1. /\ kept \in Seq(Bucket)
      /\ Len(kept) = Len(buckets) - k
      /\ \A i \in 1..Len(kept) : kept[i] = buckets[k + i]
      /\ Spaced(kept)
      /\ \A i \in 1..Len(kept) : kept[i].start <= now
  BY Suffix, Zenon
<1> HIDE DEF kept
<1>2. CASE kept = <<>> \/ now - kept[Len(kept)].start >= Slice
  <2>1. kept # <<>> => now - kept[1].start < Window
    <3>1. SUFFICES ASSUME kept # <<>> PROVE now - kept[1].start < Window
      BY Zenon
    <3>2. Len(kept) > 0 /\ k < Len(buckets)
      BY <1>1, <3>1 DEF BucketsInv
    <3>3. kept[1] = buckets[k + 1]
      BY <1>1, <3>2
    <3> QED
      BY <3>2, <3>3, Zenon DEF Outdated
  <2>2. WindowShape(Opened(kept))
    BY <1>1, <1>2, <2>1, OpenedSpaced, Zenon DEF BucketsInv
  <2> QED
    BY <1>2, <2>2, Zenon DEF Rolled, kept
<1>3. CASE ~(kept = <<>> \/ now - kept[Len(kept)].start >= Slice)
  <2>1. WindowShape(kept)
    BY <1>1, <1>3 DEF WindowShape
  <2> QED
    BY <1>3, <2>1, Zenon DEF Rolled, kept
<1> QED
  BY <1>2, <1>3, Zenon

\* record changes counts only.
LEMMA RecordedWindow ==
    ASSUME NEW bs, WindowShape(bs), NEW error \in BOOLEAN
    PROVE  WindowShape(Recorded(bs, error))
<1> DEFINE n == Len(bs)
           out == Recorded(bs, error)
<1>1. n \in Nat /\ n > 0 /\ bs \in Seq(Bucket) /\ bs[n] \in Bucket
  BY DEF WindowShape
<1> DEFINE last == [start |-> bs[n].start, requests |-> bs[n].requests + 1,
                   errors |-> bs[n].errors + (IF error THEN 1 ELSE 0)]
<1>2. out = [bs EXCEPT ![n] = last]
  BY <1>1, Zenon DEF Recorded, Bucket
<1>3. last \in Bucket /\ last.start = bs[n].start
  BY <1>1, SMTT(20) DEF Bucket
<1> HIDE DEF out, last
<1>4. /\ out \in Seq(Bucket) /\ Len(out) = n
      /\ \A i \in 1..n : out[i].start = bs[i].start
  BY <1>1, <1>2, <1>3
<1>5. \A i \in 1..n : out[i].start <= now
  BY <1>4, Zenon DEF WindowShape
<1>6. Spaced(out)
  <2>1. Spaced(bs)
    BY Zenon DEF WindowShape
  <2> SUFFICES ASSUME NEW i \in 1..n, NEW j \in 1..n, i <= j
               PROVE  /\ (j - i) * Slice <= out[j].start - out[i].start
                      /\ out[j].start - out[i].start < Window
    BY <1>4, Zenon DEF Spaced
  <2>2. out[i].start = bs[i].start /\ out[j].start = bs[j].start
    BY <1>4, Zenon
  <2> QED
    BY <2>1, <2>2, Zenon DEF Spaced
<1> QED
  BY <1>1, <1>4, <1>5, <1>6, Zenon DEF WindowShape, out

-----------------------------------------------------------------------------
(* The invariants *)

\* While the circuit is open, it opened no earlier than the last probe.
BreakerInv ==
    /\ TypeOK
    /\ Spaced(buckets)
    /\ \A i \in 1..Len(buckets) : buckets[i].start <= now
    /\ state = "Open" => probeAt <= openedAt

LEMMA BreakerInvInit == Init => BreakerInv
<1> SUFFICES ASSUME Init PROVE BreakerInv
  BY Zenon
<1>1. Len(buckets) = 0
  BY Zenon DEF Init
<1>2. TypeOK
  <2>1. buckets \in Seq(Bucket) /\ recorded \subseteq Result
    BY DEF Init
  <2>2. req \in [Requests -> {"new", "allowed", "probe", "ended"}]
    BY Zenon DEF Init
  <2> QED
    BY <2>1, <2>2, BreakerAssumption DEF Init, TypeOK
<1> QED
  BY <1>1, <1>2 DEF BreakerInv, Init, Spaced

LEMMA GivesBucketsInv == BreakerInv => BucketsInv
BY DEF BreakerInv, BucketsInv, TypeOK

\* The step does not let time pass and leaves a window in shape.
LEMMA Reshaped ==
    ASSUME NEW bs, WindowShape(bs), buckets' = bs, now' = now
    PROVE  /\ buckets' \in Seq(Bucket)
           /\ Spaced(buckets')
           /\ \A i \in 1..Len(buckets') : buckets'[i].start <= now'
BY Zenon DEF WindowShape

LEMMA AllowKeeps ==
    ASSUME BreakerInv, NEW r \in Requests, AllowRequest(r)
    PROVE  BreakerInv'
<1>1. PICK k \in 0..Len(buckets) :
          /\ Outdated(k)
          /\ buckets' = Rolled(k)
          /\ AllowClosed(r, Rolled(k)) \/ AllowOpen(r) \/ AllowHalfOpen
  BY Zenon DEF AllowRequest
<1>2. UNCHANGED <<now, lastIsolation, recorded, failures>>
  BY Zenon DEF AllowRequest
<1>3. WindowShape(Rolled(k))
  BY <1>1, GivesBucketsInv, RolledWindow, Zenon
<1>4. /\ buckets' \in Seq(Bucket)
      /\ Spaced(buckets')
      /\ \A i \in 1..Len(buckets') : buckets'[i].start <= now'
  BY <1>1, <1>2, <1>3, Reshaped, Zenon
<1>5. /\ state' \in {"Closed", "Open", "HalfOpen"}
      /\ openedAt' \in 0..now
      /\ probeAt' \in 0..now
      /\ state' = "Open" => probeAt' <= openedAt'
  BY <1>1 DEF BreakerInv, TypeOK, AllowClosed, AllowOpen, AllowHalfOpen
<1>6. req' \in [Requests -> {"new", "allowed", "probe", "ended"}]
  BY <1>1, Zenon DEF BreakerInv, TypeOK, AllowClosed, AllowOpen, AllowHalfOpen, Grant
<1>7. TypeOK'
  BY <1>2, <1>4, <1>5, <1>6, Zenon DEF BreakerInv, TypeOK
<1> QED
  BY <1>4, <1>5, <1>7, Zenon DEF BreakerInv

\* Count leaves the circuit alone and records one result.
LEMMA CountKeeps ==
    ASSUME BreakerInv, NEW r \in Requests, NEW k \in 0..Len(buckets), Outdated(k),
           NEW error \in BOOLEAN, Count(r, k, error), UNCHANGED <<now, probeAt>>,
           req' \in [Requests -> {"new", "allowed", "probe", "ended"}]
    PROVE  BreakerInv'
<1>1. WindowShape(Recorded(Rolled(k), error))
  BY GivesBucketsInv, RolledWindow, RecordedWindow, Zenon
<1>2. /\ buckets' \in Seq(Bucket)
      /\ Spaced(buckets')
      /\ \A i \in 1..Len(buckets') : buckets'[i].start <= now'
  BY <1>1, Reshaped, Zenon DEF Count
<1>3. recorded' \subseteq Result
  <2>1. now \in Nat /\ recorded \subseteq Result
    BY DEF BreakerInv, TypeOK
  <2>2. [req |-> r, at |-> now, error |-> error] \in Result
    BY <2>1, Zenon DEF Result
  <2> QED
    BY <2>1, <2>2, Zenon DEF Count
<1>4. UNCHANGED <<state, openedAt, lastIsolation, failures>>
  BY Zenon DEF Count
<1>5. TypeOK'
  BY <1>2, <1>3, <1>4, Zenon DEF BreakerInv, TypeOK
<1> QED
  BY <1>2, <1>4, <1>5, Zenon DEF BreakerInv

LEMMA EndType ==
    ASSUME TypeOK, NEW r \in Requests, End(r)
    PROVE  /\ req' \in [Requests -> {"new", "allowed", "probe", "ended"}]
           /\ UNCHANGED <<now, probeAt>>
BY Zenon DEF End, TypeOK

LEMMA SuccessKeeps ==
    ASSUME BreakerInv, NEW r \in Requests, OnSuccess(r)
    PROVE  BreakerInv'
<1>1. /\ req' \in [Requests -> {"new", "allowed", "probe", "ended"}]
      /\ UNCHANGED <<now, probeAt>>
  BY EndType, Zenon DEF OnSuccess, BreakerInv
<1>2. PICK k \in 0..Len(buckets) :
          /\ Outdated(k)
          /\ \/ Count(r, k, FALSE)
             \/ /\ state' = "Closed"
                /\ buckets' = <<>>
                /\ lastIsolation' = FirstIsolation
                /\ recorded' = {}
                /\ failures' = 0
                /\ openedAt' = openedAt
  BY Zenon DEF OnSuccess
<1>3. CASE Count(r, k, FALSE)
  BY <1>1, <1>2, <1>3, CountKeeps, Zenon
<1>4. CASE state' = "Closed" /\ buckets' = <<>> /\ lastIsolation' = FirstIsolation
           /\ recorded' = {} /\ failures' = 0 /\ openedAt' = openedAt
  <2>1. buckets' \in Seq(Bucket) /\ Len(buckets') = 0
    BY <1>4
  <2>2. TypeOK'
    BY <1>1, <1>4, <2>1, BreakerAssumption DEF BreakerInv, TypeOK
  <2> QED
    BY <1>4, <2>1, <2>2 DEF BreakerInv, Spaced
<1> QED
  BY <1>2, <1>3, <1>4, Zenon

LEMMA DoubledType == lastIsolation \in FirstIsolation..MaxIsolation => Doubled \in FirstIsolation..MaxIsolation
BY BreakerAssumption DEF Doubled

LEMMA ErrorKeeps ==
    ASSUME BreakerInv, NEW r \in Requests, OnError(r)
    PROVE  BreakerInv'
<1>1. /\ req' \in [Requests -> {"new", "allowed", "probe", "ended"}]
      /\ UNCHANGED <<now, probeAt>>
  BY EndType, Zenon DEF OnError, BreakerInv
<1>2. PICK k \in 0..Len(buckets) :
          /\ Outdated(k)
          /\ \/ Count(r, k, TRUE)
             \/ /\ state' = "Open"
                /\ openedAt' = now
                /\ lastIsolation' = Doubled
                /\ failures' = failures + 1
                /\ buckets' = Rolled(k)
                /\ recorded' = recorded
  BY Zenon DEF OnError
<1>3. CASE Count(r, k, TRUE)
  BY <1>1, <1>2, <1>3, CountKeeps, Zenon
<1>4. CASE state' = "Open" /\ openedAt' = now /\ lastIsolation' = Doubled
           /\ failures' = failures + 1 /\ buckets' = Rolled(k) /\ recorded' = recorded
  <2>1. WindowShape(Rolled(k))
    BY <1>2, GivesBucketsInv, RolledWindow, Zenon
  <2>2. /\ buckets' \in Seq(Bucket)
        /\ Spaced(buckets')
        /\ \A i \in 1..Len(buckets') : buckets'[i].start <= now'
    BY <1>1, <1>4, <2>1, Reshaped, Zenon
  <2>3. lastIsolation' \in FirstIsolation..MaxIsolation
    BY <1>4, DoubledType, Zenon DEF BreakerInv, TypeOK
  <2>4. openedAt' \in 0..now' /\ probeAt' \in 0..now' /\ probeAt' <= openedAt'
    BY <1>1, <1>4 DEF BreakerInv, TypeOK
  <2>5. TypeOK'
    BY <1>1, <1>4, <2>2, <2>3, <2>4 DEF BreakerInv, TypeOK
  <2> QED
    BY <2>2, <2>4, <2>5, Zenon DEF BreakerInv
<1> QED
  BY <1>2, <1>3, <1>4, Zenon

LEMMA NoVerdictKeeps ==
    ASSUME BreakerInv, NEW r \in Requests, NoVerdict(r)
    PROVE  BreakerInv'
<1>1. /\ req' \in [Requests -> {"new", "allowed", "probe", "ended"}]
      /\ UNCHANGED <<now, probeAt>>
  BY EndType, Zenon DEF NoVerdict, BreakerInv
<1>2. UNCHANGED <<state, openedAt, lastIsolation, buckets, recorded, failures>>
  BY Zenon DEF NoVerdict, breakerVars
<1> QED
  BY <1>1, <1>2, Zenon DEF BreakerInv, TypeOK

LEMMA TickKeeps ==
    ASSUME BreakerInv, Tick
    PROVE  BreakerInv'
<1>1. UNCHANGED <<state, openedAt, lastIsolation, buckets, req, recorded, failures, probeAt>>
  BY Zenon DEF Tick, breakerVars
<1>2. now \in 0..MaxTime /\ now' = now + 1 /\ now' \in 0..MaxTime
  BY BreakerAssumption DEF Tick, BreakerInv, TypeOK
<1>3. TypeOK'
  BY <1>1, <1>2 DEF BreakerInv, TypeOK
<1>4. \A i \in 1..Len(buckets') : buckets'[i].start <= now'
  <2>1. \A i \in 1..Len(buckets) : buckets[i].start \in Nat /\ buckets[i].start <= now
    <3>1. buckets \in Seq(Bucket) /\ \A i \in 1..Len(buckets) : buckets[i].start <= now
      BY Zenon DEF BreakerInv, TypeOK
    <3>2. \A i \in 1..Len(buckets) : buckets[i] \in Bucket
      BY <3>1
    <3>3. \A b \in Bucket : b.start \in Nat
      BY Zenon DEF Bucket
    <3> QED
      BY <3>1, <3>2, <3>3, Zenon
  <2> QED
    BY <1>1, <1>2, <2>1
<1> QED
  BY <1>1, <1>3, <1>4, Zenon DEF BreakerInv

\* The invariant behind the theorems: types, buckets a slice apart within one
\* window, and an open circuit that opened no earlier than its last probe.
THEOREM BreakerInvHolds == Spec => []BreakerInv
<1>1. Init => BreakerInv
  BY BreakerInvInit, Zenon
<1>2. BreakerInv /\ [Next]_vars => BreakerInv'
  <2> SUFFICES ASSUME BreakerInv, [Next]_vars PROVE BreakerInv'
    BY Zenon
  <2>1. CASE Tick
    BY <2>1, TickKeeps, Zenon
  <2>2. ASSUME NEW r \in Requests, AllowRequest(r) \/ OnSuccess(r) \/ OnError(r) \/ NoVerdict(r)
        PROVE  BreakerInv'
    BY <2>2, AllowKeeps, SuccessKeeps, ErrorKeeps, NoVerdictKeeps, Zenon
  <2>3. CASE UNCHANGED vars
    BY <2>3, Zenon DEF BreakerInv, TypeOK, vars, breakerVars
  <2> QED
    BY <2>1, <2>2, <2>3, Zenon DEF Next
<1> QED
  BY <1>1, <1>2, PTL DEF Spec

-----------------------------------------------------------------------------
(* Theorems *)

\* Every variable of the breaker keeps its type; in particular lastIsolation_ stays
\* between 100 ms and kMaxIsolation.
THEOREM BreakerTypes == Spec => []TypeOK
BY BreakerInvHolds, PTL DEF BreakerInv

\* rollWindowLocked and record keep the buckets a slice apart and within one
\* window, so the deque never holds more than Window / Slice + 1 of them.
THEOREM BucketsStayBounded == Spec => []BucketsBounded
<1>1. BreakerInv => BucketsBounded
  <2> SUFFICES ASSUME BreakerInv, NEW i \in 1..Len(buckets)
               PROVE  /\ (i - 1) * Slice <= buckets[i].start - buckets[1].start
                      /\ buckets[i].start - buckets[1].start < Window
    BY Zenon DEF BucketsBounded
  <2>1. 1 \in 1..Len(buckets) /\ 1 <= i
    BY DEF BreakerInv, TypeOK
  <2> QED
    BY <2>1, Zenon DEF BreakerInv, Spaced
<1> QED
  BY <1>1, BreakerInvHolds, PTL

\* allowRequest grants a probe only when the isolation in force has passed since
\* the circuit opened and since the previous probe.
THEOREM ProbesAreSpaced == Spec => ProbeSpacing
<1>1. BreakerInv /\ [Next]_vars
        => [state # "HalfOpen" /\ state' = "HalfOpen" => now - probeAt >= lastIsolation]_vars
  <2> SUFFICES ASSUME BreakerInv, Next, state # "HalfOpen", state' = "HalfOpen"
               PROVE  now - probeAt >= lastIsolation
    BY Zenon
  <2>1. PICK r \in Requests : AllowRequest(r)
    BY Zenon DEF Next, Tick, OnSuccess, OnError, NoVerdict, Count, breakerVars
  <2>2. AllowOpen(r) /\ IsolationOver
    BY <2>1, Zenon DEF AllowRequest, AllowClosed, AllowOpen, AllowHalfOpen
  <2>3. state = "Open" /\ now - openedAt >= lastIsolation
    BY <2>2, Zenon DEF AllowOpen, IsolationOver
  <2> QED
    BY <2>3, BreakerAssumption, SMTT(20) DEF BreakerInv, TypeOK
<1> QED
  BY <1>1, BreakerInvHolds, PTL DEF Spec, ProbeSpacing

-----------------------------------------------------------------------------
(* Naturals *)

Below == {p \in Nat \X Nat : p[1] < p[2]}

\* A set of naturals that is not empty has a least member.
LEMMA Least ==
    ASSUME NEW T \in SUBSET Nat, T # {}
    PROVE  \E x \in T : \A y \in T : x <= y
<1>1. IsWellFoundedOn(Below, Nat)
  BY NatLessThanWellFounded, Zenon DEF OpToRel, Below
<1>2. PICK x \in T : \A y \in T : <<y, x>> \notin Below
  BY <1>1, WFMin, Zenon
<1>3. ASSUME NEW y \in T PROVE x <= y
  <2>1. <<y, x>> \in Nat \X Nat /\ <<y, x>>[1] = y /\ <<y, x>>[2] = x
    BY Zenon
  <2>2. ~(y < x)
    BY <1>2, <2>1, Zenon DEF Below
  <2> QED BY <2>2
<1> QED BY <1>3, Zenon

\* Induction over the naturals, with a set in the place of a predicate.
LEMMA Induction ==
    ASSUME NEW S, 0 \in S, \A n \in Nat : n \in S => n + 1 \in S
    PROVE  Nat \subseteq S
<1> SUFFICES ASSUME Nat \ S # {} PROVE FALSE
  BY Zenon
<1>1. PICK x \in Nat \ S : \A y \in Nat \ S : x <= y
  BY Least, Zenon
<1> QED BY <1>1

-----------------------------------------------------------------------------
(* Adding up *)

\* The partial sums that tally computes exist, for every sequence of counts.
LEMMA SumsExist ==
    ASSUME NEW n \in Nat, NEW v
    PROVE  \E s : s = [i \in 0..n |-> IF i = 0 THEN 0 ELSE s[i - 1] + v[i]]
<1> DEFINE Sums(m, s) == s = [i \in 0..m |-> IF i = 0 THEN 0 ELSE s[i - 1] + v[i]]
           S == {m \in Nat : \E s : Sums(m, s)}
<1>1. 0 \in S
  <2>1. Sums(0, [i \in 0..0 |-> 0])
    OBVIOUS
  <2> QED BY <2>1, Zenon
<1>2. ASSUME NEW m \in Nat, m \in S PROVE m + 1 \in S
  <2>1. PICK s : Sums(m, s)
    BY <1>2, Zenon
  <2> DEFINE t == [i \in 0..(m + 1) |-> IF i = m + 1 THEN s[m] + v[m + 1] ELSE s[i]]
             u == [i \in 0..(m + 1) |-> IF i = 0 THEN 0 ELSE t[i - 1] + v[i]]
  <2>2. ASSUME NEW i \in 0..(m + 1) PROVE t[i] = u[i]
    <3>1. CASE i = m + 1
      <4>1. m \in 0..(m + 1) /\ m # m + 1 /\ i - 1 = m /\ i # 0
        BY <3>1
      <4> QED BY <3>1, <4>1, Zenon
    <3>2. CASE i = 0
      <4>1. 0 # m + 1 /\ 0 \in 0..m
        OBVIOUS
      <4>2. s[0] = 0
        BY <2>1, <4>1, Zenon
      <4> QED BY <3>2, <4>1, <4>2, Zenon
    <3>3. CASE i # 0 /\ i # m + 1
      <4>1. i \in 0..m /\ i - 1 \in 0..(m + 1) /\ i - 1 # m + 1
        BY <3>3
      <4>2. s[i] = s[i - 1] + v[i]
        BY <2>1, <3>3, <4>1, Zenon
      <4> QED BY <3>3, <4>1, <4>2, Zenon
    <3> QED BY <3>1, <3>2, <3>3, Zenon
  <2>3. t = u
    BY <2>2, Zenon
  <2>4. Sums(m + 1, t)
    BY <2>3, Zenon
  <2> HIDE DEF t, Sums
  <2> QED BY <2>4
<1> HIDE DEF S
<1>3. Nat \subseteq S
  BY <1>1, <1>2, Induction, Zenon
<1> QED BY <1>3, Zenon DEF S

LEMMA TallySums ==
    ASSUME NEW v, Len(v) \in Nat
    PROVE  \E s : /\ Tally(v) = s[Len(v)] /\ s[0] = 0
                  /\ \A i \in 0..Len(v) : i # 0 => s[i] = s[i - 1] + v[i]
<1> DEFINE Sums(s) == s = [i \in 0..Len(v) |-> IF i = 0 THEN 0 ELSE s[i - 1] + v[i]]
           sum == CHOOSE s : Sums(s)
<1>1. \E s : Sums(s)
  BY SumsExist, Zenon
<1>2. Tally(v) = sum[Len(v)]
  BY Zenon DEF Tally
<1> HIDE DEF Sums
<1>3. Sums(sum)
  BY <1>1, Zenon
<1> HIDE DEF sum
<1>4. PICK s : s = sum /\ Sums(s)
  BY <1>3, Zenon
<1>5. ASSUME NEW i \in 0..Len(v) PROVE s[i] = IF i = 0 THEN 0 ELSE s[i - 1] + v[i]
  BY <1>4, Zenon DEF Sums
<1>6. 0 \in 0..Len(v)
  OBVIOUS
<1>7. s[0] = 0
  BY <1>5, <1>6, Zenon
<1>8. \A i \in 0..Len(v) : i # 0 => s[i] = s[i - 1] + v[i]
  BY <1>5, Zenon
<1>9. Tally(v) = s[Len(v)]
  BY <1>2, <1>4, Zenon
<1> QED BY <1>7, <1>8, <1>9, Zenon

\* v holds the sizes of the disjoint sets A[1], ..., A[n].
Sizes(n, A, v) ==
    /\ Len(v) = n
    /\ \A i \in 1..n : IsFiniteSet(A[i]) /\ v[i] = Cardinality(A[i])
    /\ \A i, j \in 1..n : i # j => A[i] \cap A[j] = {}

\* The tally of the sizes of disjoint sets is the size of their union.
LEMMA TallyOfSizes ==
    ASSUME NEW n \in Nat, NEW A, NEW v, Sizes(n, A, v)
    PROVE  /\ IsFiniteSet(UNION {A[i] : i \in 1..n})
           /\ Tally(v) = Cardinality(UNION {A[i] : i \in 1..n})
<1> USE DEF Sizes
<1> DEFINE U(m) == UNION {A[i] : i \in 1..m}
<1>1. PICK s : /\ Tally(v) = s[n] /\ s[0] = 0
               /\ \A i \in 0..n : i # 0 => s[i] = s[i - 1] + v[i]
  BY TallySums, Zenon
<1> DEFINE S == {m \in Nat : m <= n => IsFiniteSet(U(m)) /\ s[m] = Cardinality(U(m))}
<1>2. 0 \in S
  <2>1. U(0) = {}
    OBVIOUS
  <2> HIDE DEF U
  <2> QED BY <1>1, <2>1, FS_EmptySet, Zenon
<1>3. ASSUME NEW m \in Nat, m \in S PROVE m + 1 \in S
  <2> SUFFICES ASSUME m + 1 <= n
               PROVE  IsFiniteSet(U(m + 1)) /\ s[m + 1] = Cardinality(U(m + 1))
    OBVIOUS
  <2>1. m + 1 \in 1..n /\ m + 1 \in 0..n /\ m + 1 # 0 /\ (m + 1) - 1 = m /\ m <= n
    OBVIOUS
  <2>2. IsFiniteSet(U(m)) /\ s[m] = Cardinality(U(m))
    BY <1>3, <2>1, Zenon
  <2>3. IsFiniteSet(A[m + 1]) /\ v[m + 1] = Cardinality(A[m + 1])
    BY <2>1, Zenon
  <2>4. U(m + 1) = U(m) \cup A[m + 1]
    <3>1. 1..(m + 1) = (1..m) \cup {m + 1}
      OBVIOUS
    <3> QED BY <3>1
  <2>5. U(m) \cap A[m + 1] = {}
    <3>1. ASSUME NEW i \in 1..m PROVE A[i] \cap A[m + 1] = {}
      <4>1. i \in 1..n /\ i # m + 1
        BY <2>1
      <4> QED BY <2>1, <4>1, Zenon
    <3> QED BY <3>1
  <2> HIDE DEF U
  <2>6. /\ IsFiniteSet(U(m) \cup A[m + 1])
        /\ Cardinality(U(m) \cup A[m + 1]) =
               Cardinality(U(m)) + Cardinality(A[m + 1]) - Cardinality({})
    <3>1. /\ IsFiniteSet(U(m) \cup A[m + 1])
          /\ Cardinality(U(m) \cup A[m + 1]) =
                 Cardinality(U(m)) + Cardinality(A[m + 1]) - Cardinality(U(m) \cap A[m + 1])
      BY <2>2, <2>3, FS_Union, Zenon
    <3> QED BY <2>5, <3>1, Zenon
  <2>7. Cardinality({}) = 0 /\ Cardinality(U(m)) \in Nat /\ Cardinality(A[m + 1]) \in Nat
    BY <2>2, <2>3, FS_EmptySet, FS_CardinalityType, Zenon
  <2>8. s[m + 1] = s[m] + v[m + 1]
    BY <1>1, <2>1, Zenon
  <2>9. PICK a \in Nat, b \in Nat : a = Cardinality(U(m)) /\ b = Cardinality(A[m + 1])
    BY <2>7, Zenon
  <2>10. s[m + 1] = a + b
    BY <2>2, <2>3, <2>8, <2>9, Zenon
  <2>11. Cardinality(U(m + 1)) = a + b
    <3>1. Cardinality(U(m + 1)) = a + b - 0
      BY <2>4, <2>6, <2>7, <2>9, Zenon
    <3> QED BY <3>1
  <2>12. IsFiniteSet(U(m + 1))
    BY <2>4, <2>6, Zenon
  <2> QED BY <2>10, <2>11, <2>12, Zenon
<1> HIDE DEF S
<1>4. n \in S
  BY <1>2, <1>3, Induction, Zenon
<1> QED BY <1>1, <1>4 DEF S

-----------------------------------------------------------------------------
(* What the buckets count *)

\* How long a bucket takes results: record rolls the window first.
Span == IF Slice < Window THEN Slice ELSE Window

\* The results of R that fell into bucket b.
Held(R, b) == {x \in R : b.start <= x.at /\ x.at - b.start < Span}

Exact(R, bs) ==
    \A i \in 1..Len(bs) : /\ bs[i].requests = Cardinality(Held(R, bs[i]))
                          /\ bs[i].errors = Cardinality(Errors(Held(R, bs[i])))

\* At time t, result x is old enough for its bucket to have been dropped.
Old(x, t) == x.at < t /\ t - x.at > Window - Slice

Covered(R, t, bs) ==
    \A x \in R : x.at <= t /\ (Old(x, t) \/ \E i \in 1..Len(bs) : x \in Held(R, bs[i]))

\* The inductive invariant: every bucket counts the results that fell into it, and a
\* result in no bucket is old.  A request is recorded once, as it ends.
WindowInv ==
    /\ IsFiniteSet(recorded)
    /\ Exact(recorded, buckets)
    /\ Covered(recorded, now, buckets)
    /\ \A x \in recorded : req[x.req] = "ended"

LEMMA SpanFacts == Span \in Nat \ {0} /\ Span <= Slice /\ Span <= Window
  BY BreakerAssumption DEF Span

LEMMA BucketFacts == \A b \in Bucket : b.start \in Nat /\ b.requests \in Nat /\ b.errors \in Nat
  BY Zenon DEF Bucket

LEMMA ResultFacts == \A x \in Result : x.at \in Nat /\ x.req \in Requests /\ x.error \in BOOLEAN
  BY Zenon DEF Result

LEMMA Appended ==
    ASSUME NEW q \in Seq(Bucket), NEW e \in Bucket
    PROVE  /\ Len(Append(q, e)) = Len(q) + 1 /\ Append(q, e)[Len(q) + 1] = e
           /\ \A i \in 1..Len(q) : Append(q, e)[i] = q[i]
OBVIOUS

LEMMA StartOf ==
    ASSUME NEW bs \in Seq(Bucket), NEW i \in 1..Len(bs)
    PROVE  bs[i].start \in Nat
<1>1. bs[i] \in Bucket
  OBVIOUS
<1> QED BY <1>1, BucketFacts, Zenon

\* A bucket that ends its span outside the window holds old results.
LEMMA OldEnough ==
    ASSUME NEW t \in Nat, NEW a \in Nat, NEW b \in Nat, a - b < Span, t - b >= Window
    PROVE  a < t /\ t - a > Window - Slice
<1>1. PICK w \in Nat, s \in Nat, d \in Nat : /\ w = Window /\ s = Slice /\ d = Span
                                            /\ d <= s /\ d <= w
  BY SpanFacts, BreakerAssumption, Zenon
<1>2. a - b < d /\ t - b >= w
  BY <1>1, Zenon
<1>3. a < t /\ t - a > w - s
  BY <1>1, <1>2
<1> QED BY <1>1, <1>3, Zenon

\* Spaced, for two buckets that differ.
LEMMA SliceApart ==
    ASSUME NEW bs \in Seq(Bucket), Spaced(bs), NEW i \in 1..Len(bs), NEW j \in 1..Len(bs), i <= j
    PROVE  bs[i].start <= bs[j].start /\ (i # j => bs[j].start - bs[i].start >= Slice)
<1>1. PICK x \in Nat, y \in Nat : x = bs[i].start /\ y = bs[j].start
  BY BucketFacts
<1>2. (j - i) * Slice <= y - x
  BY <1>1, Zenon DEF Spaced
<1>3. PICK d \in Nat : d = j - i
  OBVIOUS
<1>4. Slice \in Nat
  BY BreakerAssumption, Zenon
<1>5. d = 0 => x <= y
  <2>1. d = 0 => d * Slice = 0
    BY <1>4
  <2> QED BY <1>2, <1>3, <2>1
<1>6. d # 0 => y - x >= Slice
  <2> SUFFICES ASSUME d # 0 PROVE y - x >= Slice
    BY Zenon
  <2>1. PICK e \in Nat : d = e + 1
    <3>1. d - 1 \in Nat /\ d = (d - 1) + 1
      OBVIOUS
    <3> QED BY <3>1, Zenon
  <2>2. d * Slice = e * Slice + Slice
    BY <1>4, <2>1, OneMore
  <2>3. e * Slice >= 0 /\ e * Slice \in Int
    BY <1>4, NotNegative
  <2>4. PICK f \in Int : f = e * Slice
    BY <2>3, Zenon
  <2>5. f + Slice <= y - x /\ f >= 0
    BY <1>2, <1>3, <2>2, <2>3, <2>4, Zenon
  <2> QED BY <1>4, <2>5
<1>7. d = 0 <=> i = j
  BY <1>3
<1> QED BY <1>1, <1>4, <1>5, <1>6, <1>7, SMTT(20)

\* The buckets that a roll drops and keeps, and the one it may open.
Drops(k, bs) ==
    /\ \A i \in 1..k : now - buckets[i].start >= Window
    /\ \A i \in 1..Len(buckets) : i > k => i - k \in 1..Len(bs) /\ bs[i - k] = buckets[i]
    /\ \A i \in 1..Len(bs) :
           \/ k + i \in 1..Len(buckets) /\ bs[i] = buckets[k + i]
           \/ /\ i = Len(bs) /\ bs[i] = [start |-> now, requests |-> 0, errors |-> 0]
              /\ \A j \in 1..Len(buckets) : j > k => now - buckets[j].start >= Slice

LEMMA RolledBuckets ==
    ASSUME BucketsInv, NEW k \in 0..Len(buckets), Outdated(k), NEW bs, bs = Rolled(k)
    PROVE  /\ WindowShape(bs)
           /\ \A i \in 1..Len(bs) : now - bs[i].start < Window
           /\ now - bs[Len(bs)].start < Span
           /\ Drops(k, bs)
<1> DEFINE kept == SubSeq(buckets, k + 1, Len(buckets))
           new == [start |-> now, requests |-> 0, errors |-> 0]
<1>1. /\ kept \in Seq(Bucket)
      /\ Len(kept) = Len(buckets) - k
      /\ \A i \in 1..Len(kept) : kept[i] = buckets[k + i]
      /\ Spaced(kept)
      /\ \A i \in 1..Len(kept) : kept[i].start <= now
  BY Suffix, Zenon
<1>2. WindowShape(bs)
  BY RolledWindow, Zenon
<1>3. bs = IF kept = <<>> \/ now - kept[Len(kept)].start >= Slice THEN Append(kept, new) ELSE kept
  BY Zenon DEF Rolled, Opened
<1> HIDE DEF kept
<1>4. PICK n \in Nat, m \in Nat : n = Len(kept) /\ m = Len(buckets) /\ n = m - k /\ k \in Nat
  <2>1. Len(buckets) \in Nat /\ Len(kept) \in Nat
    BY <1>1 DEF BucketsInv
  <2>2. k \in Nat
    BY <2>1
  <2> QED BY <1>1, <2>1, <2>2, Zenon
<1>5. now \in Nat /\ Window \in Nat \ {0} /\ Slice \in Nat \ {0}
  BY BreakerAssumption, Zenon DEF BucketsInv
<1>6. \A i \in 1..k : now - buckets[i].start >= Window
  BY Zenon DEF Outdated
<1>7. ASSUME NEW i \in 1..n PROVE now - kept[i].start < Window
  <2>1. 1 \in 1..n /\ k < m /\ 1 <= i
    BY <1>4
  <2>2. kept[1] = buckets[k + 1]
    BY <1>1, <1>4, <2>1, Zenon
  <2>3. now - kept[1].start < Window
    BY <1>4, <2>1, <2>2, Zenon DEF Outdated
  <2>4. kept[1].start <= kept[i].start
    BY <1>1, <1>4, <2>1, SliceApart, Zenon
  <2>5. PICK a \in Nat, b \in Nat : a = kept[1].start /\ b = kept[i].start
    <3>1. kept[1].start \in Nat /\ kept[i].start \in Nat
      BY <1>1, <1>4, <2>1, StartOf, Zenon
    <3> QED BY <3>1, Zenon
  <2>6. now - a < Window /\ a <= b
    BY <2>3, <2>4, <2>5, Zenon
  <2>7. now - b < Window
    BY <1>5, <2>6, Within
  <2> QED BY <2>5, <2>7, Zenon
<1>8. ASSUME NEW i \in 1..m, i > k PROVE i - k \in 1..n /\ kept[i - k] = buckets[i]
  <2>1. i - k \in 1..n /\ k + (i - k) = i
    BY <1>4, <1>8
  <2> QED BY <1>1, <1>4, <2>1, Zenon
<1>9. ASSUME NEW i \in 1..n PROVE k + i \in 1..m /\ kept[i] = buckets[k + i]
  BY <1>1, <1>4
<1>10. CASE kept = <<>> \/ now - kept[Len(kept)].start >= Slice
  <2>1. /\ Len(bs) = n + 1 /\ bs[n + 1] = new /\ \A i \in 1..n : bs[i] = kept[i]
    <3>1. bs = Append(kept, new)
      BY <1>3, <1>10, Zenon
    <3>2. PICK e \in Bucket : e = new
      BY <1>5, Zenon DEF Bucket
    <3>3. /\ Len(Append(kept, e)) = Len(kept) + 1 /\ Append(kept, e)[Len(kept) + 1] = e
          /\ \A i \in 1..Len(kept) : Append(kept, e)[i] = kept[i]
      BY <1>1, Appended, Zenon
    <3> QED BY <1>4, <3>1, <3>2, <3>3, Zenon
  <2>2. ASSUME NEW j \in 1..m, j > k PROVE now - buckets[j].start >= Slice
    <3>1. j - k \in 1..n /\ kept[j - k] = buckets[j] /\ n \in 1..n /\ j - k <= n
      BY <1>4, <1>8, <2>2
    <3>2. kept # <<>>
      <4>1. Len(kept) > 0
        BY <1>4, <3>1
      <4> QED BY <4>1
    <3>3. now - kept[n].start >= Slice
      BY <1>4, <1>10, <3>2, Zenon
    <3>4. kept[j - k].start <= kept[n].start
      BY <1>1, <1>4, <3>1, SliceApart, Zenon
    <3>5. PICK a \in Nat, b \in Nat : a = kept[j - k].start /\ b = kept[n].start
      <4>1. kept[j - k].start \in Nat /\ kept[n].start \in Nat
        BY <1>1, <1>4, <3>1, StartOf, Zenon
      <4> QED BY <4>1, Zenon
    <3>6. now - b >= Slice /\ a <= b
      BY <3>3, <3>4, <3>5, Zenon
    <3>7. now - a >= Slice
      BY <1>5, <3>6, Longer
    <3> QED BY <3>1, <3>5, <3>7, Zenon
  <2>3. now - new.start = 0
    BY <1>5
  <2>4. ASSUME NEW i \in 1..(n + 1)
        PROVE  /\ now - bs[i].start < Window
               /\ \/ k + i \in 1..m /\ bs[i] = buckets[k + i]
                  \/ i = n + 1 /\ bs[i] = new
    <3>1. CASE i \in 1..n
      BY <1>7, <1>9, <2>1, <3>1, Zenon
    <3>2. CASE i = n + 1
      BY <1>5, <2>1, <2>3, <3>2, SMTT(20)
    <3> QED BY <3>1, <3>2
  <2>5. now - bs[n + 1].start < Span
    BY <2>1, <2>3, SpanFacts, SMTT(20)
  <2>6. ASSUME NEW i \in 1..m, i > k PROVE i - k \in 1..(n + 1) /\ bs[i - k] = buckets[i]
    BY <1>8, <2>1, <2>6
  <2> HIDE DEF new
  <2> QED BY <1>2, <1>4, <1>6, <2>1, <2>2, <2>4, <2>5, <2>6, Zenon DEF new, Drops
<1>11. CASE ~(kept = <<>> \/ now - kept[Len(kept)].start >= Slice)
  <2>1. bs = kept /\ Len(bs) = n /\ n \in 1..n
    BY <1>1, <1>3, <1>4, <1>11
  <2>2. now - kept[n].start < Span
    <3>1. kept[n].start \in Nat
      BY <1>1, <1>4, <2>1, StartOf, Zenon
    <3>2. now - kept[n].start < Slice
      BY <1>4, <1>5, <1>11, <3>1, SMTT(20)
    <3> QED BY <1>7, <2>1, <3>2, Zenon DEF Span
  <2>3. ASSUME NEW i \in 1..n PROVE k + i \in 1..m /\ bs[i] = buckets[k + i] /\ now - bs[i].start < Window
    BY <1>7, <1>9, <2>1, Zenon
  <2>4. ASSUME NEW i \in 1..m, i > k PROVE i - k \in 1..n /\ bs[i - k] = buckets[i]
    BY <1>8, <2>1, <2>4, Zenon
  <2> QED BY <1>2, <1>4, <1>6, <2>1, <2>2, <2>3, <2>4, Zenon DEF Drops
<1> QED BY <1>10, <1>11, Zenon

\* Rolling the window loses only old results, and the bucket it may open is empty.
LEMMA RollKeeps ==
    ASSUME BucketsInv, NEW k \in 0..Len(buckets), Outdated(k), NEW R, R \subseteq Result,
           Exact(R, buckets), Covered(R, now, buckets), NEW bs, bs = Rolled(k)
    PROVE  Exact(R, bs) /\ Covered(R, now, bs)
<1>1. /\ \A i \in 1..k : now - buckets[i].start >= Window
      /\ \A i \in 1..Len(buckets) : i > k => i - k \in 1..Len(bs) /\ bs[i - k] = buckets[i]
      /\ \A i \in 1..Len(bs) :
             \/ k + i \in 1..Len(buckets) /\ bs[i] = buckets[k + i]
             \/ /\ i = Len(bs) /\ bs[i] = [start |-> now, requests |-> 0, errors |-> 0]
                /\ \A j \in 1..Len(buckets) : j > k => now - buckets[j].start >= Slice
  <2>1. Drops(k, bs)
    BY RolledBuckets, Zenon
  <2> QED BY <2>1, Zenon DEF Drops
<1>2. now \in Nat /\ Window \in Nat /\ Slice \in Nat
  BY BreakerAssumption, Zenon DEF BucketsInv
<1>3. ASSUME NEW i \in 1..Len(buckets) PROVE buckets[i].start \in Nat
  BY BucketFacts DEF BucketsInv
<1>4. ASSUME NEW x \in R PROVE x.at \in Nat /\ x.at <= now
  BY ResultFacts, Zenon DEF Covered
<1>5. ASSUME NEW x \in R, NEW i \in 1..k, i \in 1..Len(buckets), x \in Held(R, buckets[i])
      PROVE  Old(x, now)
  <2>1. PICK a \in Nat, b \in Nat : a = x.at /\ b = buckets[i].start
    BY <1>3, <1>4, <1>5, Zenon
  <2>2. a - b < Span /\ now - b >= Window
    BY <1>1, <1>5, <2>1, Zenon DEF Held
  <2>3. a < now /\ now - a > Window - Slice
    BY <1>2, <2>1, <2>2, OldEnough, Zenon
  <2> QED BY <2>1, <2>3, Zenon DEF Old
<1>6. Covered(R, now, bs)
  <2> SUFFICES ASSUME NEW x \in R, ~Old(x, now) PROVE \E i \in 1..Len(bs) : x \in Held(R, bs[i])
    BY <1>4, Zenon DEF Covered
  <2>1. PICK i \in 1..Len(buckets) : x \in Held(R, buckets[i])
    BY Zenon DEF Covered
  <2>2. i > k
    <3>1. ~(i \in 1..k)
      BY <1>5, <2>1, Zenon
    <3> QED BY <3>1
  <2> QED BY <1>1, <2>1, <2>2, Zenon
<1>7. ASSUME NEW i \in 1..Len(bs), bs[i] = [start |-> now, requests |-> 0, errors |-> 0],
             \A j \in 1..Len(buckets) : j > k => now - buckets[j].start >= Slice
      PROVE  Held(R, bs[i]) = {}
  <2> SUFFICES ASSUME NEW x \in Held(R, bs[i]) PROVE FALSE
    BY Zenon
  <2>1. x \in R /\ x.at = now
    <3>1. x \in R /\ now <= x.at
      BY <1>7 DEF Held
    <3> QED BY <1>2, <1>4, <3>1, SMTT(20)
  <2>2. PICK j \in 1..Len(buckets) : x \in Held(R, buckets[j])
    <3>1. ~Old(x, now)
      BY <1>2, <2>1 DEF Old
    <3> QED BY <2>1, <3>1, Zenon DEF Covered
  <2>3. j > k
    <3>1. ~(j \in 1..k)
      BY <1>2, <1>5, <2>1, <2>2, SMTT(20) DEF Old
    <3> QED BY <3>1, SMTT(20)
  <2>4. now - buckets[j].start >= Slice
    BY <1>7, <2>3, Zenon
  <2>5. now - buckets[j].start < Span
    BY <2>1, <2>2, Zenon DEF Held
  <2> QED BY <1>2, <1>3, <2>4, <2>5, SpanFacts, SMTT(20)
<1>8. Exact(R, bs)
  <2> SUFFICES ASSUME NEW i \in 1..Len(bs)
               PROVE  /\ bs[i].requests = Cardinality(Held(R, bs[i]))
                      /\ bs[i].errors = Cardinality(Errors(Held(R, bs[i])))
    BY Zenon DEF Exact
  <2>1. CASE k + i \in 1..Len(buckets) /\ bs[i] = buckets[k + i]
    BY <2>1, Zenon DEF Exact
  <2>2. CASE /\ bs[i] = [start |-> now, requests |-> 0, errors |-> 0]
             /\ \A j \in 1..Len(buckets) : j > k => now - buckets[j].start >= Slice
    <3>1. Held(R, bs[i]) = {}
      BY <1>7, <2>2, Zenon
    <3>2. Errors(Held(R, bs[i])) = {}
      BY <3>1, Zenon DEF Errors
    <3>3. Cardinality({}) = 0
      BY FS_EmptySet, Zenon
    <3>4. bs[i].requests = 0 /\ bs[i].errors = 0
      BY <2>2
    <3> QED BY <3>1, <3>2, <3>3, <3>4, Zenon
  <2> QED BY <1>1, <2>1, <2>2, Zenon
<1> QED BY <1>6, <1>8, Zenon

\* A new result goes into the last bucket of a rolled window, and into no other.
LEMMA RecordKeeps ==
    ASSUME now \in Nat, NEW bs, WindowShape(bs), now - bs[Len(bs)].start < Span,
           NEW R, R \subseteq Result, IsFiniteSet(R), Exact(R, bs), Covered(R, now, bs),
           NEW x \in Result, x \notin R, x.at = now, NEW error \in BOOLEAN, x.error = error,
           NEW out, out = Recorded(bs, error), NEW Q, Q = R \cup {x}
    PROVE  Exact(Q, out) /\ Covered(Q, now, out)
<1>1. PICK n \in Nat : n = Len(bs) /\ n \in 1..n /\ n > 0
  BY DEF WindowShape
<1>2. bs \in Seq(Bucket) /\ Spaced(bs) /\ \A i \in 1..n : bs[i] \in Bucket /\ bs[i].start <= now
  BY <1>1 DEF WindowShape
<1>3. /\ Len(out) = n
      /\ \A i \in 1..n : i # n => out[i] = bs[i]
      /\ out[n].start = bs[n].start
      /\ out[n].requests = bs[n].requests + 1
      /\ out[n].errors = bs[n].errors + (IF error THEN 1 ELSE 0)
  BY <1>1, <1>2 DEF Recorded
<1>4. ASSUME NEW i \in 1..n PROVE out[i].start = bs[i].start
  BY <1>3, Zenon
<1>5. ASSUME NEW i \in 1..n PROVE Held(Q, out[i]) = Held(Q, bs[i])
  BY <1>4, Zenon DEF Held
<1>6. Held(Q, bs[n]) = Held(R, bs[n]) \cup {x}
  <2>1. x \in Held(Q, bs[n])
    BY <1>1, <1>2, Zenon DEF Held
  <2> QED BY <2>1, Zenon DEF Held
<1>7. ASSUME NEW i \in 1..n, i # n PROVE Held(Q, bs[i]) = Held(R, bs[i])
  <2>1. PICK a \in Nat, b \in Nat : a = bs[i].start /\ b = bs[n].start /\ b <= now
    BY <1>1, <1>2, BucketFacts, Zenon
  <2>2. b - a >= Slice
    <3>1. /\ bs \in Seq(Bucket) /\ Spaced(bs) /\ i \in 1..Len(bs) /\ n \in 1..Len(bs)
          /\ i <= n /\ i # n
      BY <1>1, <1>2, <1>7
    <3>2. bs[n].start - bs[i].start >= Slice
      BY <3>1, SliceApart, Zenon
    <3> QED BY <2>1, <3>2, Zenon
  <2>3. ~(now - a < Span)
    <3>1. PICK d \in Nat : d = Slice
      BY BreakerAssumption, Zenon
    <3>2. now - a >= d
      BY <2>1, <2>2, <3>1, SMTT(20)
    <3>3. PICK e \in Nat : e = Span /\ e <= d
      BY <3>1, SpanFacts, Zenon
    <3> QED BY <2>1, <3>2, <3>3, SMTT(20)
  <2>4. x \notin Held(Q, bs[i])
    BY <2>1, <2>3, Zenon DEF Held
  <2> QED BY <2>4, Zenon DEF Held
<1>8. Covered(Q, now, out)
  <2> SUFFICES ASSUME NEW y \in Q
               PROVE  y.at <= now /\ (Old(y, now) \/ \E i \in 1..n : y \in Held(Q, out[i]))
    BY <1>3, Zenon DEF Covered
  <2>1. CASE y = x
    <3>1. y \in Held(Q, out[n])
      BY <1>1, <1>5, <1>6, <2>1, Zenon
    <3> QED BY <1>1, <2>1, <3>1
  <2>2. CASE y \in R
    <3>1. y.at <= now /\ (Old(y, now) \/ \E i \in 1..n : y \in Held(R, bs[i]))
      BY <1>1, <2>2, Zenon DEF Covered
    <3>2. ASSUME NEW i \in 1..n, y \in Held(R, bs[i]) PROVE y \in Held(Q, out[i])
      BY <1>5, <1>6, <1>7, <3>2, Zenon
    <3> QED BY <3>1, <3>2, Zenon
  <2> QED BY <2>1, <2>2, Zenon
<1>9. /\ bs[n].requests + 1 = Cardinality(Held(Q, bs[n]))
      /\ bs[n].errors + (IF error THEN 1 ELSE 0) = Cardinality(Errors(Held(Q, bs[n])))
  <2>1. IsFiniteSet(Held(R, bs[n])) /\ x \notin Held(R, bs[n])
    <3>1. Held(R, bs[n]) \subseteq R
      BY Zenon DEF Held
    <3> QED BY <3>1, FS_Subset, Zenon
  <2>2. IsFiniteSet(Errors(Held(R, bs[n]))) /\ x \notin Errors(Held(R, bs[n]))
    <3>1. Errors(Held(R, bs[n])) \subseteq Held(R, bs[n])
      BY Zenon DEF Errors
    <3> QED BY <2>1, <3>1, FS_Subset, Zenon
  <2>3. /\ bs[n].requests = Cardinality(Held(R, bs[n]))
        /\ bs[n].errors = Cardinality(Errors(Held(R, bs[n])))
    BY <1>1, Zenon DEF Exact
  <2>4. Cardinality(Held(Q, bs[n])) = bs[n].requests + 1
    BY <1>6, <2>1, <2>3, FS_AddElement, ZenonT(30)
  <2>5. CASE error
    <3>1. Errors(Held(Q, bs[n])) = Errors(Held(R, bs[n])) \cup {x}
      BY <1>6, <2>5, Zenon DEF Errors
    <3>2. Cardinality(Errors(Held(Q, bs[n]))) = bs[n].errors + 1
      BY <2>2, <2>3, <3>1, FS_AddElement, ZenonT(30)
    <3> QED BY <2>4, <2>5, <3>2, Zenon
  <2>6. CASE ~error
    <3>1. Errors(Held(Q, bs[n])) = Errors(Held(R, bs[n]))
      BY <1>6, <2>6, Zenon DEF Errors
    <3>2. bs[n].errors \in Nat
      BY <1>1, <1>2, BucketFacts, Zenon
    <3>3. bs[n].errors + (IF error THEN 1 ELSE 0) = bs[n].errors
      BY <2>6, <3>2, SMTT(20)
    <3> QED BY <2>3, <2>4, <3>1, <3>3, Zenon
  <2> QED BY <2>5, <2>6, Zenon
<1>10. Exact(Q, out)
  <2> SUFFICES ASSUME NEW i \in 1..n
               PROVE  /\ out[i].requests = Cardinality(Held(Q, out[i]))
                      /\ out[i].errors = Cardinality(Errors(Held(Q, out[i])))
    BY <1>3, Zenon DEF Exact
  <2>1. CASE i = n
    <3>1. Held(Q, out[n]) = Held(Q, bs[n])
      BY <1>1, <1>5, Zenon
    <3> QED BY <1>3, <1>9, <2>1, <3>1, Zenon
  <2>2. CASE i # n
    <3>1. /\ bs[i].requests = Cardinality(Held(R, bs[i]))
          /\ bs[i].errors = Cardinality(Errors(Held(R, bs[i])))
      BY <1>1, Zenon DEF Exact
    <3> QED BY <1>3, <1>5, <1>7, <2>2, <3>1, Zenon
  <2> QED BY <2>1, <2>2, Zenon
<1> QED BY <1>8, <1>10, Zenon

LEMMA WindowInit == Init => WindowInv
<1> SUFFICES ASSUME Init PROVE WindowInv
  BY Zenon
<1>1. Len(buckets) = 0 /\ recorded = {}
  BY Zenon DEF Init
<1>2. IsFiniteSet(recorded)
  BY <1>1, FS_EmptySet, Zenon
<1> QED BY <1>1, <1>2 DEF WindowInv, Exact, Covered

\* As time passes, old results stay old.
LEMMA WindowTick ==
    ASSUME BreakerInv, WindowInv, Tick
    PROVE  WindowInv'
<1>1. UNCHANGED <<buckets, recorded, req>> /\ now' = now + 1
  BY Zenon DEF Tick, breakerVars
<1>2. now \in Nat /\ recorded \subseteq Result /\ Window \in Nat /\ Slice \in Nat
  BY BreakerAssumption DEF BreakerInv, TypeOK
<1>3. ASSUME NEW x \in recorded, x.at <= now PROVE x.at <= now + 1 /\ (Old(x, now) => Old(x, now + 1))
  <2>1. x.at \in Nat
    BY <1>2, ResultFacts, Zenon
  <2> QED BY <1>2, <1>3, <2>1 DEF Old
<1>4. Covered(recorded, now + 1, buckets)
  BY <1>3, Zenon DEF WindowInv, Covered
<1> QED BY <1>1, <1>4, Zenon DEF WindowInv, Exact

\* A step that only rolls the window, or leaves it alone.
LEMMA WindowRolls ==
    ASSUME BreakerInv, WindowInv, UNCHANGED <<now, recorded>>,
           \/ buckets' = buckets
           \/ \E k \in 0..Len(buckets) : Outdated(k) /\ buckets' = Rolled(k),
           \A r \in Requests : req[r] = "ended" => req'[r] = "ended"
    PROVE  WindowInv'
<1>1. BucketsInv /\ recorded \subseteq Result
  BY GivesBucketsInv, Zenon DEF BreakerInv, TypeOK
<1>2. Exact(recorded, buckets) /\ Covered(recorded, now, buckets)
  BY Zenon DEF WindowInv
<1>3. Exact(recorded, buckets') /\ Covered(recorded, now, buckets')
  <2>1. CASE buckets' = buckets
    BY <1>2, <2>1, Zenon
  <2>2. ASSUME NEW k \in 0..Len(buckets), Outdated(k), buckets' = Rolled(k)
        PROVE  Exact(recorded, buckets') /\ Covered(recorded, now, buckets')
    BY <1>1, <1>2, <2>2, RollKeeps, Zenon
  <2> QED BY <2>1, <2>2, Zenon
<1>4. \A x \in recorded : req'[x.req] = "ended"
  BY <1>1, ResultFacts, Zenon DEF WindowInv
<1> QED BY <1>3, <1>4, Zenon DEF WindowInv, Exact, Covered

\* A step that counts the result of r, which no earlier step counted.
LEMMA WindowGrows ==
    ASSUME BreakerInv, WindowInv, NEW r \in Requests, End(r), NEW k \in 0..Len(buckets),
           Outdated(k), NEW error \in BOOLEAN, Count(r, k, error)
    PROVE  WindowInv'
<1>1. BucketsInv /\ recorded \subseteq Result /\ now \in Nat
  BY GivesBucketsInv, Zenon DEF BreakerInv, TypeOK, BucketsInv
<1>2. PICK bs : bs = Rolled(k)
  BY Zenon
<1>3. PICK x : x = [req |-> r, at |-> now, error |-> error]
  BY Zenon
<1>4. x \in Result /\ x.at = now /\ x.error = error /\ x.req = r
  BY <1>1, <1>3, Zenon DEF Result
<1>5. x \notin recorded
  BY <1>4, Zenon DEF WindowInv, End
<1>6. WindowShape(bs) /\ now - bs[Len(bs)].start < Span
  BY <1>1, <1>2, RolledBuckets, Zenon
<1>7. Exact(recorded, bs) /\ Covered(recorded, now, bs)
  BY <1>1, <1>2, RollKeeps, Zenon DEF WindowInv
<1>8. PICK out, Q : out = Recorded(bs, error) /\ Q = recorded \cup {x}
  BY Zenon
<1>9. IsFiniteSet(recorded)
  BY Zenon DEF WindowInv
<1>10. Exact(Q, out) /\ Covered(Q, now, out)
  BY <1>1, <1>4, <1>5, <1>6, <1>7, <1>8, <1>9, RecordKeeps, Zenon
<1>11. buckets' = out /\ recorded' = Q /\ now' = now
  BY <1>2, <1>3, <1>8, Zenon DEF Count, End
<1>12. IsFiniteSet(Q)
  BY <1>8, <1>9, FS_AddElement, Zenon
<1>13. \A y \in Q : req'[y.req] = "ended"
  <2>1. req \in [Requests -> {"new", "allowed", "probe", "ended"}]
    BY Zenon DEF BreakerInv, TypeOK
  <2>2. req' = [req EXCEPT ![r] = "ended"]
    BY Zenon DEF End
  <2>3. \A y \in Q : y.req \in Requests /\ (y.req = r \/ req[y.req] = "ended")
    BY <1>1, <1>4, <1>8, ResultFacts, Zenon DEF WindowInv
  <2> QED BY <2>1, <2>2, <2>3, Zenon
<1> QED BY <1>10, <1>11, <1>12, <1>13, Zenon DEF WindowInv, Exact, Covered

LEMMA EndedStays ==
    ASSUME TypeOK, NEW r \in Requests, End(r)
    PROVE  \A q \in Requests : req[q] = "ended" => req'[q] = "ended"
BY Zenon DEF TypeOK, End

LEMMA WindowAllows ==
    ASSUME BreakerInv, WindowInv, NEW r \in Requests, AllowRequest(r)
    PROVE  WindowInv'
<1>1. PICK k \in 0..Len(buckets) :
          /\ Outdated(k) /\ buckets' = Rolled(k)
          /\ AllowClosed(r, Rolled(k)) \/ AllowOpen(r) \/ AllowHalfOpen
  BY Zenon DEF AllowRequest
<1>2. req' = req \/ req' = [req EXCEPT ![r] = "allowed"] \/ req' = [req EXCEPT ![r] = "probe"]
  BY <1>1, Zenon DEF AllowClosed, AllowOpen, AllowHalfOpen, Grant
<1>3. \A q \in Requests : req[q] = "ended" => req'[q] = "ended"
  BY <1>2, Zenon DEF AllowRequest, BreakerInv, TypeOK
<1>4. UNCHANGED <<now, recorded>>
  BY Zenon DEF AllowRequest
<1> QED BY <1>1, <1>3, <1>4, WindowRolls, Zenon

LEMMA WindowSuccess ==
    ASSUME BreakerInv, WindowInv, NEW r \in Requests, OnSuccess(r)
    PROVE  WindowInv'
<1>1. PICK k \in 0..Len(buckets) :
          /\ Outdated(k)
          /\ Count(r, k, FALSE) \/ (buckets' = <<>> /\ recorded' = {})
  BY Zenon DEF OnSuccess
<1>2. CASE Count(r, k, FALSE)
  BY <1>1, <1>2, WindowGrows, Zenon DEF OnSuccess
<1>3. CASE buckets' = <<>> /\ recorded' = {}
  <2>1. Len(buckets') = 0 /\ IsFiniteSet(recorded')
    BY <1>3, FS_EmptySet, Zenon
  <2> QED BY <1>3, <2>1 DEF WindowInv, Exact, Covered
<1> QED BY <1>1, <1>2, <1>3, Zenon

LEMMA WindowError ==
    ASSUME BreakerInv, WindowInv, NEW r \in Requests, OnError(r)
    PROVE  WindowInv'
<1>1. PICK k \in 0..Len(buckets) :
          /\ Outdated(k)
          /\ Count(r, k, TRUE) \/ (buckets' = Rolled(k) /\ recorded' = recorded)
  BY Zenon DEF OnError
<1>2. CASE Count(r, k, TRUE)
  BY <1>1, <1>2, WindowGrows, Zenon DEF OnError
<1>3. CASE buckets' = Rolled(k) /\ recorded' = recorded
  <2>1. now' = now /\ \A q \in Requests : req[q] = "ended" => req'[q] = "ended"
    BY EndedStays, Zenon DEF OnError, End, BreakerInv
  <2> QED BY <1>1, <1>3, <2>1, WindowRolls, Zenon
<1> QED BY <1>1, <1>2, <1>3, Zenon

LEMMA WindowNoVerdict ==
    ASSUME BreakerInv, WindowInv, NEW r \in Requests, NoVerdict(r)
    PROVE  WindowInv'
<1>1. UNCHANGED <<now, recorded, buckets>>
  BY Zenon DEF NoVerdict, End, breakerVars
<1>2. \A q \in Requests : req[q] = "ended" => req'[q] = "ended"
  BY EndedStays, Zenon DEF NoVerdict, BreakerInv
<1> QED BY <1>1, <1>2, WindowRolls, Zenon

\* Every bucket counts the results that fell into it and only old results fall
\* out of the window, whatever record and rollWindowLocked did in between.
THEOREM WindowInvHolds == Spec => []WindowInv
<1>1. Init => WindowInv
  BY WindowInit, Zenon
<1>2. BreakerInv /\ WindowInv /\ [Next]_vars => WindowInv'
  <2> SUFFICES ASSUME BreakerInv, WindowInv, [Next]_vars PROVE WindowInv'
    BY Zenon
  <2>1. CASE Tick
    BY <2>1, WindowTick, Zenon
  <2>2. ASSUME NEW r \in Requests,
               AllowRequest(r) \/ OnSuccess(r) \/ OnError(r) \/ NoVerdict(r)
        PROVE  WindowInv'
    BY <2>2, WindowAllows, WindowSuccess, WindowError, WindowNoVerdict, Zenon
  <2>3. CASE UNCHANGED vars
    BY <2>3, Zenon DEF vars, breakerVars, WindowInv, Exact, Covered
  <2> QED BY <2>1, <2>2, <2>3, Zenon DEF Next
<1> QED BY <1>1, <1>2, BreakerInvHolds, PTL DEF Spec

-----------------------------------------------------------------------------
(* What tally returns *)

Bounds(n, A, lo, hi) ==
    /\ \A x \in lo : \E i \in 1..n : x \in A[i]
    /\ \A i \in 1..n : A[i] \subseteq hi

\* A sum of the sizes of disjoint sets lies between those of two sets that bound
\* their union.
LEMMA TallyBetween ==
    ASSUME NEW n \in Nat, NEW A, NEW v, Sizes(n, A, v),
           NEW lo, NEW hi, IsFiniteSet(hi), Bounds(n, A, lo, hi)
    PROVE  Tally(v) \in Cardinality(lo)..Cardinality(hi)
<1>1. PICK U : U = UNION {A[i] : i \in 1..n}
  BY Zenon
<1>2. IsFiniteSet(U) /\ Tally(v) = Cardinality(U)
  <2>1. /\ IsFiniteSet(UNION {A[i] : i \in 1..n})
        /\ Tally(v) = Cardinality(UNION {A[i] : i \in 1..n})
    BY TallyOfSizes, Zenon
  <2> QED BY <1>1, <2>1, Zenon
<1>3. lo \subseteq U /\ U \subseteq hi
  BY <1>1, Zenon DEF Bounds
<1>4. Cardinality(lo) <= Cardinality(U) /\ Cardinality(U) <= Cardinality(hi) /\ IsFiniteSet(lo)
  BY <1>2, <1>3, FS_Subset, Zenon
<1>5. Cardinality(lo) \in Nat /\ Cardinality(U) \in Nat /\ Cardinality(hi) \in Nat
  BY <1>2, <1>4, FS_CardinalityType, Zenon
<1> QED BY <1>2, <1>4, <1>5

\* Any window rolled now counts what WindowCounts says.
LEMMA RolledCounts ==
    ASSUME BreakerInv, WindowInv, NEW k \in 0..Len(buckets), Outdated(k), NEW bs, bs = Rolled(k)
    PROVE  /\ Requested(bs) \in
                Cardinality(Younger(Window - Slice + 1))..Cardinality(Younger(Window))
           /\ Erred(bs) \in
                Cardinality(Errors(Younger(Window - Slice + 1)))..Cardinality(Errors(Younger(Window)))
<1>1. BucketsInv /\ recorded \subseteq Result /\ now \in Nat
  BY GivesBucketsInv, Zenon DEF BreakerInv, TypeOK, BucketsInv
<1>2. /\ WindowShape(bs)
      /\ \A i \in 1..Len(bs) : now - bs[i].start < Window
  BY <1>1, RolledBuckets, Zenon
<1>3. Exact(recorded, bs) /\ Covered(recorded, now, bs)
  BY <1>1, RollKeeps, Zenon DEF WindowInv
<1>4. PICK n \in Nat : n = Len(bs)
  BY <1>2 DEF WindowShape
<1>5. bs \in Seq(Bucket) /\ Spaced(bs) /\ \A i \in 1..n : bs[i] \in Bucket
  BY <1>2, <1>4 DEF WindowShape
<1>6. PICK A : A = [i \in 1..n |-> Held(recorded, bs[i])]
  BY Zenon
<1>7. PICK B : B = [i \in 1..n |-> Errors(Held(recorded, bs[i]))]
  BY Zenon
<1>8. ASSUME NEW i \in 1..n
      PROVE  A[i] = Held(recorded, bs[i]) /\ B[i] = Errors(A[i]) /\ A[i] \subseteq recorded
  BY <1>6, <1>7, Zenon DEF Held
<1>9. ASSUME NEW i \in 1..n, NEW j \in 1..n, i < j, NEW x \in A[i], x \in A[j] PROVE FALSE
  <2>1. x \in Result
    BY <1>1, <1>8, Zenon
  <2>2. PICK a \in Nat, b \in Nat, c \in Nat : a = x.at /\ b = bs[i].start /\ c = bs[j].start
    BY <1>5, <2>1, BucketFacts, ResultFacts, Zenon
  <2>3. c - b >= Slice
    <3>1. i <= j /\ i # j /\ i \in 1..Len(bs) /\ j \in 1..Len(bs)
      BY <1>4, <1>9
    <3>2. bs[j].start - bs[i].start >= Slice
      BY <1>5, <3>1, SliceApart, Zenon
    <3> QED BY <2>2, <3>2, Zenon
  <2>4. a - b < Span /\ c <= a
    BY <1>8, <1>9, <2>2, Zenon DEF Held
  <2>5. PICK d \in Nat, e \in Nat : d = Slice /\ e = Span /\ e <= d
    BY BreakerAssumption, SpanFacts, Zenon
  <2>6. c - b >= d /\ a - b < e
    BY <2>3, <2>4, <2>5, Zenon
  <2> QED BY <2>4, <2>5, <2>6, SMTT(20)
<1>10. \A i, j \in 1..n : i # j => A[i] \cap A[j] = {}
  <2> SUFFICES ASSUME NEW i \in 1..n, NEW j \in 1..n, i # j, NEW x \in A[i], x \in A[j] PROVE FALSE
    BY Zenon
  <2>1. i < j \/ j < i
    OBVIOUS
  <2> QED BY <1>9, <2>1, Zenon
<1>11. \A i, j \in 1..n : i # j => B[i] \cap B[j] = {}
  BY <1>8, <1>10, Zenon DEF Errors
<1>12. IsFiniteSet(recorded)
  BY Zenon DEF WindowInv
<1>13. \A i \in 1..n : IsFiniteSet(A[i]) /\ IsFiniteSet(B[i])
  <2> SUFFICES ASSUME NEW i \in 1..n PROVE IsFiniteSet(A[i]) /\ IsFiniteSet(B[i])
    BY Zenon
  <2>1. B[i] \subseteq recorded
    BY <1>8, Zenon DEF Errors
  <2> QED BY <1>8, <1>12, <2>1, FS_Subset, Zenon
<1>14. \A x \in Younger(Window - Slice + 1) : \E i \in 1..n : x \in A[i]
  <2> SUFFICES ASSUME NEW x \in recorded, now - x.at < Window - Slice + 1
               PROVE  \E i \in 1..n : x \in A[i]
    BY Zenon DEF Younger
  <2>1. ~Old(x, now)
    <3>1. x.at \in Nat /\ Window \in Nat /\ Slice \in Nat
      BY <1>1, ResultFacts, BreakerAssumption, Zenon
    <3> QED BY <1>1, <3>1 DEF Old
  <2> QED BY <1>3, <1>4, <1>8, <2>1, Zenon DEF Covered
<1>15. ASSUME NEW i \in 1..n PROVE A[i] \subseteq Younger(Window)
  <2> SUFFICES ASSUME NEW x \in A[i] PROVE now - x.at < Window
    BY <1>8, Zenon DEF Younger
  <2>1. PICK a \in Nat, b \in Nat : a = x.at /\ b = bs[i].start /\ b <= a
    BY <1>1, <1>5, <1>8, BucketFacts, ResultFacts, Zenon DEF Held
  <2>2. now - b < Window
    BY <1>2, <1>4, <2>1, Zenon
  <2>3. now \in Int /\ a \in Int /\ b \in Int /\ Window \in Int
    BY <1>1, BreakerAssumption
  <2> QED BY <2>1, <2>2, <2>3, Within, Zenon
<1>16. IsFiniteSet(Younger(Window)) /\ IsFiniteSet(Errors(Younger(Window)))
  <2>1. Younger(Window) \subseteq recorded /\ Errors(Younger(Window)) \subseteq recorded
    BY Zenon DEF Younger, Errors
  <2> QED BY <1>12, <2>1, FS_Subset, Zenon
<1>17. Requested(bs) \in Cardinality(Younger(Window - Slice + 1))..Cardinality(Younger(Window))
  <2>1. PICK v : v = [i \in 1..n |-> bs[i].requests]
    BY Zenon
  <2>2. Len(v) = n /\ \A i \in 1..n : v[i] = Cardinality(A[i])
    BY <1>3, <1>4, <1>8, <2>1 DEF Exact
  <2>3. Requested(bs) = Tally(v)
    BY <1>4, <2>1, Zenon DEF Requested
  <2>4. PICK lo, hi : lo = Younger(Window - Slice + 1) /\ hi = Younger(Window)
    BY Zenon
  <2>5. Tally(v) \in Cardinality(lo)..Cardinality(hi)
    <3>1. Bounds(n, A, lo, hi)
      BY <1>14, <1>15, <2>4, Zenon DEF Bounds
    <3>2. Sizes(n, A, v)
      BY <1>10, <1>13, <2>2, Zenon DEF Sizes
    <3> QED BY <1>16, <2>4, <3>1, <3>2, TallyBetween, Zenon
  <2> QED BY <2>3, <2>4, <2>5, Zenon
<1>18. Erred(bs) \in
          Cardinality(Errors(Younger(Window - Slice + 1)))..Cardinality(Errors(Younger(Window)))
  <2>1. PICK v : v = [i \in 1..n |-> bs[i].errors]
    BY Zenon
  <2>2. Len(v) = n /\ \A i \in 1..n : v[i] = Cardinality(B[i])
    BY <1>3, <1>4, <1>8, <2>1 DEF Exact
  <2>3. Erred(bs) = Tally(v)
    BY <1>4, <2>1, Zenon DEF Erred
  <2>4. PICK lo, hi : lo = Errors(Younger(Window - Slice + 1)) /\ hi = Errors(Younger(Window))
    BY Zenon
  <2>5. \A x \in lo : \E i \in 1..n : x \in B[i]
    BY <1>8, <1>14, <2>4, Zenon DEF Errors
  <2>6. \A i \in 1..n : B[i] \subseteq hi
    BY <1>8, <1>15, <2>4, Zenon DEF Errors
  <2>7. Tally(v) \in Cardinality(lo)..Cardinality(hi)
    <3>1. Bounds(n, B, lo, hi)
      BY <2>5, <2>6, Zenon DEF Bounds
    <3>2. Sizes(n, B, v)
      BY <1>11, <1>13, <2>2, Zenon DEF Sizes
    <3> QED BY <1>16, <2>4, <3>1, <3>2, TallyBetween, Zenon
  <2> QED BY <2>3, <2>4, <2>7, Zenon
<1> QED BY <1>17, <1>18, Zenon

\* The counts tally returns for a window rolled by rollWindowLocked include every
\* result record counted less than Window - Slice + 1 ago and none Window ago.
THEOREM WindowCountsResults == Spec => []WindowCounts
<1>1. BreakerInv /\ WindowInv => WindowCounts
  <2> SUFFICES ASSUME BreakerInv, WindowInv, NEW k \in 0..Len(buckets), Outdated(k)
               PROVE  LET bs == Rolled(k) IN
                      /\ Requested(bs) \in
                           Cardinality(Younger(Window - Slice + 1))..Cardinality(Younger(Window))
                      /\ Erred(bs) \in
                           Cardinality(Errors(Younger(Window - Slice + 1)))
                             ..Cardinality(Errors(Younger(Window)))
    BY Zenon DEF WindowCounts
  <2> QED BY RolledCounts, Zenon
<1> QED BY <1>1, BreakerInvHolds, WindowInvHolds, PTL

\* allowRequest opens a closed circuit only on counts that the results of the last
\* Window bear out: MinRequests of them, and an error among them.
THEOREM TripsAreJustified == Spec => TripJustified
<1>1. BreakerInv /\ WindowInv /\ [Next]_vars
        => [state = "Closed" /\ state' = "Open" =>
              /\ Cardinality(Younger(Window)) >= MinRequests
              /\ Errors(Younger(Window)) # {}]_vars
  <2> SUFFICES ASSUME BreakerInv, WindowInv, Next, state = "Closed", state' = "Open"
               PROVE  /\ Cardinality(Younger(Window)) >= MinRequests
                      /\ Errors(Younger(Window)) # {}
    BY Zenon
  <2>1. PICK r \in Requests : AllowRequest(r)
    BY Zenon DEF Next, Tick, breakerVars, OnSuccess, OnError, NoVerdict, Count
  <2>2. PICK k \in 0..Len(buckets) : Outdated(k) /\ Trips(Rolled(k))
    BY <2>1, Zenon DEF AllowRequest, AllowClosed, AllowOpen, AllowHalfOpen
  <2>3. PICK bs : bs = Rolled(k)
    BY Zenon
  <2>4. PICK lo, hi, elo, ehi :
            /\ lo = Younger(Window - Slice + 1) /\ hi = Younger(Window)
            /\ elo = Errors(lo) /\ ehi = Errors(hi)
    BY Zenon
  <2>5. /\ Requested(bs) \in Cardinality(lo)..Cardinality(hi)
        /\ Erred(bs) \in Cardinality(elo)..Cardinality(ehi)
    BY <2>2, <2>3, <2>4, RolledCounts, Zenon
  <2>6. IsFiniteSet(lo) /\ IsFiniteSet(hi) /\ IsFiniteSet(elo) /\ IsFiniteSet(ehi)
    <3>1. lo \subseteq recorded /\ hi \subseteq recorded /\ elo \subseteq recorded /\ ehi \subseteq recorded
      BY <2>4, Zenon DEF Younger, Errors
    <3> QED BY <3>1, FS_Subset, Zenon DEF WindowInv
  <2>7. PICK a \in Nat, b \in Nat, c \in Nat, d \in Nat :
            /\ a = Cardinality(lo) /\ b = Cardinality(hi)
            /\ c = Cardinality(elo) /\ d = Cardinality(ehi)
    BY <2>6, FS_CardinalityType, Zenon
  <2>8. PICK p \in a..b, q \in c..d : p = Requested(bs) /\ q = Erred(bs)
    BY <2>5, <2>7, Zenon
  <2>9. p >= MinRequests /\ q * RateDen > RateNum * p
    BY <2>2, <2>3, <2>8, Zenon DEF Trips
  <2>10. b >= MinRequests
    BY <2>8, <2>9, BreakerAssumption, SMTT(20)
  <2>11. d > 0
    <3>1. p \in Nat /\ q \in Nat /\ RateNum \in Nat /\ RateDen \in Nat
      BY <2>8, BreakerAssumption
    <3>2. RateNum * p >= 0 /\ RateNum * p \in Int
      BY <3>1, NotNegative
    <3>3. q # 0
      <4> SUFFICES ASSUME q = 0 PROVE FALSE
        BY Zenon
      <4>1. q * RateDen = 0
        BY <3>1
      <4>2. PICK f \in Int : f = RateNum * p
        BY <3>2, Zenon
      <4> QED BY <2>9, <3>2, <4>1, <4>2, SMTT(20)
    <3> QED BY <2>8, <3>1, <3>3, SMTT(20)
  <2>12. ehi # {}
    <3>1. Cardinality({}) = 0
      BY FS_EmptySet, Zenon
    <3>2. Cardinality(ehi) # 0
      BY <2>7, <2>11
    <3> QED BY <3>1, <3>2, Zenon
  <2> QED BY <2>4, <2>7, <2>10, <2>12, Zenon
<1> QED BY <1>1, BreakerInvHolds, WindowInvHolds, PTL DEF Spec, TripJustified

-----------------------------------------------------------------------------
(* The isolation *)

\* s holds the first m powers of two.
Powers(m, s) == s = [i \in 0..m |-> IF i = 0 THEN 1 ELSE 2 * s[i - 1]]

LEMMA PowersExist == \A m \in Nat : \E s : Powers(m, s)
<1> DEFINE S == {m \in Nat : \E s : Powers(m, s)}
<1>1. 0 \in S
  <2>1. Powers(0, [i \in 0..0 |-> 1])
    BY DEF Powers
  <2> QED BY <2>1, Zenon
<1>2. ASSUME NEW m \in Nat, m \in S PROVE m + 1 \in S
  <2>1. PICK s : Powers(m, s)
    BY <1>2, Zenon
  <2> DEFINE t == [i \in 0..(m + 1) |-> IF i = m + 1 THEN 2 * s[m] ELSE s[i]]
             u == [i \in 0..(m + 1) |-> IF i = 0 THEN 1 ELSE 2 * t[i - 1]]
  <2>2. ASSUME NEW i \in 0..(m + 1) PROVE t[i] = u[i]
    <3>1. CASE i = m + 1
      <4>1. m \in 0..(m + 1) /\ m # m + 1 /\ i - 1 = m /\ i # 0
        BY <3>1
      <4> QED BY <3>1, <4>1, Zenon
    <3>2. CASE i = 0
      <4>1. 0 # m + 1 /\ 0 \in 0..m
        OBVIOUS
      <4>2. s[0] = 1
        BY <2>1, <4>1, Zenon DEF Powers
      <4> QED BY <3>2, <4>1, <4>2, Zenon
    <3>3. CASE i # 0 /\ i # m + 1
      <4>1. i \in 0..m /\ i - 1 \in 0..(m + 1) /\ i - 1 # m + 1
        BY <3>3
      <4>2. s[i] = 2 * s[i - 1]
        BY <2>1, <3>3, <4>1, Zenon DEF Powers
      <4> QED BY <3>3, <4>1, <4>2, Zenon
    <3> QED BY <3>1, <3>2, <3>3, Zenon
  <2>3. t = u
    BY <2>2, Zenon
  <2>4. Powers(m + 1, t)
    BY <2>3, Zenon DEF Powers
  <2> HIDE DEF t
  <2> QED BY <2>4
<1> HIDE DEF S
<1>3. Nat \subseteq S
  BY <1>1, <1>2, Induction, Zenon
<1> QED BY <1>3, Zenon DEF S

LEMMA PowersAgree ==
    ASSUME NEW m \in Nat, NEW s, Powers(m, s), NEW t, Powers(m + 1, t)
    PROVE  s[m] = t[m]
<1> DEFINE S == {i \in Nat : i <= m => s[i] = t[i]}
<1>1. 0 \in S
  <2>1. 0 \in 0..m /\ 0 \in 0..(m + 1)
    OBVIOUS
  <2>2. s[0] = 1 /\ t[0] = 1
    BY <2>1, Zenon DEF Powers
  <2> QED BY <2>2, Zenon
<1>2. ASSUME NEW i \in Nat, i \in S PROVE i + 1 \in S
  <2> SUFFICES ASSUME i + 1 <= m PROVE s[i + 1] = t[i + 1]
    OBVIOUS
  <2>1. s[i] = t[i]
    BY <1>2
  <2>2. i + 1 \in 0..m /\ i + 1 \in 0..(m + 1) /\ i + 1 # 0 /\ (i + 1) - 1 = i
    OBVIOUS
  <2>3. s[i + 1] = 2 * s[i]
    BY <2>2, Zenon DEF Powers
  <2>4. t[i + 1] = 2 * t[i]
    BY <2>2, Zenon DEF Powers
  <2> QED BY <2>1, <2>3, <2>4, Zenon
<1> HIDE DEF S
<1>3. Nat \subseteq S
  BY <1>1, <1>2, Induction, Zenon
<1> QED BY <1>3 DEF S

LEMMA TwoToExists == \E f : f = [n \in Nat |-> IF n = 0 THEN 1 ELSE 2 * f[n - 1]]
<1> DEFINE c(n) == CHOOSE s : Powers(n, s)
           f == [n \in Nat |-> c(n)[n]]
           g == [n \in Nat |-> IF n = 0 THEN 1 ELSE 2 * f[n - 1]]
<1>1. ASSUME NEW n \in Nat PROVE Powers(n, c(n))
  <2>1. \E s : Powers(n, s)
    BY PowersExist, Zenon
  <2> QED BY <2>1, Zenon
<1> HIDE DEF c
<1>2. ASSUME NEW n \in Nat PROVE f[n] = g[n]
  <2>1. n \in 0..n /\ c(n)[n] = IF n = 0 THEN 1 ELSE 2 * c(n)[n - 1]
    BY <1>1 DEF Powers
  <2>2. CASE n = 0
    BY <2>1, <2>2, Zenon
  <2>3. CASE n # 0
    <3>1. PICK m \in Nat : m = n - 1 /\ n = m + 1
      BY <2>3
    <3>2. c(m)[m] = c(m + 1)[m]
      BY <1>1, PowersAgree
    <3>3. f[n] = c(n)[n] /\ f[n - 1] = c(m)[m]
      BY <3>1, Zenon
    <3>4. g[n] = 2 * f[n - 1]
      BY <2>3, Zenon
    <3>5. c(n)[n] = 2 * c(m + 1)[m]
      BY <2>1, <2>3, <3>1, Zenon
    <3> QED BY <3>2, <3>3, <3>4, <3>5, Zenon
  <2> QED BY <2>2, <2>3, Zenon
<1>3. f = g
  BY <1>2, Zenon
<1> QED BY <1>3, Zenon

\* TwoTo is what its definition says, and positive.
LEMMA TwoToFacts ==
    /\ TwoTo[0] = 1
    /\ \A n \in Nat : TwoTo[n] \in Nat \ {0} /\ TwoTo[n + 1] = 2 * TwoTo[n]
<1> DEFINE Twos(f) == f = [n \in Nat |-> IF n = 0 THEN 1 ELSE 2 * f[n - 1]]
<1>1. \E f : Twos(f)
  BY TwoToExists, Zenon
<1>2. TwoTo = CHOOSE f : Twos(f)
  BY Zenon DEF TwoTo
<1> HIDE DEF Twos
<1>3. Twos(TwoTo)
  BY <1>1, <1>2, Zenon
<1>4. PICK f : f = TwoTo
  BY Zenon
<1>5. f = [n \in Nat |-> IF n = 0 THEN 1 ELSE 2 * f[n - 1]]
  BY <1>3, <1>4, Zenon DEF Twos
<1>6. f[0] = 1
  BY <1>5, Zenon
<1>7. ASSUME NEW n \in Nat PROVE f[n + 1] = 2 * f[n]
  <2>1. n + 1 \in Nat /\ n + 1 # 0 /\ (n + 1) - 1 = n
    OBVIOUS
  <2>2. f[n + 1] = 2 * f[(n + 1) - 1]
    BY <1>5, <2>1, Zenon
  <2> QED BY <2>1, <2>2, Zenon
<1> DEFINE S == {n \in Nat : f[n] \in Nat \ {0}}
<1>8. 0 \in S
  BY <1>6
<1>9. ASSUME NEW n \in Nat, n \in S PROVE n + 1 \in S
  <2>1. PICK x \in Nat \ {0} : x = f[n]
    BY <1>9, Zenon
  <2>2. f[n + 1] = 2 * x
    BY <1>7, <2>1, Zenon
  <2> QED BY <2>1, <2>2
<1> HIDE DEF S
<1>10. Nat \subseteq S
  BY <1>8, <1>9, Induction, Zenon
<1>11. \A n \in Nat : f[n] \in Nat \ {0}
  BY <1>10, Zenon DEF S
<1> QED BY <1>4, <1>6, <1>7, <1>11, Zenon

\* The isolation that q units, doubled so far, come to.
Capped(q) == IF q < MaxIsolation THEN q ELSE MaxIsolation

LEMMA DoubleOf == \A a, b \in Int : a * (2 * b) = 2 * (a * b)
  OBVIOUS

\* Each onError of a probe doubles the isolation up to MaxIsolation, the onSuccess of
\* one starts it over, and no other call, granted, denied or late, changes it.
THEOREM IsolationDoubles == Spec => []Backoff
<1> DEFINE B(l, f) == l = Capped(FirstIsolation * TwoTo[f])
<1>1. Backoff = B(lastIsolation, failures)
  BY Zenon DEF Backoff, Capped
<1>2. Backoff' = B(lastIsolation', failures')
  BY Zenon DEF Backoff, Capped
<1> HIDE DEF B
<1>3. B(FirstIsolation, 0)
  BY TwoToFacts, BreakerAssumption DEF B, Capped
<1>4. Init => Backoff
  BY <1>1, <1>3, Zenon DEF Init
<1>5. ASSUME BreakerInv, B(lastIsolation, failures) PROVE B(Doubled, failures + 1)
  <2>1. failures \in Nat
    BY <1>5, Zenon DEF BreakerInv, TypeOK
  <2>2. PICK p \in Nat : p = TwoTo[failures] /\ TwoTo[failures + 1] = 2 * p
    BY <2>1, TwoToFacts, Zenon
  <2>3. PICK q \in Int : q = FirstIsolation * p /\ FirstIsolation * (2 * p) = 2 * q
    BY <2>2, DoubleOf, BreakerAssumption
  <2>4. PICK c \in Nat : c = MaxIsolation
    BY BreakerAssumption, Zenon
  <2>5. lastIsolation = IF q < c THEN q ELSE c
    BY <1>5, <2>2, <2>3, <2>4, Zenon DEF B, Capped
  <2>6. Doubled = IF lastIsolation * 2 < c THEN lastIsolation * 2 ELSE c
    BY <2>4, Zenon DEF Doubled
  <2>7. Doubled = IF 2 * q < c THEN 2 * q ELSE c
    BY <2>4, <2>5, <2>6
  <2> QED BY <2>2, <2>3, <2>4, <2>7, Zenon DEF B, Capped
<1>6. BreakerInv /\ Backoff /\ [Next]_vars => Backoff'
  <2> SUFFICES ASSUME BreakerInv, B(lastIsolation, failures), [Next]_vars
               PROVE  B(lastIsolation', failures')
    BY <1>1, <1>2, Zenon
  <2>1. \/ UNCHANGED <<lastIsolation, failures>>
        \/ lastIsolation' = FirstIsolation /\ failures' = 0
        \/ lastIsolation' = Doubled /\ failures' = failures + 1
    BY Zenon DEF Next, vars, breakerVars, Tick, AllowRequest, OnSuccess, OnError, NoVerdict, Count
  <2> QED BY <1>3, <1>5, <2>1, Zenon
<1> QED BY <1>4, <1>6, BreakerInvHolds, PTL DEF Spec

=============================================================================
