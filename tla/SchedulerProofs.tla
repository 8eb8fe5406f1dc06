--------------------------- MODULE SchedulerProofs ---------------------------
(***************************************************************************)
(* Proofs about Scheduler: where a coroutine is, and that it is deleted    *)
(* once, for any number of coroutines and workers.                         *)
(***************************************************************************)
EXTENDS Scheduler, SequenceTheorems, FiniteSetTheorems, TLAPS

\* No element occurs twice.
Distinct(s) == \A i, j \in 1..Len(s) : s[i] = s[j] => i = j

-----------------------------------------------------------------------------
(* The elements of a queue *)

LEMMA RangeOf ==
    ASSUME NEW S, NEW s \in Seq(S)
    PROVE  /\ Range(s) = {s[i] : i \in 1..Len(s)} /\ Range(s) \subseteq S
           /\ (s = <<>>) = (Range(s) = {})
<1>1. Len(s) \in Nat /\ DOMAIN s = 1..Len(s) /\ \A i \in 1..Len(s) : s[i] \in S
  OBVIOUS
<1>2. Range(s) = {s[i] : i \in 1..Len(s)}
  BY <1>1, Zenon DEF Range
<1>3. s = <<>> => Len(s) = 0
  OBVIOUS
<1>4. s # <<>> => 1 \in 1..Len(s)
  BY <1>1, SMTT(20)
<1> QED BY <1>1, <1>2, <1>3, <1>4, SMTT(20)

LEMMA AppendElement ==
    ASSUME NEW S, NEW s \in Seq(S), NEW e \in S
    PROVE  /\ Append(s, e) \in Seq(S)
           /\ Range(Append(s, e)) = Range(s) \cup {e}
           /\ Distinct(s) /\ e \notin Range(s) => Distinct(Append(s, e))
<1> DEFINE t == Append(s, e)
<1>1. /\ t \in Seq(S) /\ Len(t) = Len(s) + 1 /\ t[Len(s) + 1] = e /\ Len(s) \in Nat
      /\ \A i \in 1..Len(s) : t[i] = s[i]
  BY AppendProperties
<1> HIDE DEF t
<1>2. Range(t) = {t[i] : i \in 1..Len(t)} /\ Range(s) = {s[i] : i \in 1..Len(s)}
  BY <1>1, RangeOf
<1>3. Range(t) = Range(s) \cup {e}
  <2>1. Range(t) \subseteq Range(s) \cup {e}
    BY <1>1, <1>2, SMTT(20)
  <2>2. Range(s) \cup {e} \subseteq Range(t)
    BY <1>1, <1>2
  <2> QED BY <2>1, <2>2, Zenon
<1>4. Distinct(s) /\ e \notin Range(s) => Distinct(t)
  BY <1>1, <1>2, SMTT(20) DEF Distinct
<1> QED BY <1>1, <1>3, <1>4, Zenon DEF t

LEMMA TakeHead ==
    ASSUME NEW S, NEW s \in Seq(S), s # <<>>
    PROVE  /\ Head(s) \in S /\ Head(s) \in Range(s)
           /\ Tail(s) \in Seq(S)
           /\ Range(s) = Range(Tail(s)) \cup {Head(s)}
           /\ Distinct(s) => Distinct(Tail(s)) /\ Range(Tail(s)) = Range(s) \ {Head(s)}
<1> DEFINE t == Tail(s)
<1>1. /\ t \in Seq(S) /\ Len(t) = Len(s) - 1 /\ Len(s) \in Nat \ {0}
      /\ \A i \in 1..Len(t) : t[i] = s[i + 1]
      /\ Head(s) = s[1] /\ s[1] \in S
  BY HeadTailProperties
<1> HIDE DEF t
<1>2. Range(t) = {t[i] : i \in 1..Len(t)} /\ Range(s) = {s[i] : i \in 1..Len(s)}
  BY <1>1, RangeOf, SMTT(20)
<1>3. \A i \in 1..Len(s) : i = 1 \/ (i - 1 \in 1..Len(t) /\ t[i - 1] = s[i])
  BY <1>1
<1>4. Range(s) = Range(t) \cup {Head(s)}
  <2>1. Range(t) \cup {Head(s)} \subseteq Range(s)
    BY <1>1, <1>2
  <2>2. ASSUME NEW i \in 1..Len(s) PROVE s[i] \in Range(t) \cup {Head(s)}
    BY <1>1, <1>2, <1>3, Zenon
  <2> QED BY <2>1, <2>2, <1>2, ZenonT(30)
<1>5. ASSUME Distinct(s) PROVE Distinct(t) /\ Head(s) \notin Range(t)
  <2>1. \A i \in 1..Len(t) : i + 1 \in 1..Len(s) /\ i + 1 # 1 /\ 1 \in 1..Len(s)
    BY <1>1
  <2>2. ASSUME NEW i \in 1..Len(t), NEW j \in 1..Len(t), t[i] = t[j] PROVE i = j
    <3>1. i + 1 = j + 1
      BY <1>1, <1>5, <2>1, <2>2, ZenonT(30) DEF Distinct
    <3> QED BY <1>1, <3>1
  <2>3. ASSUME NEW i \in 1..Len(t), t[i] = Head(s) PROVE FALSE
    BY <1>1, <1>5, <2>1, <2>3, Zenon DEF Distinct
  <2> QED BY <1>2, <2>2, <2>3, Zenon DEF Distinct
<1> QED BY <1>1, <1>4, <1>5, Zenon DEF t

LEMMA InsertElement ==
    ASSUME NEW S, NEW s \in Seq(S), NEW e \in S, NEW k \in 1..(Len(s) + 1)
    PROVE  /\ Pushed(s, k, e) \in Seq(S)
           /\ Range(Pushed(s, k, e)) = Range(s) \cup {e}
           /\ Distinct(s) /\ e \notin Range(s) => Distinct(Pushed(s, k, e))
<1> DEFINE a == SubSeq(s, 1, k - 1)
           b == SubSeq(s, k, Len(s))
           t == Pushed(s, k, e)
<1>1. Len(s) \in Nat /\ \A i \in 1..Len(s) : s[i] \in S
  OBVIOUS
<1>2. a \in Seq(S) /\ Len(a) = k - 1 /\ \A i \in 1..(k - 1) : a[i] = s[i]
  BY <1>1, SubSeqProperties
<1>3. b \in Seq(S) /\ Len(b) = Len(s) - k + 1 /\ \A i \in 1..(Len(s) - k + 1) : b[i] = s[k + i - 1]
  BY <1>1, SubSeqProperties
<1> HIDE DEF a, b
<1> DEFINE c == a \o <<e>>
<1>4. c \in Seq(S) /\ Len(c) = k /\ c[k] = e /\ \A i \in 1..(k - 1) : c[i] = s[i]
  <2>1. <<e>> \in Seq(S) /\ Len(<<e>>) = 1 /\ <<e>>[1] = e
    OBVIOUS
  <2>2. /\ c \in Seq(S) /\ Len(c) = Len(a) + Len(<<e>>)
        /\ \A i \in 1..(Len(a) + Len(<<e>>)) : c[i] = IF i <= Len(a) THEN a[i] ELSE <<e>>[i - Len(a)]
    BY <1>2, <2>1, ConcatProperties, Zenon
  <2> HIDE DEF c
  <2>3. k \in 1..k /\ ~(k <= k - 1) /\ k - (k - 1) = 1
    BY <1>1
  <2>4. c \in Seq(S) /\ Len(c) = k /\ c[k] = e
    BY <1>1, <1>2, <2>1, <2>2, <2>3, SMTT(20)
  <2>5. ASSUME NEW i \in 1..(k - 1) PROVE c[i] = s[i]
    <3>1. i \in 1..(Len(a) + Len(<<e>>)) /\ i <= Len(a)
      BY <1>1, <1>2, <2>1, SMTT(20)
    <3> QED BY <3>1, <1>2, <2>2, Zenon
  <2> QED BY <2>4, <2>5, Zenon
<1> HIDE DEF c
<1>5. t = c \o b
  BY Zenon DEF Pushed, a, b, c
<1> HIDE DEF t
<1>6. /\ t \in Seq(S) /\ Len(t) = Len(s) + 1
      /\ \A i \in 1..(Len(s) + 1) : t[i] = IF i <= k THEN c[i] ELSE b[i - k]
  <2>1. /\ t \in Seq(S) /\ Len(t) = Len(c) + Len(b)
        /\ \A i \in 1..(Len(c) + Len(b)) : t[i] = IF i <= Len(c) THEN c[i] ELSE b[i - Len(c)]
    BY <1>3, <1>4, <1>5, ConcatProperties, ZenonT(30)
  <2>2. Len(c) = k /\ Len(c) + Len(b) = Len(s) + 1
    BY <1>1, <1>3, <1>4
  <2> QED BY <2>1, <2>2, Zenon
<1>7. ASSUME NEW i \in 1..(Len(s) + 1)
      PROVE  t[i] = IF i < k THEN s[i] ELSE IF i = k THEN e ELSE s[i - 1]
  <2>1. CASE i < k
    <3>1. i \in 1..(k - 1) /\ i <= k
      BY <1>1, <2>1
    <3> QED BY <1>4, <1>6, <2>1, <3>1, Zenon
  <2>2. CASE i = k
    BY <1>1, <1>4, <1>6, <2>2, SMTT(20)
  <2>3. CASE i > k
    <3>1. i - k \in 1..(Len(s) - k + 1) /\ k + (i - k) - 1 = i - 1
      BY <1>1, <2>3
    <3>2. b[i - k] = s[i - 1]
      BY <1>3, <3>1, Zenon
    <3> QED BY <1>1, <1>6, <2>3, <3>2, SMTT(20)
  <2> QED BY <1>1, <2>1, <2>2, <2>3
<1>8. Range(t) = {t[i] : i \in 1..Len(t)} /\ Range(s) = {s[i] : i \in 1..Len(s)}
  BY <1>6, RangeOf
<1>9. \A i \in 1..Len(s) : (i < k /\ t[i] = s[i]) \/ (i >= k /\ t[i + 1] = s[i])
  <2> SUFFICES ASSUME NEW i \in 1..Len(s)
               PROVE  (i < k /\ t[i] = s[i]) \/ (i >= k /\ t[i + 1] = s[i])
    BY Zenon
  <2>1. /\ i \in 1..(Len(s) + 1) /\ i + 1 \in 1..(Len(s) + 1) /\ (i + 1) - 1 = i
        /\ i < k \/ (i >= k /\ ~(i + 1 < k) /\ i + 1 # k)
    BY <1>1
  <2> QED BY <1>7, <2>1, Zenon
<1>10. Range(t) = Range(s) \cup {e}
  <2>1. ASSUME NEW i \in 1..(Len(s) + 1) PROVE t[i] \in Range(s) \cup {e}
    <3>1. i < k => i \in 1..Len(s)
      BY <1>1
    <3>2. i > k => i - 1 \in 1..Len(s)
      BY <1>1
    <3> QED BY <1>1, <1>7, <1>8, <3>1, <3>2, SMTT(20)
  <2>2. ASSUME NEW i \in 1..Len(s) PROVE s[i] \in Range(t)
    <3>1. i \in 1..Len(t) /\ i + 1 \in 1..Len(t)
      BY <1>1, <1>6
    <3> QED BY <1>8, <1>9, <3>1, Zenon
  <2>3. e \in Range(t)
    BY <1>1, <1>6, <1>7, <1>8
  <2>4. Range(t) \subseteq Range(s) \cup {e}
    BY <1>6, <1>8, <2>1, ZenonT(30)
  <2>5. Range(s) \cup {e} \subseteq Range(t)
    BY <1>8, <2>2, <2>3, Zenon
  <2> QED BY <2>4, <2>5, Zenon
<1>11. ASSUME Distinct(s), e \notin Range(s) PROVE Distinct(t)
  <2> SUFFICES ASSUME NEW i \in 1..(Len(s) + 1), NEW j \in 1..(Len(s) + 1), i < j, t[i] = t[j]
               PROVE  FALSE
    BY <1>1, <1>6 DEF Distinct
  <2>1. i < k => i \in 1..Len(s)
    BY <1>1
  <2>2. i > k => i - 1 \in 1..Len(s)
    BY <1>1
  <2>3. j < k => j \in 1..Len(s)
    BY <1>1
  <2>4. j > k => j - 1 \in 1..Len(s)
    BY <1>1
  <2>5. t[i] = IF i < k THEN s[i] ELSE IF i = k THEN e ELSE s[i - 1]
    BY <1>7, Zenon
  <2>6. t[j] = IF j < k THEN s[j] ELSE IF j = k THEN e ELSE s[j - 1]
    BY <1>7, Zenon
  <2>7. \A m \in 1..Len(s) : s[m] # e
    BY <1>8, <1>11, Zenon
  <2>8. CASE i = k
    <3>1. j > k /\ ~(j < k) /\ j # k /\ ~(i < k)
      BY <1>1, <2>8
    <3>2. t[i] = e /\ t[j] = s[j - 1]
      BY <2>5, <2>6, <2>8, <3>1, Zenon
    <3> QED BY <3>1, <3>2, <2>4, <2>7, Zenon
  <2>9. CASE j = k
    <3>1. i < k /\ ~(j < k)
      BY <1>1, <2>9
    <3>2. t[i] = s[i] /\ t[j] = e
      BY <2>5, <2>6, <2>9, <3>1, Zenon
    <3> QED BY <3>1, <3>2, <2>1, <2>7, Zenon
  <2>10. CASE i # k /\ j # k
    <3> DEFINE p == IF i < k THEN i ELSE i - 1
               q == IF j < k THEN j ELSE j - 1
    <3>1. p \in 1..Len(s) /\ q \in 1..Len(s) /\ p # q
      BY <1>1, <2>1, <2>2, <2>3, <2>4, <2>10, SMTT(20)
    <3>2. s[p] = s[q]
      BY <2>5, <2>6, <2>10, Zenon
    <3> HIDE DEF p, q
    <3> QED BY <1>11, <3>1, <3>2, Zenon DEF Distinct
  <2> QED BY <2>8, <2>9, <2>10, Zenon
<1> QED BY <1>6, <1>10, <1>11, Zenon DEF t

\* How often an element occurs in a queue without repetitions.
LEMMA Occurrences ==
    ASSUME NEW S, NEW s \in Seq(S), Distinct(s), NEW e
    PROVE  Cardinality({i \in 1..Len(s) : s[i] = e}) = IF e \in Range(s) THEN 1 ELSE 0
<1>1. Range(s) = {s[i] : i \in 1..Len(s)}
  BY RangeOf
<1>2. CASE e \in Range(s)
  <2>1. PICK i \in 1..Len(s) : s[i] = e
    BY <1>1, <1>2, Zenon
  <2>2. {j \in 1..Len(s) : s[j] = e} = {i}
    BY <2>1, Zenon DEF Distinct
  <2> QED BY <1>2, <2>2, FS_Singleton, Zenon
<1>3. CASE e \notin Range(s)
  <2>1. {j \in 1..Len(s) : s[j] = e} = {}
    BY <1>1, <1>3, Zenon
  <2> QED BY <1>3, <2>1, FS_EmptySet, Zenon
<1> QED BY <1>2, <1>3, Zenon

-----------------------------------------------------------------------------
(* The inductive invariant *)

WorkerPcs == {"top", "wait", "inside", "pushed", "yielding", "back", "ended"}

Types ==
    /\ running \in BOOLEAN
    /\ readyQueue \in Seq(Coros) /\ sleepHeap \in Seq(Coros)
    /\ wpc \in [Workers -> WorkerPcs]
    /\ current \in [Workers -> Coros \cup {None}]
    /\ timer \in {"top", "committed", "waiting", "holding", "ended"}
    /\ entry \in Coros \cup {None}
    /\ stopPc \in {"no", "flagged", "joining", "reaping", "done"}
    /\ done \subseteq Coros /\ spawned \subseteq Coros /\ late \subseteq Coros
    /\ deletes \in [Coros -> Nat]

\* A worker that is not looking for a coroutine has one, the timer thread has one
\* while it moves it, and stop() reaps once all of them have ended.
Hands ==
    /\ \A w \in Workers : current[w] = None <=> wpc[w] \in {"top", "wait", "ended"}
    /\ entry = None <=> timer # "holding"
    /\ stopPc # "no" => ~running
    /\ Reaping => timer = "ended" /\ \A w \in Workers : wpc[w] = "ended"
    /\ stopPc = "done" => sleepHeap = <<>>

\* The coroutines that are ready, asleep, being moved, and running.
Ready == Range(readyQueue)
Asleep == Range(sleepHeap)
Moved == {entry} \ {None}
Inside == {current[w] : w \in {v \in Workers : wpc[v] = "inside"}}

\* No queue holds a coroutine twice, and no two workers run the same function.
NoTwins ==
    /\ Distinct(readyQueue) /\ Distinct(sleepHeap)
    /\ \A v, w \in Workers :
          wpc[v] = "inside" /\ wpc[w] = "inside" /\ current[v] = current[w] => v = w

\* The four sets are apart from each other and from the finished coroutines, and
\* together hold all the others until stop() deletes these, first those that are ready
\* and then those that are asleep.  The coroutines spawned meanwhile are not among them.
Apart ==
    /\ Ready \cap Asleep = {} /\ Moved \cap (Ready \cup Asleep) = {}
    /\ Inside \cap (Ready \cup Asleep \cup Moved) = {}
    /\ done \cap (Ready \cup Asleep \cup Moved \cup Inside) = {}
    /\ Ready \cup Asleep \cup Moved \cup Inside \subseteq spawned
    /\ done \subseteq spawned /\ late \subseteq spawned
    /\ stopPc # "done" => spawned \ (done \cup late) \subseteq Ready \cup Asleep \cup Moved \cup Inside
    /\ ~Reaping => late = {} /\ \A c \in Coros \ done : deletes[c] = 0
    /\ stopPc = "reaping" => /\ \A c \in Ready \ late : deletes[c] # 0
                             /\ \A c \in Asleep : deletes[c] = 0
    /\ stopPc = "done" => /\ Ready \subseteq late
                          /\ \A c \in spawned \ (done \cup late) : deletes[c] # 0

IInv == Types /\ Hands /\ NoTwins /\ Apart

-----------------------------------------------------------------------------
(* Types and hands *)

LEMMA TypesStep ==
    ASSUME Types, Hands, [Next]_vars
    PROVE  Types'
<1> USE SchedulerAssumption DEF Types, Goto, coroVars, historyVars
<1>1. CASE UNCHANGED vars
  BY <1>1, Zenon DEF vars
<1>2. ASSUME NEW c \in Coros, Spawn(c) PROVE Types'
  BY <1>2, AppendElement, Zenon DEF Spawn
<1>3. ASSUME NEW w \in Workers, WorkerStep(w) PROVE Types'
  <2>1. CASE WorkerTop(w)
    BY <2>1, Zenon DEF WorkerTop, WorkerPcs
  <2>2. CASE WorkerTakes(w)
    <3>1. CASE readyQueue = <<>>
      BY <2>2, <3>1, Zenon DEF WorkerTakes, WorkerPcs
    <3>2. CASE readyQueue # <<>>
      <4>1. Head(readyQueue) \in Coros /\ Tail(readyQueue) \in Seq(Coros)
        BY <3>2, TakeHead, Zenon
      <4> QED BY <2>2, <3>2, <4>1, ZenonT(30) DEF WorkerTakes, WorkerPcs
    <3> QED BY <3>1, <3>2, Zenon
  <2>3. CASE CoSleep(w)
    <3>1. current[w] \in Coros
      BY <2>3, Zenon DEF CoSleep, Hands
    <3>2. PICK k \in 1..(Len(sleepHeap) + 1) : sleepHeap' = Pushed(sleepHeap, k, current[w])
      BY <2>3, Zenon DEF CoSleep
    <3>3. sleepHeap' \in Seq(Coros)
      BY <3>1, <3>2, InsertElement, Zenon
    <3> QED BY <2>3, <3>3, Zenon DEF CoSleep, WorkerPcs
  <2>4. CASE NotifySleep(w)
    BY <2>4, Zenon DEF NotifySleep, TimerNotified, WorkerPcs
  <2>5. CASE Yield(w)
    BY <2>5, Zenon DEF Yield, WorkerPcs
  <2>6. CASE Finish(w)
    BY <2>6, Zenon DEF Finish, WorkerPcs, Hands
  <2>7. CASE WorkerBack(w)
    <3>1. deletes' \in [Coros -> Nat]
      <4>1. deletes' = [deletes EXCEPT ![current[w]] =
                            IF current[w] \in done THEN @ + 1 ELSE @]
        BY <2>7, Zenon DEF WorkerBack, Reaped
      <4>2. \A c \in Coros : deletes[c] \in Nat /\ deletes[c] + 1 \in Nat
        OBVIOUS
      <4> QED BY <4>1, <4>2, Zenon
    <3> QED BY <2>7, <3>1, Zenon DEF WorkerBack, WorkerPcs
  <2> QED BY <1>3, <2>1, <2>2, <2>3, <2>4, <2>5, <2>6, <2>7, Zenon DEF WorkerStep
<1>4. CASE TimerIdle \/ TimerWaits
  BY <1>4, Zenon DEF TimerIdle, TimerWaits
<1>5. CASE TimerPops
  BY <1>5, TakeHead, Zenon DEF TimerPops, HeapLeft
<1>6. CASE TimerReadies
  <2>1. entry \in Coros
    BY <1>6, Zenon DEF TimerReadies, Hands
  <2> QED BY <1>6, <2>1, AppendElement, Zenon DEF TimerReadies
<1>7. CASE StopFlag \/ StopNotifies
  BY <1>7, Zenon DEF StopFlag, StopNotifies, TimerNotified
<1>8. CASE StopReapsReady \/ StopReapsAsleep
  <2>1. \A q : [c \in Coros |-> IF c \in Range(q) THEN deletes[c] + 1 ELSE deletes[c]] \in [Coros -> Nat]
    <3>1. \A c \in Coros : deletes[c] \in Nat /\ deletes[c] + 1 \in Nat
      OBVIOUS
    <3> QED BY <3>1, Zenon
  <2>2. deletes' \in [Coros -> Nat]
    <3>1. PICK q : deletes' = [c \in Coros |-> IF c \in Range(q) THEN deletes[c] + 1 ELSE deletes[c]]
      BY <1>8, Zenon DEF StopReapsReady, StopReapsAsleep, DeletedIn
    <3> QED BY <2>1, <3>1, Zenon
  <2> QED BY <1>8, <2>2, EmptySeq, Zenon DEF StopReapsReady, StopReapsAsleep
<1> QED BY <1>1, <1>2, <1>3, <1>4, <1>5, <1>6, <1>7, <1>8, Zenon DEF Next, TimerStep, StopStep

LEMMA HandsStep ==
    ASSUME Types, Hands, [Next]_vars
    PROVE  Hands'
<1> USE SchedulerAssumption DEF Types, Hands, Goto, coroVars, historyVars, Reaping
<1>1. CASE UNCHANGED vars
  BY <1>1, Zenon DEF vars
<1>2. ASSUME NEW c \in Coros, Spawn(c) PROVE Hands'
  BY <1>2, ZenonT(30) DEF Spawn
<1>3. ASSUME NEW w \in Workers, WorkerStep(w) PROVE Hands'
  <2>1. CASE WorkerTop(w)
    BY <2>1, Zenon DEF WorkerTop
  <2>2. CASE WorkerTakes(w)
    <3>1. CASE readyQueue = <<>>
      BY <2>2, <3>1, Zenon DEF WorkerTakes
    <3>2. CASE readyQueue # <<>>
      <4>1. Head(readyQueue) \in Coros
        BY <3>2, TakeHead, Zenon
      <4> QED BY <2>2, <3>2, <4>1, Zenon DEF WorkerTakes
    <3> QED BY <3>1, <3>2, Zenon
  <2>3. CASE CoSleep(w)
    BY <2>3, Zenon DEF CoSleep
  <2>4. CASE NotifySleep(w)
    BY <2>4, Zenon DEF NotifySleep, TimerNotified
  <2>5. CASE Yield(w)
    BY <2>5, Zenon DEF Yield
  <2>6. CASE Finish(w)
    BY <2>6, Zenon DEF Finish
  <2>7. CASE WorkerBack(w)
    BY <2>7, Zenon DEF WorkerBack
  <2> QED BY <1>3, <2>1, <2>2, <2>3, <2>4, <2>5, <2>6, <2>7, SMTT(20) DEF WorkerStep
<1>4. CASE TimerIdle \/ TimerWaits
  BY <1>4 DEF TimerIdle, TimerWaits
<1>5. CASE TimerPops
  BY <1>5, TakeHead DEF TimerPops
<1>6. CASE TimerReadies
  BY <1>6, Zenon DEF TimerReadies
<1>7. CASE StopFlag \/ StopNotifies
  BY <1>7 DEF StopFlag, StopNotifies, TimerNotified
<1>8. CASE StopReapsReady
  BY <1>8, ZenonT(30) DEF StopReapsReady
<1>9. CASE StopReapsAsleep
  BY <1>9, ZenonT(30) DEF StopReapsAsleep
<1> QED
  BY <1>1, <1>2, <1>3, <1>4, <1>5, <1>6, <1>7, <1>8, <1>9, ZenonT(30) DEF Next, TimerStep, StopStep

-----------------------------------------------------------------------------
(* Places *)

\* A step that changes only where the threads are.
LEMMA SamePlaces ==
    ASSUME IInv, NEW w \in Workers, NEW l, l # "inside", wpc[w] # "inside",
           wpc' = [wpc EXCEPT ![w] = l],
           current' = current \/ current' = [current EXCEPT ![w] = None],
           UNCHANGED <<readyQueue, sleepHeap>>
    PROVE  /\ NoTwins' /\ Ready' = Ready /\ Asleep' = Asleep /\ Inside' = Inside
<1> USE DEF IInv, Types
<1>1. \A v \in Workers : wpc'[v] = "inside" <=> wpc[v] = "inside"
  BY Zenon
<1>2. \A v \in Workers : wpc[v] = "inside" => current'[v] = current[v]
  BY Zenon
<1>3. Inside' = Inside
  <2>1. ASSUME NEW x \in Inside PROVE x \in Inside'
    <3>1. PICK v \in Workers : wpc[v] = "inside" /\ x = current[v]
      BY Zenon DEF Inside
    <3> QED BY <1>1, <1>2, <3>1, Zenon DEF Inside
  <2>2. ASSUME NEW x \in Inside' PROVE x \in Inside
    <3>1. PICK v \in Workers : wpc'[v] = "inside" /\ x = current'[v]
      BY Zenon DEF Inside
    <3> QED BY <1>1, <1>2, <3>1, Zenon DEF Inside
  <2> QED BY <2>1, <2>2, Zenon
<1>4. NoTwins'
  BY <1>1, <1>2 DEF NoTwins, Distinct
<1> QED BY <1>3, <1>4, Zenon DEF Ready, Asleep

\* A worker leaves the function it runs.
LEMMA LeavesInside ==
    ASSUME IInv, NEW w \in Workers, NEW l, l # "inside", wpc[w] = "inside",
           wpc' = [wpc EXCEPT ![w] = l], current' = current
    PROVE  /\ current[w] \in Inside /\ Inside' = Inside \ {current[w]}
           /\ \A u, v \in Workers : wpc'[u] = "inside" /\ wpc'[v] = "inside"
                  /\ current'[u] = current'[v] => u = v
<1> USE DEF IInv, Types
<1>1. wpc'[w] # "inside" /\ \A v \in Workers \ {w} : wpc'[v] = wpc[v]
  BY Zenon
<1>2. \A v \in Workers \ {w} : wpc[v] = "inside" => current[v] # current[w]
  BY Zenon DEF NoTwins
<1>3. current[w] \in Inside
  BY Zenon DEF Inside
<1>4. ASSUME NEW x PROVE x \in Inside' <=> x \in Inside \ {current[w]}
  BY <1>1, <1>2, ZenonT(30) DEF Inside
<1> QED BY <1>1, <1>3, <1>4, Zenon DEF NoTwins

\* What Apart says of the places while stop() does not reap.
Placed ==
    /\ Ready \cap Asleep = {} /\ Moved \cap (Ready \cup Asleep) = {}
    /\ Inside \cap (Ready \cup Asleep \cup Moved) = {}
    /\ done \cap (Ready \cup Asleep \cup Moved \cup Inside) = {}
    /\ Ready \cup Asleep \cup Moved \cup Inside \subseteq spawned
    /\ done \subseteq spawned
    /\ spawned \ done \subseteq Ready \cup Asleep \cup Moved \cup Inside

LEMMA PlacedBefore ==
    ASSUME IInv, ~Reaping
    PROVE  Placed
<1>1. late = {} /\ stopPc # "done"
  BY Zenon DEF IInv, Apart, Reaping
<1>2. spawned \ done \subseteq Ready \cup Asleep \cup Moved \cup Inside
  BY <1>1, Zenon DEF IInv, Apart
<1> QED BY <1>2, Zenon DEF IInv, Apart, Placed

LEMMA PlacedAfter ==
    ASSUME IInv, ~Reaping, stopPc' = stopPc \/ ~Reaping', late' = late,
           \A c \in Coros \ done : deletes'[c] = deletes[c],
           done \subseteq done', Placed'
    PROVE  Apart'
<1>1. late' = {} /\ \A c \in Coros \ done' : deletes'[c] = 0
  BY Zenon DEF IInv, Apart
<1>2. stopPc' # "reaping" /\ stopPc' # "done" /\ ~Reaping'
  BY Zenon DEF Reaping
<1>3. late' \subseteq spawned'
  BY <1>1, Zenon
<1> QED BY <1>1, <1>2, <1>3, ZenonT(30) DEF Apart, Placed

LEMMA ApartStep ==
    ASSUME IInv, [Next]_vars
    PROVE  NoTwins' /\ Apart'
<1> USE SchedulerAssumption
<1>0. Types' /\ Hands'
  BY TypesStep, HandsStep, Zenon DEF IInv
<1>1. CASE UNCHANGED vars
  BY <1>1 DEF vars, coroVars, historyVars, IInv, NoTwins, Apart, Ready, Asleep, Moved, Inside, Distinct, Reaping
<1>2. ASSUME NEW c \in Coros, Spawn(c) PROVE NoTwins' /\ Apart'
  <2>1. Inside' = Inside /\ Moved' = Moved /\ Asleep' = Asleep
    BY <1>2, Zenon DEF Spawn, Inside, Moved, Asleep
  <2>2. c \notin Ready /\ c \notin done
    BY <1>2, Zenon DEF Spawn, IInv, Apart
  <2>3. Ready' = Ready \cup {c} /\ Distinct(readyQueue')
    BY <1>2, <2>2, AppendElement, SMTT(20) DEF Spawn, IInv, Types, NoTwins, Ready
  <2>4. NoTwins'
    BY <1>2, <2>3 DEF Spawn, IInv, NoTwins, Distinct
  <2>5. /\ stopPc' = stopPc /\ done' = done /\ deletes' = deletes
        /\ spawned' = spawned \cup {c} /\ c \notin spawned
        /\ Reaping' <=> Reaping
    BY <1>2, Zenon DEF Spawn, Reaping
  <2>7. (Reaping => late' = late \cup {c}) /\ (~Reaping => late' = late)
    BY <1>2, Zenon DEF Spawn
  <2>8. (stopPc = "reaping" => Reaping) /\ (stopPc = "done" => Reaping)
    BY Zenon DEF Reaping
  <2>6. Apart'
    <3>1. CASE Reaping
      <4>1. late' = late \cup {c}
        BY <2>7, <3>1, Zenon
      <4>2. /\ stopPc = "done" => Ready \subseteq late
            /\ stopPc = "reaping" => /\ \A d \in Ready \ late : deletes[d] # 0
                                     /\ \A d \in Asleep : deletes[d] = 0
            /\ stopPc = "done" => \A d \in spawned \ (done \cup late) : deletes[d] # 0
            /\ stopPc # "done" =>
                  spawned \ (done \cup late) \subseteq Ready \cup Asleep \cup Moved \cup Inside
        BY Zenon DEF IInv, Apart
      <4>3. Ready' \ late' \subseteq Ready \ late /\ (Ready \subseteq late => Ready' \subseteq late')
        BY <2>3, <4>1, Zenon
      <4>4. spawned' \ (done' \cup late') \subseteq spawned \ (done \cup late)
        BY <2>5, <4>1, Zenon
      <4>5. /\ Ready \cap Asleep = {} /\ Moved \cap (Ready \cup Asleep) = {}
            /\ Inside \cap (Ready \cup Asleep \cup Moved) = {}
            /\ done \cap (Ready \cup Asleep \cup Moved \cup Inside) = {}
            /\ Ready \cup Asleep \cup Moved \cup Inside \subseteq spawned
            /\ done \subseteq spawned /\ late \subseteq spawned
        BY Zenon DEF IInv, Apart
      <4>6. /\ Ready' \cap Asleep' = {} /\ Moved' \cap (Ready' \cup Asleep') = {}
            /\ Inside' \cap (Ready' \cup Asleep' \cup Moved') = {}
            /\ done' \cap (Ready' \cup Asleep' \cup Moved' \cup Inside') = {}
            /\ Ready' \cup Asleep' \cup Moved' \cup Inside' \subseteq spawned'
            /\ done' \subseteq spawned' /\ late' \subseteq spawned'
        BY <2>1, <2>2, <2>3, <2>5, <4>1, <4>5, SMTT(20)
      <4>7. stopPc' = "reaping" => /\ \A d \in Ready' \ late' : deletes'[d] # 0
                                   /\ \A d \in Asleep' : deletes'[d] = 0
        BY <2>1, <2>5, <4>2, <4>3, Zenon
      <4>8. stopPc' = "done" => /\ Ready' \subseteq late'
                                /\ \A d \in spawned' \ (done' \cup late') : deletes'[d] # 0
        BY <2>5, <4>2, <4>3, <4>4, Zenon
      <4>9. stopPc' # "done" =>
                spawned' \ (done' \cup late') \subseteq Ready' \cup Asleep' \cup Moved' \cup Inside'
        BY <2>1, <2>3, <2>5, <4>2, <4>4, Zenon
      <4> QED BY <2>5, <3>1, <4>6, <4>7, <4>8, <4>9, Zenon DEF Apart
    <3>2. CASE ~Reaping
      <4>1. late' = late /\ stopPc # "reaping" /\ stopPc # "done"
        BY <2>7, <2>8, <3>2, Zenon
      <4> QED BY <2>1, <2>2, <2>3, <2>5, <3>2, <4>1, ZenonT(30) DEF IInv, Apart
    <3> QED BY <3>1, <3>2, Zenon
  <2> QED BY <2>4, <2>6, Zenon
<1>3. ASSUME NEW w \in Workers, WorkerStep(w) PROVE NoTwins' /\ Apart'
  <2>0. ASSUME NEW l, l # "inside", wpc[w] # "inside", wpc' = [wpc EXCEPT ![w] = l],
               current' = current \/ current' = [current EXCEPT ![w] = None],
               UNCHANGED <<readyQueue, sleepHeap, entry, stopPc, done, spawned, deletes, late>>
        PROVE  NoTwins' /\ Apart'
    <3>1. NoTwins' /\ Ready' = Ready /\ Asleep' = Asleep /\ Inside' = Inside
      BY <2>0, SamePlaces, Zenon
    <3>2. Moved' = Moved
      BY <2>0, Zenon DEF Moved
    <3> QED BY <2>0, <3>1, <3>2, Zenon DEF IInv, Apart, Reaping
  <2>1. CASE WorkerTop(w)
    BY <2>1, <2>0, Zenon DEF WorkerTop, Goto, coroVars, historyVars
  <2>2. CASE WorkerTakes(w) /\ readyQueue = <<>>
    BY <2>2, <2>0, Zenon DEF WorkerTakes, Goto, coroVars
  <2>3. CASE WorkerTakes(w) /\ readyQueue # <<>>
    <3> DEFINE c == Head(readyQueue)
    <3>1. c \in Coros /\ c \in Ready /\ Ready' = Ready \ {c} /\ Distinct(readyQueue')
      <4>1. readyQueue \in Seq(Coros) /\ Distinct(readyQueue)
        BY Zenon DEF IInv, Types, NoTwins
      <4>2. readyQueue' = Tail(readyQueue) /\ readyQueue # <<>>
        BY <2>3, Zenon DEF WorkerTakes
      <4>3. c \in Coros /\ c \in Range(readyQueue) /\ Distinct(Tail(readyQueue))
            /\ Range(Tail(readyQueue)) = Range(readyQueue) \ {c}
        BY <4>1, <4>2, TakeHead, Zenon
      <4> QED BY <4>2, <4>3, Zenon DEF Ready
    <3>2. Asleep' = Asleep /\ Moved' = Moved
      BY <2>3, Zenon DEF WorkerTakes, Asleep, Moved
    <3>3. wpc[w] = "wait" /\ wpc' = [wpc EXCEPT ![w] = "inside"] /\ current' = [current EXCEPT ![w] = c]
      BY <2>3, Zenon DEF WorkerTakes, Goto
    <3>4. /\ wpc'[w] = "inside" /\ current'[w] = c
          /\ \A v \in Workers \ {w} : wpc'[v] = wpc[v] /\ current'[v] = current[v]
      BY <3>3, Zenon DEF IInv, Types
    <3> HIDE DEF c
    <3>5. Inside' = Inside \cup {c}
      <4>1. ASSUME NEW x PROVE x \in Inside' <=> x \in Inside \cup {c}
        BY <3>3, <3>4, ZenonT(30) DEF Inside
      <4> QED BY <4>1, Zenon
    <3>6. c \notin Inside
      BY <3>1, Zenon DEF IInv, Apart
    <3>7. \A v \in Workers \ {w} : wpc[v] = "inside" => current[v] # c
      BY <3>6, Zenon DEF Inside
    <3>8. NoTwins'
      <4>1. sleepHeap' = sleepHeap
        BY <2>3, Zenon DEF WorkerTakes
      <4> QED BY <3>1, <3>4, <3>7, <4>1, SMTT(20) DEF IInv, NoTwins, Distinct
    <3>9. UNCHANGED <<stopPc, done, spawned, deletes, late>>
      BY <2>3, Zenon DEF WorkerTakes, coroVars
    <3>10. ~Reaping
      BY <3>3, Zenon DEF IInv, Hands
    <3>11. Placed'
      BY <3>1, <3>2, <3>5, <3>6, <3>9, <3>10, PlacedBefore, SMTT(20) DEF Placed
    <3> QED BY <3>8, <3>9, <3>10, <3>11, PlacedAfter, Zenon
  <2>4. CASE CoSleep(w)
    <3> DEFINE c == current[w]
    <3>1. c \in Inside /\ Inside' = Inside \ {c}
          /\ \A u, v \in Workers : wpc'[u] = "inside" /\ wpc'[v] = "inside"
                  /\ current'[u] = current'[v] => u = v
      BY <2>4, LeavesInside, Zenon DEF CoSleep, Goto
    <3>2. c \in Coros
      BY <2>4, Zenon DEF CoSleep, IInv, Types, Hands
    <3>3. c \notin Asleep
      BY <3>1, Zenon DEF IInv, Apart
    <3>4. PICK k \in 1..(Len(sleepHeap) + 1) : sleepHeap' = Pushed(sleepHeap, k, c)
      BY <2>4, Zenon DEF CoSleep
    <3>5. Asleep' = Asleep \cup {c} /\ Distinct(sleepHeap')
      BY <3>2, <3>3, <3>4, InsertElement, SMTT(20) DEF IInv, Types, NoTwins, Asleep
    <3>6. Ready' = Ready /\ Moved' = Moved /\ readyQueue' = readyQueue
          /\ UNCHANGED <<stopPc, done, spawned, deletes, late>>
      BY <2>4, Zenon DEF CoSleep, Ready, Moved, historyVars
    <3>7. NoTwins'
      BY <3>1, <3>5, <3>6 DEF IInv, NoTwins, Distinct
    <3>8. ~Reaping
      BY <2>4, Zenon DEF CoSleep, IInv, Hands
    <3> HIDE DEF c
    <3>9. Placed'
      BY <3>1, <3>3, <3>5, <3>6, <3>8, PlacedBefore, SMTT(20) DEF Placed
    <3> QED BY <3>6, <3>7, <3>8, <3>9, PlacedAfter, Zenon
  <2>5. CASE NotifySleep(w)
    BY <2>5, <2>0, Zenon DEF NotifySleep, Goto, coroVars, historyVars
  <2>6. CASE Yield(w)
    BY <2>6, <2>0, Zenon DEF Yield, Goto, coroVars, historyVars

  <2>7. CASE Finish(w)
    <3> DEFINE c == current[w]
    <3>1. c \in Inside /\ Inside' = Inside \ {c}
          /\ \A u, v \in Workers : wpc'[u] = "inside" /\ wpc'[v] = "inside"
                  /\ current'[u] = current'[v] => u = v
      BY <2>7, LeavesInside, Zenon DEF Finish, Goto
    <3>2. /\ Ready' = Ready /\ Asleep' = Asleep /\ Moved' = Moved /\ done' = done \cup {c}
          /\ UNCHANGED <<readyQueue, sleepHeap, stopPc, spawned, deletes, late>>
      BY <2>7, Zenon DEF Finish, Ready, Asleep, Moved, historyVars
    <3>3. NoTwins'
      BY <3>1, <3>2 DEF IInv, NoTwins, Distinct
    <3>4. ~Reaping
      BY <2>7, Zenon DEF Finish, IInv, Hands
    <3> HIDE DEF c
    <3>5. Placed'
      BY <3>1, <3>2, <3>4, PlacedBefore, SMTT(20) DEF Placed
    <3> QED BY <3>2, <3>3, <3>4, <3>5, PlacedAfter, Zenon
  <2>8. CASE WorkerBack(w)
    <3>1. NoTwins' /\ Ready' = Ready /\ Asleep' = Asleep /\ Inside' = Inside
      BY <2>8, SamePlaces, Zenon DEF WorkerBack, Goto
    <3>2. Moved' = Moved /\ UNCHANGED <<stopPc, done, spawned, late>>
      BY <2>8, Zenon DEF WorkerBack, Moved, historyVars
    <3>3. ~Reaping
      BY <2>8, Zenon DEF WorkerBack, IInv, Hands
    <3>4. \A d \in Coros \ done : deletes'[d] = deletes[d]
      BY <2>8, Zenon DEF WorkerBack, Reaped, IInv, Types
    <3>5. Placed'
      BY <3>1, <3>2, <3>3, PlacedBefore, Zenon DEF Placed
    <3> QED BY <3>1, <3>2, <3>3, <3>4, <3>5, PlacedAfter, Zenon
  <2> QED BY <1>3, <2>1, <2>2, <2>3, <2>4, <2>5, <2>6, <2>7, <2>8, ZenonT(30) DEF WorkerStep
<1>4. ASSUME UNCHANGED <<readyQueue, sleepHeap, wpc, current, entry, done, spawned, deletes, late>>,
             stopPc' = stopPc \/ (~Reaping /\ ~Reaping')
      PROVE  NoTwins' /\ Apart'
  <2>1. NoTwins'
    BY <1>4 DEF IInv, NoTwins, Distinct
  <2>2. Ready' = Ready /\ Asleep' = Asleep /\ Moved' = Moved /\ Inside' = Inside
    BY <1>4, Zenon DEF Ready, Asleep, Moved, Inside
  <2>3. CASE stopPc' = stopPc
    BY <1>4, <2>1, <2>2, <2>3, Zenon DEF IInv, Apart, Reaping
  <2>4. CASE ~Reaping /\ ~Reaping'
    <3>1. Placed'
      BY <1>4, <2>2, <2>4, PlacedBefore, Zenon DEF Placed
    <3> QED BY <1>4, <2>1, <2>4, <3>1, PlacedAfter, Zenon
  <2> QED BY <1>4, <2>3, <2>4, Zenon
<1>5. CASE TimerIdle \/ TimerWaits
  BY <1>4, <1>5, Zenon DEF TimerIdle, TimerWaits, coroVars, historyVars
<1>6. CASE StopFlag \/ StopNotifies
  BY <1>4, <1>6, Zenon DEF StopFlag, StopNotifies, coroVars, historyVars, Reaping
<1>7. CASE TimerPops
  <2> DEFINE c == Head(sleepHeap)
  <2>1. c \in Coros /\ c \in Asleep /\ Asleep' = Asleep \ {c} /\ Distinct(sleepHeap')
    BY <1>7, TakeHead, Zenon DEF TimerPops, HeapLeft, IInv, Types, NoTwins, Asleep
  <2>2. Moved = {}
    BY <1>7, Zenon DEF TimerPops, IInv, Hands, Moved
  <2>3. Moved' = {c}
    BY <1>7, <2>1, Zenon DEF TimerPops, Moved
  <2>4. Ready' = Ready /\ Inside' = Inside
        /\ UNCHANGED <<readyQueue, wpc, current, stopPc, done, spawned, deletes, late>>
    BY <1>7, Zenon DEF TimerPops, coroVars, historyVars, Ready, Inside
  <2> HIDE DEF c
  <2>5. NoTwins'
    BY <2>1, <2>4, SMTT(20) DEF IInv, NoTwins, Distinct
  <2>6. ~Reaping
    BY <1>7, Zenon DEF TimerPops, IInv, Hands
  <2>7. Placed'
    BY <2>1, <2>2, <2>3, <2>4, <2>6, PlacedBefore, SMTT(20) DEF Placed
  <2> QED BY <2>4, <2>5, <2>6, <2>7, PlacedAfter, Zenon
<1>8. CASE TimerReadies
  <2>1. entry \in Coros /\ Moved = {entry} /\ Moved' = {}
    BY <1>8, Zenon DEF TimerReadies, IInv, Types, Hands, Moved
  <2>2. entry \notin Ready /\ entry \notin done
    BY <2>1, Zenon DEF IInv, Apart
  <2>3. Ready' = Ready \cup {entry} /\ Distinct(readyQueue')
    BY <1>8, <2>1, <2>2, AppendElement, SMTT(20) DEF TimerReadies, IInv, Types, NoTwins, Ready
  <2>4. Asleep' = Asleep /\ Inside' = Inside
        /\ UNCHANGED <<sleepHeap, wpc, current, stopPc, done, spawned, deletes, late>>
    BY <1>8, Zenon DEF TimerReadies, coroVars, historyVars, Asleep, Inside
  <2>5. NoTwins'
    BY <2>3, <2>4, ZenonT(30) DEF IInv, NoTwins, Distinct
  <2>6. ~Reaping
    BY <1>8, Zenon DEF TimerReadies, IInv, Hands
  <2>7. Placed'
    BY <2>1, <2>2, <2>3, <2>4, <2>6, PlacedBefore, SMTT(20) DEF Placed
  <2> QED BY <2>4, <2>5, <2>6, <2>7, PlacedAfter, Zenon
<1>9. CASE StopReapsReady
  <2>1. /\ Ready' = Ready /\ Asleep' = Asleep /\ Moved' = Moved /\ Inside' = Inside
        /\ UNCHANGED <<readyQueue, sleepHeap, wpc, current, done, spawned, late>>
    BY <1>9, Zenon DEF StopReapsReady, historyVars, Ready, Asleep, Moved, Inside
  <2>2. NoTwins'
    BY <2>1, Zenon DEF IInv, NoTwins
  <2>3. stopPc = "joining" /\ stopPc' = "reaping" /\ ~Reaping /\ Reaping'
    BY <1>9, Zenon DEF StopReapsReady, Reaping
  <2>4. \A c \in Ready \cup Asleep : c \in Coros /\ deletes[c] = 0
    BY <2>3, Zenon DEF IInv, Types, Apart
  <2>5. \A c \in Coros : deletes'[c] = IF c \in Ready THEN deletes[c] + 1 ELSE deletes[c]
    BY <1>9, Zenon DEF StopReapsReady, DeletedIn, Ready
  <2>6. \A c \in Ready : deletes'[c] # 0
    BY <2>4, <2>5, SMTT(20)
  <2>7. \A c \in Asleep : deletes'[c] = 0
    BY <2>4, <2>5, Zenon DEF IInv, Apart
  <2> QED BY <2>1, <2>2, <2>3, <2>6, <2>7, ZenonT(30) DEF IInv, Apart
<1>10. CASE StopReapsAsleep
  <2>1. Ready' = {} /\ Asleep' = {} /\ Distinct(readyQueue') /\ Distinct(sleepHeap')
    <3>1. <<>> \in Seq(Coros) /\ Range(<<>>) = {}
      BY EmptySeq, RangeOf, Zenon
    <3> QED BY <1>10, <3>1 DEF StopReapsAsleep, Ready, Asleep, Distinct
  <2>2. stopPc = "reaping" /\ stopPc' = "done" /\ Reaping /\ Reaping'
    BY <1>10, Zenon DEF StopReapsAsleep, Reaping
  <2>3. Moved = {} /\ Inside = {}
    BY <2>2, Zenon DEF IInv, Hands, Moved, Inside
  <2>4. Moved' = {} /\ Inside' = {} /\ UNCHANGED <<wpc, current, done, spawned, late>>
    BY <1>10, <2>3, Zenon DEF StopReapsAsleep, historyVars, Moved, Inside
  <2>5. NoTwins'
    BY <2>1, <2>4, Zenon DEF IInv, NoTwins
  <2>6. spawned \ (done \cup late) \subseteq Ready \cup Asleep
    BY <2>2, <2>3, Zenon DEF IInv, Apart
  <2>7. ASSUME NEW c \in spawned \ (done \cup late) PROVE deletes'[c] # 0
    <3>1. c \in Coros /\ deletes[c] \in Nat
      BY Zenon DEF IInv, Types
    <3>2. deletes'[c] = IF c \in Asleep THEN deletes[c] + 1 ELSE deletes[c]
      BY <1>10, <3>1, Zenon DEF StopReapsAsleep, DeletedIn, Asleep
    <3>3. c \notin Asleep => deletes[c] # 0
      BY <2>2, <2>6, Zenon DEF IInv, Apart
    <3> QED BY <3>1, <3>2, <3>3, SMTT(20)
  <2>8. late \subseteq spawned /\ done \subseteq spawned
    BY Zenon DEF IInv, Apart
  <2> QED BY <2>1, <2>2, <2>4, <2>5, <2>7, <2>8, ZenonT(30) DEF Apart
<1> QED
  BY <1>1, <1>2, <1>3, <1>5, <1>6, <1>7, <1>8, <1>9, <1>10, Zenon DEF Next, TimerStep, StopStep

LEMMA Invariance == Spec => []IInv
<1>1. Init => IInv
  <2> SUFFICES ASSUME Init PROVE IInv
    BY Zenon
  <2> USE SchedulerAssumption
  <2>1. <<>> \in Seq(Coros) /\ Range(<<>>) = {}
    BY EmptySeq, RangeOf, Zenon
  <2>2. Types /\ Hands
    BY <2>1, Zenon DEF Init, Types, Hands, WorkerPcs, Reaping
  <2>3. Ready = {} /\ Asleep = {} /\ Moved = {} /\ Inside = {}
    BY <2>1, Zenon DEF Init, Ready, Asleep, Moved, Inside
  <2>4. NoTwins
    BY DEF Init, NoTwins, Distinct
  <2>5. Apart
    BY <2>3, Zenon DEF Init, Apart
  <2> QED BY <2>2, <2>4, <2>5, Zenon DEF IInv
<1>2. IInv /\ [Next]_vars => IInv'
  BY TypesStep, HandsStep, ApartStep, Zenon DEF IInv
<1> QED BY <1>1, <1>2, PTL DEF Spec

-----------------------------------------------------------------------------
(* One place *)

\* How often a coroutine is queued, from the sets it is in.
LEMMA QueuedOf ==
    ASSUME IInv, NEW c \in Coros
    PROVE  Queued(c) = (IF c \in Ready THEN 1 ELSE 0) + (IF c \in Asleep THEN 1 ELSE 0)
                       + (IF c \in Moved THEN 1 ELSE 0)
<1>1. Cardinality({k \in 1..Len(readyQueue) : readyQueue[k] = c}) = IF c \in Ready THEN 1 ELSE 0
  BY Occurrences DEF IInv, Types, NoTwins, Ready
<1>2. Cardinality({k \in 1..Len(sleepHeap) : sleepHeap[k] = c}) = IF c \in Asleep THEN 1 ELSE 0
  BY Occurrences DEF IInv, Types, NoTwins, Asleep
<1>3. (entry = c) = (c \in Moved)
  BY SchedulerAssumption DEF Moved
<1> QED BY <1>1, <1>2, <1>3, Zenon DEF Queued

\* Scheduler: whatever the workers, the timer thread and stop() do, and however many
\* there are of each coroutine and worker, a coroutine that is neither running nor
\* finished is in the ready queue, in the sleep heap or in the timer thread's hands,
\* once.
THEOREM SchedulerOnePlace == Spec => []OnePlace
<1>1. IInv => OnePlace
  <2> SUFFICES ASSUME IInv, NEW c \in spawned \ (done \cup late), deletes[c] = 0
               PROVE  Queued(c) = IF \E w \in Workers : current[w] = c /\ wpc[w] = "inside"
                                  THEN 0 ELSE 1
    BY Zenon DEF OnePlace
  <2>1. c \in Coros
    BY Zenon DEF IInv, Types
  <2>2. c \in Ready \cup Asleep \cup Moved \cup Inside
    BY Zenon DEF IInv, Apart
  <2>3. (\E w \in Workers : current[w] = c /\ wpc[w] = "inside") <=> c \in Inside
    <3>1. c \in Inside <=> \E w \in {v \in Workers : wpc[v] = "inside"} : c = current[w]
      BY Zenon DEF Inside
    <3> QED BY <3>1, Zenon
  <2>4. Queued(c) = (IF c \in Ready THEN 1 ELSE 0) + (IF c \in Asleep THEN 1 ELSE 0)
                    + (IF c \in Moved THEN 1 ELSE 0)
    BY <2>1, QueuedOf, Zenon
  <2>5. CASE c \in Inside
    <3>1. c \notin Ready /\ c \notin Asleep /\ c \notin Moved
      BY <2>5, Zenon DEF IInv, Apart
    <3>2. Queued(c) = 0
      BY <2>4, <3>1
    <3> QED BY <2>3, <2>5, <3>2, Zenon
  <2>6. CASE c \notin Inside
    <3>1. \/ c \in Ready /\ c \notin Asleep /\ c \notin Moved
          \/ c \notin Ready /\ c \in Asleep /\ c \notin Moved
          \/ c \notin Ready /\ c \notin Asleep /\ c \in Moved
      BY <2>2, <2>6, Zenon DEF IInv, Apart
    <3>2. Queued(c) = 1
      BY <2>4, <3>1
    <3> QED BY <2>3, <2>6, <3>2, Zenon
  <2> QED BY <2>5, <2>6, Zenon
<1> QED BY <1>1, Invariance, PTL

-----------------------------------------------------------------------------
(* Deleted once *)

\* The coroutines that DeletedOnce is about.
Orderly == Coros \ (shared \cup late)

\* One worker at most has a coroutine, none a deleted one, and a finished one is
\* deleted, or is what a worker has just come back from.
WhoReaps ==
    \A c \in Orderly :
        /\ \A v, w \in Workers : current[v] = c /\ current[w] = c => v = w
        /\ deletes[c] = 0 \/ (deletes[c] = 1 /\ \A w \in Workers : current[w] # c)
        /\ c \in done => deletes[c] = 1 \/ \E w \in Workers : wpc[w] = "back" /\ current[w] = c

LEMMA WhoReapsStep ==
    ASSUME IInv, WhoReaps, [Next]_vars
    PROVE  WhoReaps'
<1> USE SchedulerAssumption
<1>0. /\ deletes \in [Coros -> Nat] /\ done \subseteq Coros /\ readyQueue \in Seq(Coros)
      /\ wpc \in [Workers -> WorkerPcs] /\ current \in [Workers -> Coros \cup {None}]
  BY Zenon DEF IInv, Types
<1>1. ASSUME UNCHANGED <<wpc, current, done, deletes>>, Orderly' \subseteq Orderly PROVE WhoReaps'
  BY <1>1, Zenon DEF WhoReaps
<1>2. CASE UNCHANGED vars
  BY <1>1, <1>2, Zenon DEF vars, coroVars, historyVars, Orderly
<1>3. CASE \E c \in Coros : Spawn(c)
  <2>1. UNCHANGED <<wpc, current, done, deletes, shared>> /\ late \subseteq late'
    BY <1>3, Zenon DEF Spawn
  <2> QED BY <1>1, <2>1, Zenon DEF Orderly
<1>4. ASSUME NEW w \in Workers, WorkerStep(w) PROVE WhoReaps'
  <2>0. ASSUME UNCHANGED <<current, done, deletes, shared, late>>, wpc[w] # "back",
               \A v \in Workers \ {w} : wpc'[v] = wpc[v]
        PROVE  WhoReaps'
    <3>1. Orderly' = Orderly
      BY <2>0, Zenon DEF Orderly
    <3>2. \A v \in Workers : wpc[v] = "back" => wpc'[v] = "back"
      BY <2>0, Zenon
    <3>3. ASSUME NEW c \in Orderly, c \in done
          PROVE  deletes[c] = 1 \/ \E v \in Workers : wpc'[v] = "back" /\ current[v] = c
      BY <3>2, <3>3, Zenon DEF WhoReaps
    <3>4. ASSUME NEW c \in Orderly
          PROVE  /\ \A u, v \in Workers : current[u] = c /\ current[v] = c => u = v
                 /\ deletes[c] = 0 \/ (deletes[c] = 1 /\ \A v \in Workers : current[v] # c)
      BY Zenon DEF WhoReaps
    <3>5. ASSUME NEW c \in Orderly'
          PROVE  /\ \A u, v \in Workers : current'[u] = c /\ current'[v] = c => u = v
                 /\ deletes'[c] = 0 \/ (deletes'[c] = 1 /\ \A v \in Workers : current'[v] # c)
      BY <2>0, <3>1, <3>4, Zenon
    <3>6. ASSUME NEW c \in Orderly', c \in done'
          PROVE  deletes'[c] = 1 \/ \E v \in Workers : wpc'[v] = "back" /\ current'[v] = c
      BY <2>0, <3>1, <3>3, <3>6, Zenon
    <3> QED BY <3>5, <3>6, Zenon DEF WhoReaps
  <2>1. CASE WorkerTop(w) \/ CoSleep(w) \/ NotifySleep(w) \/ Yield(w)
    <3>1. \A v \in Workers \ {w} : wpc'[v] = wpc[v]
      BY <1>0, <2>1, Zenon DEF WorkerTop, CoSleep, NotifySleep, Yield, Goto
    <3> QED BY <2>0, <2>1, <3>1, Zenon
          DEF WorkerTop, CoSleep, NotifySleep, Yield, coroVars, historyVars
  <2>2. CASE WorkerTakes(w)
    <3>0. \A v \in Workers \ {w} : wpc'[v] = wpc[v]
      BY <1>0, <2>2, Zenon DEF WorkerTakes, Goto
    <3>1. CASE readyQueue = <<>>
      BY <2>0, <2>2, <3>0, <3>1, Zenon DEF WorkerTakes, coroVars
    <3>2. CASE readyQueue # <<>>
      <4> DEFINE c == Head(readyQueue)
      <4>1. c \in Coros /\ c \in Ready
        BY <1>0, <3>2, TakeHead, Zenon DEF Ready
      <4>2. ~Reaping
        BY <2>2, Zenon DEF WorkerTakes, IInv, Hands
      <4>3. deletes[c] = 0 /\ c \notin done
        BY <4>1, <4>2, Zenon DEF IInv, Apart
      <4>4. /\ current' = [current EXCEPT ![w] = c] /\ UNCHANGED <<done, deletes, late>>
            /\ wpc[w] = "wait" /\ shared' = shared \cup ({c} \cap Range(current))
        BY <2>2, <3>2, Zenon DEF WorkerTakes, coroVars
      <4>5. \A v \in Workers : current[v] \in Range(current)
        BY <1>0, Zenon DEF Range
      <4> HIDE DEF c
      <4>6. current'[w] = c /\ \A v \in Workers \ {w} : current'[v] = current[v]
        BY <1>0, <4>4, Zenon
      <4>7. ASSUME NEW d \in Orderly'
            PROVE  /\ d \in Orderly
                   /\ d = c => \A v \in Workers : current[v] # c
        BY <4>4, <4>5, Zenon DEF Orderly
      <4>8. ASSUME NEW d \in Orderly'
            PROVE  /\ \A u, v \in Workers : current'[u] = d /\ current'[v] = d => u = v
                   /\ deletes'[d] = 0 \/ (deletes'[d] = 1 /\ \A v \in Workers : current'[v] # d)
                   /\ d \in done' => deletes'[d] = 1
                          \/ \E v \in Workers : wpc'[v] = "back" /\ current'[v] = d
        <5>1. CASE d = c
          <6>1. \A v \in Workers \ {w} : current'[v] # d
            BY <4>6, <4>7, <5>1, Zenon
          <6> QED BY <4>3, <4>4, <5>1, <6>1, Zenon
        <5>2. CASE d # c
          <6>1. d \in Orderly
            BY <4>7, Zenon
          <6>2. /\ \A u, v \in Workers : current[u] = d /\ current[v] = d => u = v
                /\ deletes[d] = 0 \/ (deletes[d] = 1 /\ \A v \in Workers : current[v] # d)
                /\ d \in done => deletes[d] = 1
                       \/ \E v \in Workers : wpc[v] = "back" /\ current[v] = d
            BY <6>1, Zenon DEF WhoReaps
          <6>3. \A v \in Workers : current'[v] = d => current[v] = d
            BY <4>6, <5>2, Zenon
          <6>4. \A v \in Workers : wpc[v] = "back" /\ current[v] = d =>
                                      wpc'[v] = "back" /\ current'[v] = d
            BY <3>0, <4>4, <4>6, Zenon
          <6> QED BY <4>4, <6>2, <6>3, <6>4, ZenonT(30)
        <5> QED BY <5>1, <5>2, Zenon
      <4> QED BY <4>8, Zenon DEF WhoReaps
    <3> QED BY <3>1, <3>2, Zenon
  <2>3. CASE Finish(w)
    <3>1. /\ wpc'[w] = "back" /\ UNCHANGED <<current, deletes>> /\ done' = done \cup {current[w]}
          /\ wpc[w] = "inside" /\ \A v \in Workers \ {w} : wpc'[v] = wpc[v]
      BY <1>0, <2>3, Zenon DEF Finish, Goto
    <3>2. Orderly' = Orderly
      BY <2>3, Zenon DEF Finish, historyVars, Orderly
    <3>3. \A v \in Workers : wpc[v] = "back" => wpc'[v] = "back"
      BY <3>1, Zenon
    <3>4. ASSUME NEW c \in Orderly, c \in done'
          PROVE  deletes[c] = 1 \/ \E v \in Workers : wpc'[v] = "back" /\ current[v] = c
      BY <3>1, <3>3, <3>4, Zenon DEF WhoReaps
    <3>5. ASSUME NEW c \in Orderly
          PROVE  /\ \A u, v \in Workers : current[u] = c /\ current[v] = c => u = v
                 /\ deletes[c] = 0 \/ (deletes[c] = 1 /\ \A v \in Workers : current[v] # c)
      BY Zenon DEF WhoReaps
    <3>6. UNCHANGED <<current, deletes>> /\ \A c \in Orderly' : c \in Orderly
      BY <3>1, <3>2, Zenon
    <3> QED BY <3>4, <3>5, <3>6, Zenon DEF WhoReaps
  <2>4. CASE WorkerBack(w)
    <3> DEFINE c == current[w]
    <3>1. c \in Coros
      BY <1>0, <2>4, Zenon DEF WorkerBack, IInv, Hands
    <3>2. /\ current'[w] = None /\ done' = done
          /\ \A v \in Workers \ {w} : current'[v] = current[v] /\ wpc'[v] = wpc[v]
      BY <1>0, <2>4, Zenon DEF WorkerBack, Goto
    <3>3. Orderly' = Orderly /\ Orderly \subseteq Coros
      BY <2>4, Zenon DEF WorkerBack, historyVars, Orderly
    <3>4. deletes' = [deletes EXCEPT ![c] = IF c \in done THEN @ + 1 ELSE @]
      BY <2>4, Zenon DEF WorkerBack, Reaped
    <3> HIDE DEF c
    <3>6. \A d \in Coros \ {c} : deletes'[d] = deletes[d]
      BY <1>0, <3>4, Zenon
    <3>7. /\ c \in done => deletes'[c] = deletes[c] + 1
          /\ c \notin done => deletes'[c] = deletes[c]
      BY <1>0, <3>1, <3>4, Zenon
    <3>8. ASSUME NEW d \in Orderly
          PROVE  /\ \A u, v \in Workers : current'[u] = d /\ current'[v] = d => u = v
                 /\ deletes'[d] = 0 \/ (deletes'[d] = 1 /\ \A v \in Workers : current'[v] # d)
                 /\ d \in done' => deletes'[d] = 1
                        \/ \E v \in Workers : wpc'[v] = "back" /\ current'[v] = d
      <4>1. d \in Coros
        BY <3>3, Zenon
      <4>2. d # None
        BY <4>1, Zenon
      <4>3. \A v \in Workers : current'[v] = d => v # w /\ current[v] = d
        BY <3>2, <4>2, Zenon
      <4>4. /\ \A u, v \in Workers : current[u] = d /\ current[v] = d => u = v
            /\ deletes[d] = 0 \/ (deletes[d] = 1 /\ \A v \in Workers : current[v] # d)
            /\ d \in done => deletes[d] = 1
                   \/ \E v \in Workers : wpc[v] = "back" /\ current[v] = d
        BY Zenon DEF WhoReaps
      <4>5. CASE d = c
        <5>1. \A v \in Workers : current'[v] # d
          BY <4>3, <4>4, <4>5, Zenon DEF c
        <5>2. deletes[c] = 0
          BY <4>4, <4>5, Zenon DEF c
        <5>3. (c \in done => deletes'[c] = 1) /\ (c \notin done => deletes'[c] = 0)
          BY <3>7, <5>2
        <5> QED BY <3>2, <4>5, <5>1, <5>3, Zenon
      <4>6. CASE d # c
        <5>1. deletes'[d] = deletes[d]
          BY <3>6, <4>1, <4>6, Zenon
        <5>2. \A v \in Workers : wpc[v] = "back" /\ current[v] = d =>
                                    wpc'[v] = "back" /\ current'[v] = d
          BY <3>2, <4>6, Zenon DEF c
        <5> QED BY <3>2, <4>3, <4>4, <5>1, <5>2, ZenonT(30)
      <4> QED BY <4>5, <4>6, Zenon
    <3> QED BY <3>3, <3>8, Zenon DEF WhoReaps
  <2> QED BY <1>4, <2>1, <2>2, <2>3, <2>4, Zenon DEF WorkerStep
<1>5. CASE TimerStep
  <2>1. UNCHANGED <<wpc, current, done, deletes, shared, late>>
    BY <1>5, Zenon DEF TimerStep, TimerIdle, TimerWaits, TimerPops, TimerReadies, coroVars, historyVars
  <2> QED BY <1>1, <2>1, Zenon DEF Orderly
<1>6. CASE StopFlag \/ StopNotifies
  <2>1. UNCHANGED <<wpc, current, done, deletes, shared, late>>
    BY <1>6, Zenon DEF StopFlag, StopNotifies, coroVars, historyVars
  <2> QED BY <1>1, <2>1, Zenon DEF Orderly
<1>7. ASSUME NEW q, DeletedIn(q), UNCHANGED <<wpc, current, done, shared, late>>,
             \A v \in Workers : wpc[v] = "ended",
             \A c \in Range(q) : c \in Coros \ done /\ deletes[c] = 0
      PROVE  WhoReaps'
  <2>1. \A v \in Workers : current[v] = None
    BY <1>7, Zenon DEF IInv, Hands
  <2>2. Orderly' = Orderly /\ Orderly \subseteq Coros
    BY <1>7, Zenon DEF Orderly
  <2>3. \A c \in Coros : deletes'[c] = IF c \in Range(q) THEN 1 ELSE deletes[c]
    BY <1>0, <1>7, SMTT(20) DEF DeletedIn
  <2>4. \A c \in Orderly : deletes[c] \in {0, 1} /\ (c \in done => deletes[c] = 1)
    BY <1>7, Zenon DEF WhoReaps
  <2>5. ASSUME NEW c \in Orderly
        PROVE  /\ deletes'[c] = 0 \/ deletes'[c] = 1
               /\ c \in done => deletes'[c] = 1
               /\ \A v \in Workers : current'[v] # c
    <3>1. c \in Coros /\ c # None
      BY <2>2, Zenon
    <3>4. \A v \in Workers : current'[v] # c
      BY <1>7, <2>1, <3>1, Zenon
    <3>2. CASE c \in Range(q)
      <4>1. deletes'[c] = 1
        BY <2>3, <3>1, <3>2, Zenon
      <4> QED BY <3>4, <4>1, Zenon
    <3>3. CASE c \notin Range(q)
      <4>1. deletes'[c] = deletes[c]
        BY <2>3, <3>1, <3>3, Zenon
      <4>2. (deletes[c] = 0 \/ deletes[c] = 1) /\ (c \in done => deletes[c] = 1)
        BY <2>4, Zenon
      <4> QED BY <3>4, <4>1, <4>2, Zenon
    <3> QED BY <3>2, <3>3, Zenon
  <2> QED BY <1>7, <2>2, <2>5, ZenonT(30) DEF WhoReaps
<1>8. CASE StopReapsReady
  <2>1. ~Reaping
    BY <1>8, Zenon DEF StopReapsReady, Reaping
  <2>2. \A c \in Range(readyQueue) : c \in Coros \ done /\ deletes[c] = 0
    BY <2>1, Zenon DEF IInv, Types, Apart, Ready
  <2> QED BY <1>7, <1>8, <2>2, Zenon DEF StopReapsReady, historyVars
<1>9. CASE StopReapsAsleep
  <2>1. stopPc = "reaping" /\ Reaping
    BY <1>9, Zenon DEF StopReapsAsleep, Reaping
  <2>2. \A c \in Range(sleepHeap) : c \in Coros \ done /\ deletes[c] = 0
    BY <2>1, Zenon DEF IInv, Types, Apart, Asleep
  <2>3. \A v \in Workers : wpc[v] = "ended"
    BY <2>1, Zenon DEF IInv, Hands
  <2> QED BY <1>7, <1>9, <2>2, <2>3, Zenon DEF StopReapsAsleep, historyVars
<1> QED BY <1>2, <1>3, <1>4, <1>5, <1>6, <1>8, <1>9, ZenonT(30) DEF Next, StopStep

\* workerLoop and stop(): however many workers there are, every coroutine is deleted
\* once, when no queue and no thread refers to it, and stop() leaves none behind, but
\* for one that a worker took while another still had it, which the code lets happen,
\* and one that was spawned while stop() reaped.
THEOREM SchedulerDeletedOnce == Spec => []DeletedOnce
<1>1. Init => WhoReaps
  BY SchedulerAssumption, Zenon DEF Init, WhoReaps, Orderly
<1>2. IInv /\ WhoReaps /\ [Next]_vars => WhoReaps'
  BY WhoReapsStep, Zenon
<1>3. IInv /\ WhoReaps => DeletedOnce
  <2> SUFFICES ASSUME IInv, WhoReaps, NEW c \in Orderly
               PROVE  /\ deletes[c] <= 1
                      /\ deletes[c] = 1 => \A w \in Workers : current[w] # c
                      /\ deletes[c] = 1 /\ stopPc # "reaping" => Queued(c) = 0
                      /\ stopPc = "done" /\ c \in spawned => deletes[c] = 1
    BY Zenon DEF DeletedOnce, Orderly
  <2>0. c \in Coros /\ c \notin late
    BY Zenon DEF Orderly
  <2>1. deletes[c] \in {0, 1} /\ (deletes[c] = 1 => \A w \in Workers : current[w] # c)
    BY SMTT(20) DEF WhoReaps
  <2>2. ASSUME deletes[c] = 1, stopPc # "reaping" PROVE Queued(c) = 0
    <3>1. c \notin Ready /\ c \notin Asleep /\ c \notin Moved
      <4>1. CASE stopPc = "done"
        <5>1. Moved = {}
          BY <4>1, Zenon DEF IInv, Hands, Moved, Reaping
        <5>2. Range(<<>>) = {}
          BY EmptySeq, RangeOf, Zenon
        <5>3. Asleep = {}
          BY <4>1, <5>2, Zenon DEF IInv, Hands, Asleep
        <5>4. c \notin Ready
          BY <2>0, <4>1, Zenon DEF IInv, Apart
        <5> QED BY <5>1, <5>3, <5>4, Zenon
      <4>2. CASE stopPc # "done"
        <5>1. ~Reaping
          BY <2>2, <4>2, Zenon DEF Reaping
        <5>2. c \in done
          BY <2>0, <2>2, <5>1, SMTT(20) DEF IInv, Apart
        <5> QED BY <5>2, Zenon DEF IInv, Apart
      <4> QED BY <4>1, <4>2, Zenon
    <3> QED BY <2>0, <3>1, QueuedOf, SMTT(20)
  <2>3. ASSUME stopPc = "done", c \in spawned PROVE deletes[c] = 1
    <3>1. CASE c \in done
      <4>1. \A w \in Workers : wpc[w] # "back"
        BY <2>3, Zenon DEF IInv, Hands, Reaping
      <4> QED BY <3>1, <4>1, Zenon DEF WhoReaps
    <3>2. CASE c \notin done
      BY <2>0, <2>1, <2>3, <3>2, Zenon DEF IInv, Apart
    <3> QED BY <3>1, <3>2, Zenon
  <2> QED BY <2>1, <2>2, <2>3
<1> QED BY <1>1, <1>2, <1>3, Invariance, PTL DEF Spec
==============================================================================
