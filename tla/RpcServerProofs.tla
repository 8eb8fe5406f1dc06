--------------------------- MODULE RpcServerProofs ---------------------------
(***************************************************************************)
(* Proofs about RpcServer: its types, that its counters are exact, that    *)
(* the limit holds, that a graceful stop drains and closes before it joins *)
(* a loop, and that a message is answered once.                            *)
(***************************************************************************)
EXTENDS RpcServer, FiniteSetTheorems, TLAPS

\* std::size_t arithmetic stays in range, and is exact below the width.
LEMMA SizeFacts ==
    /\ Cardinality(Requests) \in Nat /\ SizeT \in Nat /\ SizeT > 0
    /\ \A n \in Int : n % SizeT \in 0..SizeT - 1
    /\ \A n \in 0..SizeT - 1 : n % SizeT = n
<1>1. Cardinality(Requests) \in Nat
  BY ServerAssumption, FS_CardinalityType, Zenon
<1>2. SizeT \in Nat /\ SizeT > 0
  BY <1>1, ServerAssumption
<1>3. \A n \in Int : n % SizeT \in 0..SizeT - 1
  BY <1>2
<1>4. \A n \in 0..SizeT - 1 : n % SizeT = n
  BY <1>2
<1> QED BY <1>1, <1>2, <1>3, <1>4, Zenon

\* Queueing a functor keeps the queues typed.
LEMMA PostTyped ==
    ASSUME TypeOK, NEW C, NEW f \in Functor, Post(C, f)
    PROVE  loopQ' \in [Conns -> Seq(Functor)]
  BY DEF TypeOK, Post

LEMMA FunctorFacts ==
    /\ \A r \in Requests : Send(r) \in Functor
    /\ Task("established") \in Functor /\ Task("close") \in Functor /\ Task("quit") \in Functor
  BY Zenon DEF Send, Task, Functor

\* A send functor is the answer to one request.
LEMMA SendFunctors ==
    /\ \A f \in Functor : f.op = "send" => f.req \in Requests /\ f = Send(f.req)
    /\ \A r : Send(r).op = "send" /\ Send(r).req = r
<1>1. \A r : Send(r).op = "send" /\ Send(r).req = r
  BY Zenon DEF Send
<1>2. ASSUME NEW f \in Functor, f.op = "send" PROVE f.req \in Requests /\ f = Send(f.req)
  <2>1. CASE f \in [op : {"established", "close", "quit"}]
    BY <1>2, <2>1, SMTT(20)
  <2>2. CASE f \in [op : {"send"}, req : Requests]
    BY <2>2, SMTT(20) DEF Send
  <2> QED BY <2>1, <2>2, Zenon DEF Functor
<1> QED BY <1>1, <1>2, Zenon

\* What sendInLoop may do to the answers.
LEMMA SendOutcome ==
    ASSUME TypeOK, NEW c, NEW q \in Requests, SendInLoop(c, q)
    PROVE  /\ answers' \in [Requests -> Nat] /\ unsent' \subseteq Requests
           /\ \A r : r \in unsent => r \in unsent'
           /\ \A r \in Requests : r # q => answers'[r] = answers[r]
           /\ \/ answers'[q] = answers[q] + 1
              \/ answers'[q] = answers[q] /\ (connState[c] = "Disconnected" \/ q \in unsent')
<1>1. answers \in [Requests -> Nat] /\ unsent \subseteq Requests
  BY Zenon DEF TypeOK
<1>2. CASE connState[c] = "Disconnected" /\ UNCHANGED <<answers, unsent>>
  BY <1>1, <1>2, Zenon
<1>3. CASE answers' = [answers EXCEPT ![q] = @ + 1] /\ UNCHANGED unsent
  <2>1. /\ answers' \in [Requests -> Nat] /\ answers'[q] = answers[q] + 1
        /\ \A r \in Requests : r # q => answers'[r] = answers[r]
    BY <1>1, <1>3, SMTT(20)
  <2> QED BY <1>1, <1>3, <2>1, Zenon
<1>4. CASE unsent' = unsent \cup {q} /\ UNCHANGED answers
  BY <1>1, <1>4, Zenon
<1> QED BY <1>2, <1>3, <1>4, Zenon DEF SendInLoop

\* The oldest functor runs: what becomes of the answers.
LEMMA RunOutcome ==
    ASSUME TypeOK, NEW c \in Conns, RunFunctor(c)
    PROVE  /\ answers' \in [Requests -> Nat] /\ unsent' \subseteq Requests
           /\ \A r : r \in unsent => r \in unsent'
           /\ \A r \in Requests : Head(loopQ[c]) # Send(r) => answers'[r] = answers[r]
           /\ \A r \in Requests : Head(loopQ[c]) = Send(r) =>
                 \/ answers'[r] = answers[r] + 1
                 \/ answers'[r] = answers[r] /\ (connState[c] = "Disconnected" \/ r \in unsent')
<1>1. PICK f : f = Head(loopQ[c])
  BY Zenon
<1>2. f \in Functor
  <2>1. loopQ[c] \in Seq(Functor) /\ loopQ[c] # <<>>
    BY Zenon DEF TypeOK, RunFunctor
  <2> QED BY <1>1, <2>1, SMTT(20)
<1>3. answers \in [Requests -> Nat] /\ unsent \subseteq Requests
  BY Zenon DEF TypeOK
<1>4. CASE f.op = "send"
  <2>1. SendInLoop(c, f.req) /\ f.req \in Requests /\ f = Send(f.req)
    BY <1>1, <1>2, <1>4, SendFunctors, Zenon DEF RunFunctor
  <2>2. PICK q \in Requests : q = f.req
    BY <2>1, Zenon
  <2>3. \A r \in Requests : f = Send(r) <=> r = q
    BY <2>1, <2>2, SendFunctors, Zenon
  <2>4. SendInLoop(c, q)
    BY <2>1, <2>2, Zenon
  <2> QED BY <1>1, <2>3, <2>4, SendOutcome, ZenonT(30)
<1>5. CASE f.op # "send"
  <2>1. UNCHANGED <<answers, unsent>>
    BY <1>1, <1>5, Zenon DEF RunFunctor
  <2>2. \A r \in Requests : f # Send(r)
    BY <1>5, SendFunctors, Zenon
  <2> QED BY <1>1, <1>3, <2>1, <2>2, Zenon
<1> QED BY <1>4, <1>5, Zenon

LEMMA InFlightType == InFlight \subseteq Requests
  BY Zenon DEF InFlight

\* The loops' steps keep the types.
LEMMA LoopTypes ==
    ASSUME TypeOK, NEW c \in Conns, NewConnection(c) \/ Loop(c) \/ HandleClose(c) \/ Hangup(c)
    PROVE  TypeOK'
<1>1. CASE NewConnection(c)
  <2>1. loopQ' \in [Conns -> Seq(Functor)]
    BY <1>1, PostTyped, FunctorFacts, Zenon DEF NewConnection
  <2> QED BY <1>1, <2>1, Zenon DEF TypeOK, NewConnection, limitVars, requestVars, stopVars, sentVars
<1>2. CASE RunFunctor(c)
  <2>1. loopQ' \in [Conns -> Seq(Functor)]
    BY <1>2 DEF TypeOK, RunFunctor
  <2>2. /\ connState' \in [Conns -> {"none", "Connecting", "Connected", "Disconnected"}]
        /\ loopState' \in [Conns -> {"running", "hangup", "quitting", "ended"}]
    BY <1>2, Zenon DEF TypeOK, RunFunctor, Turned
  <2>3. answers' \in [Requests -> Nat] /\ unsent' \subseteq Requests
    BY <1>2, RunOutcome, Zenon
  <2> QED BY <1>2, <2>1, <2>2, <2>3, Zenon
          DEF TypeOK, RunFunctor, limitVars, requestVars, stopVars
<1>3. CASE LoopEnds(c) \/ HangupEnds(c)
  BY <1>3, Zenon DEF TypeOK, LoopEnds, HangupEnds, limitVars, requestVars, stopVars, sentVars
<1>4. CASE HandleClose(c)
  BY <1>4, Zenon DEF TypeOK, HandleClose, limitVars, requestVars, stopVars, sentVars
<1>5. CASE Hangup(c)
  BY <1>5, Zenon DEF TypeOK, Hangup, limitVars, requestVars, stopVars, sentVars
<1> QED BY <1>1, <1>2, <1>3, <1>4, <1>5, Zenon DEF Loop

\* The steps of a message keep the types.
LEMMA RequestTypes ==
    ASSUME TypeOK, NEW r \in Requests, OnMessage(r) \/ Executor(r)
    PROVE  TypeOK'
<1> USE DEF GoTo
<1>1. CASE OnMessage(r)
  <2>1. PICK k \in Kinds : kind' = [kind EXCEPT ![r] = k]
    BY <1>1, Zenon DEF OnMessage
  <2>2. answers' \in [Requests -> Nat] /\ unsent' \subseteq Requests
    <3>1. SendInLoop(conn[r], r) \/ UNCHANGED <<answers, unsent>>
      BY <1>1, Zenon DEF OnMessage
    <3> QED BY <3>1, SendOutcome, Zenon DEF TypeOK
  <2>3. PICK l \in {"done", "queued"} : pc' = [pc EXCEPT ![r] = l]
    BY <1>1, Zenon DEF OnMessage
  <2> QED BY <1>1, <2>1, <2>2, <2>3, Zenon
          DEF OnMessage, TypeOK, limitVars, loopVars, stopVars
<1>2. CASE HandleRequest(r)
  BY <1>2, Zenon DEF HandleRequest, AfterHandling, TypeOK, limitVars, loopVars, stopVars, sentVars
<1>3. CASE TryAcquire(r)
  <2>1. current' \in 0..SizeT - 1
    BY <1>3, SizeFacts DEF TryAcquire, HasRoom, TypeOK
  <2>2. PICK l \in {"count", "reply", "done"} : pc' = [pc EXCEPT ![r] = l]
    BY <1>3, Zenon DEF TryAcquire, AfterHandling
  <2> QED BY <1>3, <2>1, <2>2 DEF TryAcquire, TypeOK, Holding, loopVars, stopVars, sentVars
<1>4. CASE Count(r)
  <2>1. inflight' \in 0..SizeT - 1
    BY <1>4, SizeFacts DEF Count, TypeOK
  <2>2. PICK l \in {"handling", "release"} : pc' = [pc EXCEPT ![r] = l]
    BY <1>4, Zenon DEF Count
  <2> QED BY <1>4, <2>1, <2>2, Zenon DEF Count, TypeOK, Holding, loopVars, stopVars, sentVars
<1>5. CASE HandlerDone(r)
  BY <1>5, Zenon DEF HandlerDone, TypeOK, Holding, limitVars, loopVars, stopVars, sentVars
<1>6. CASE ReleaseLimiter(r)
  <2>1. current' \in 0..SizeT - 1
    BY <1>6, SizeFacts DEF ReleaseLimiter, Released, TypeOK
  <2> QED BY <1>6, <2>1, Zenon DEF ReleaseLimiter, TypeOK, Counted, loopVars, stopVars, sentVars
<1>7. CASE Uncount(r)
  <2>1. inflight' \in 0..SizeT - 1
    BY <1>7, SizeFacts DEF Uncount, TypeOK
  <2> QED BY <1>7, <2>1, Zenon DEF Uncount, AfterHandling, TypeOK, loopVars, stopVars, sentVars
<1>8. CASE SendChecks(r)
  BY <1>8, Zenon DEF SendChecks, TypeOK, limitVars, loopVars, stopVars, sentVars
<1>9. CASE SendPushes(r)
  <2>1. loopQ' \in [Conns -> Seq(Functor)]
    BY <1>9, PostTyped, FunctorFacts, Zenon DEF SendPushes
  <2> QED BY <1>9, <2>1, Zenon DEF SendPushes, TypeOK, limitVars, stopVars, sentVars
<1> QED BY <1>1, <1>2, <1>3, <1>4, <1>5, <1>6, <1>7, <1>8, <1>9, Zenon DEF Executor

\* The steps of a stop keep the types.
LEMMA StopTypes ==
    ASSUME TypeOK, NEW s \in Stoppers, StopGracefully(s) \/ StopThread(s) \/ StopInLoop(s)
    PROVE  TypeOK'
<1> USE DEF StopTo
<1>1. CASE StopGracefully(s)
  BY <1>1, InFlightType, Zenon DEF StopGracefully, TypeOK, limitVars, requestVars, loopVars, sentVars
<1>2. CASE WaitEnds(s)
  BY <1>2, Zenon DEF WaitEnds, TypeOK, limitVars, requestVars, loopVars, sentVars
<1>3. CASE TcpStop(s)
  BY <1>3, Zenon DEF TcpStop, TypeOK, limitVars, requestVars, loopVars, sentVars
<1>4. CASE QuitLoops(s)
  <2>1. loopQ' \in [Conns -> Seq(Functor)]
    BY <1>4, PostTyped, FunctorFacts, Zenon DEF QuitLoops
  <2> QED BY <1>4, <2>1, Zenon DEF QuitLoops, TypeOK, limitVars, requestVars, sentVars
<1>5. CASE JoinLoops(s)
  BY <1>5, Zenon DEF JoinLoops, TypeOK, limitVars, requestVars, loopVars, sentVars
<1>6. CASE OnDone(s)
  BY <1>6, Zenon DEF OnDone, TypeOK, limitVars, requestVars, loopVars, sentVars
<1>7. CASE StopInLoop(s)
  <2>1. loopQ' \in [Conns -> Seq(Functor)]
    BY <1>7, PostTyped, FunctorFacts, Zenon DEF StopInLoop
  <2> QED BY <1>7, <2>1, Zenon DEF StopInLoop, TypeOK, limitVars, requestVars, sentVars
<1> QED BY <1>1, <1>2, <1>3, <1>4, <1>5, <1>6, <1>7, Zenon DEF StopThread

LEMMA TypeStep == TypeOK /\ [Next]_vars => TypeOK'
<1> SUFFICES ASSUME TypeOK, [Next]_vars PROVE TypeOK'
  BY Zenon
<1>1. CASE MainLoopEnds
  BY <1>1, Zenon DEF MainLoopEnds, TypeOK, limitVars, requestVars, loopVars, sentVars
<1>2. CASE UNCHANGED vars
  BY <1>2, Zenon DEF TypeOK, vars, limitVars, requestVars, loopVars, stopVars, sentVars
<1> QED BY <1>1, <1>2, LoopTypes, RequestTypes, StopTypes, Zenon DEF Next

-----------------------------------------------------------------------------
(* The counters *)

\* A set of requests is finite and can be counted in a std::size_t.
LEMMA Countable ==
    ASSUME NEW S \in SUBSET Requests
    PROVE  IsFiniteSet(S) /\ Cardinality(S) \in 0..SizeT - 1
<1>1. IsFiniteSet(Requests) /\ Cardinality(Requests) < SizeT
  BY ServerAssumption, Zenon
<1>2. IsFiniteSet(S) /\ Cardinality(S) <= Cardinality(Requests)
  BY <1>1, FS_Subset, Zenon
<1>3. Cardinality(S) \in Nat
  BY <1>2, FS_CardinalityType, Zenon
<1> QED BY <1>1, <1>2, <1>3, SizeFacts

LEMMA Cards ==
    /\ IsFiniteSet(Holders) /\ IsFiniteSet(InFlight)
    /\ Cardinality(Holders) \in 0..SizeT - 1 /\ Cardinality(Holders') \in 0..SizeT - 1
    /\ Cardinality(InFlight) \in 0..SizeT - 1 /\ Cardinality(InFlight') \in 0..SizeT - 1
<1>1. /\ Holders \in SUBSET Requests /\ Holders' \in SUBSET Requests
      /\ InFlight \in SUBSET Requests /\ InFlight' \in SUBSET Requests
  BY Zenon DEF Holders, InFlight
<1> QED BY <1>1, Countable, Zenon

\* When a message moves from one label to another, the two sets gain or lose at
\* most that message.
LEMMA Moved ==
    ASSUME TypeOK, NEW r \in Requests, NEW l, pc' = [pc EXCEPT ![r] = l]
    PROVE  /\ (l \in Holding <=> pc[r] \in Holding) =>
                Cardinality(Holders') = Cardinality(Holders)
           /\ (l \in Holding /\ pc[r] \notin Holding) =>
                Cardinality(Holders') = Cardinality(Holders) + 1
           /\ (l \notin Holding /\ pc[r] \in Holding) =>
                Cardinality(Holders') = Cardinality(Holders) - 1
           /\ (l \in Counted <=> pc[r] \in Counted) =>
                Cardinality(InFlight') = Cardinality(InFlight)
           /\ (l \in Counted /\ pc[r] \notin Counted) =>
                Cardinality(InFlight') = Cardinality(InFlight) + 1
           /\ (l \notin Counted /\ pc[r] \in Counted) =>
                Cardinality(InFlight') = Cardinality(InFlight) - 1
<1>1. /\ Holders' = IF l \in Holding THEN Holders \cup {r} ELSE Holders \ {r}
      /\ InFlight' = IF l \in Counted THEN InFlight \cup {r} ELSE InFlight \ {r}
      /\ r \in Holders <=> pc[r] \in Holding
      /\ r \in InFlight <=> pc[r] \in Counted
  BY Zenon DEF TypeOK, Holders, InFlight
<1>2. /\ Cardinality(Holders \cup {r}) =
            IF r \in Holders THEN Cardinality(Holders) ELSE Cardinality(Holders) + 1
      /\ Cardinality(Holders \ {r}) =
            IF r \in Holders THEN Cardinality(Holders) - 1 ELSE Cardinality(Holders)
  BY Cards, FS_AddElement, FS_RemoveElement, Zenon
<1>3. /\ Cardinality(InFlight \cup {r}) =
            IF r \in InFlight THEN Cardinality(InFlight) ELSE Cardinality(InFlight) + 1
      /\ Cardinality(InFlight \ {r}) =
            IF r \in InFlight THEN Cardinality(InFlight) - 1 ELSE Cardinality(InFlight)
  BY Cards, FS_AddElement, FS_RemoveElement, Zenon
<1> QED BY <1>1, <1>2, <1>3, Zenon

\* The inductive invariant: the counters are exact, and the limiter's never passes
\* the limit.
SlotInv ==
    /\ TypeOK
    /\ SlotsExact
    /\ limiter \notin {NoLimiter, 0} => current <= limiter

\* A step that moves a message between labels that hold no slot and are not
\* counted, or leaves it holding and counted, changes nothing.
LEMMA SlotsUnmoved ==
    ASSUME SlotInv, TypeOK', UNCHANGED limitVars, NEW r \in Requests, NEW l,
           pc' = [pc EXCEPT ![r] = l],
           l \in Holding <=> pc[r] \in Holding,
           l \in Counted <=> pc[r] \in Counted
    PROVE  SlotInv'
<1>1. Cardinality(Holders') = Cardinality(Holders)
  BY Moved, Cards, Zenon DEF SlotInv
<1>2. Cardinality(InFlight') = Cardinality(InFlight)
  BY Moved, Cards, Zenon DEF SlotInv
<1> QED BY <1>1, <1>2, Zenon DEF SlotInv, SlotsExact, limitVars

LEMMA SlotsOfRequests ==
    ASSUME SlotInv, TypeOK', NEW r \in Requests, OnMessage(r) \/ Executor(r)
    PROVE  SlotInv'
<1> USE DEF GoTo
<1>t. TypeOK
  BY Zenon DEF SlotInv
<1>1. CASE OnMessage(r)
  <2>1. PICK l \in {"done", "queued"} : pc' = [pc EXCEPT ![r] = l]
    BY <1>1, Zenon DEF OnMessage
  <2> QED BY <1>1, <2>1, SlotsUnmoved, Zenon DEF OnMessage, Holding, Counted
<1>2. CASE HandleRequest(r)
  <2>1. PICK l \in {"done", "reply", "admit"} : pc' = [pc EXCEPT ![r] = l]
    BY <1>2, Zenon DEF HandleRequest, AfterHandling
  <2> QED BY <1>2, <2>1, SlotsUnmoved, Zenon DEF HandleRequest, Holding, Counted
<1>3. CASE TryAcquire(r)
  <2>1. PICK l \in {"count", "done", "reply"} : pc' = [pc EXCEPT ![r] = l]
    BY <1>3, Zenon DEF TryAcquire, AfterHandling
  <2>2. /\ Cardinality(InFlight') = Cardinality(InFlight)
        /\ inflight' = inflight /\ limiter' = limiter
    BY <1>3, <1>t, <2>1, Moved, Cards, Zenon DEF TryAcquire, Counted
  <2>3. CASE current' = current /\ (limiter \in {NoLimiter, 0} \/ l # "count")
    <3>1. l # "count" => Cardinality(Holders') = Cardinality(Holders)
      BY <1>3, <1>t, <2>1, Moved, Cards, Zenon DEF TryAcquire, Holding
    <3> QED BY <2>2, <2>3, <3>1, Zenon DEF SlotInv, SlotsExact
  <2>4. CASE /\ limiter \notin {NoLimiter, 0} /\ current < limiter
             /\ current' = (current + 1) % SizeT /\ l = "count"
    <3>1. Cardinality(Holders') = Cardinality(Holders) + 1
      BY <1>3, <1>t, <2>1, <2>4, Moved, Cards, Zenon DEF TryAcquire, Holding
    <3>2. current = Cardinality(Holders)
      BY <2>4, Zenon DEF SlotInv, SlotsExact
    <3>3. current + 1 \in 0..SizeT - 1
      BY <3>1, <3>2, Cards, Zenon
    <3>4. current' = current + 1
      BY <2>4, <3>3, SizeFacts, Zenon
    <3>5. limiter \in Nat
      BY <1>t, <2>4, ServerAssumption, Zenon DEF TypeOK
    <3>6. current' <= limiter
      BY <2>4, <3>4, <3>5, <1>t, SMTT(20) DEF TypeOK
    <3> QED BY <2>2, <3>1, <3>2, <3>4, <3>6, Zenon DEF SlotInv, SlotsExact
  <2>5. \/ current' = current /\ (limiter \in {NoLimiter, 0} \/ l # "count")
        \/ /\ limiter \notin {NoLimiter, 0} /\ current < limiter
           /\ current' = (current + 1) % SizeT /\ l = "count"
    BY <1>3, <1>t, <2>1 DEF TryAcquire, HasRoom, AfterHandling, TypeOK
  <2> QED BY <2>3, <2>4, <2>5, Zenon
<1>4. CASE Count(r)
  <2>1. PICK l \in {"handling", "release"} : pc' = [pc EXCEPT ![r] = l]
    BY <1>4, Zenon DEF Count
  <2>2. /\ Cardinality(Holders') = Cardinality(Holders)
        /\ Cardinality(InFlight') = Cardinality(InFlight) + 1
    BY <1>4, <1>t, <2>1, Moved, Cards, Zenon DEF Count, Holding, Counted
  <2>3. inflight' = inflight + 1
    BY <1>4, <2>2, Cards, SizeFacts, Zenon DEF Count, SlotInv, SlotsExact
  <2> QED BY <1>4, <2>2, <2>3, Zenon DEF Count, SlotInv, SlotsExact
<1>5. CASE HandlerDone(r)
  <2>1. pc' = [pc EXCEPT ![r] = "release"]
    BY <1>5, Zenon DEF HandlerDone
  <2> QED BY <1>5, <2>1, SlotsUnmoved, Zenon DEF HandlerDone, Holding, Counted
<1>6. CASE ReleaseLimiter(r)
  <2>1. pc' = [pc EXCEPT ![r] = "uncount"] /\ limiter' = limiter /\ inflight' = inflight
    BY <1>6, Zenon DEF ReleaseLimiter
  <2>2. /\ Cardinality(Holders') = Cardinality(Holders) - 1
        /\ Cardinality(InFlight') = Cardinality(InFlight)
    BY <1>6, <1>t, <2>1, Moved, Cards, Zenon DEF ReleaseLimiter, Holding, Counted
  <2>3. ASSUME limiter \notin {NoLimiter, 0}
        PROVE  current' = Cardinality(Holders') /\ current' <= limiter
    <3>1. current = Cardinality(Holders) /\ current <= limiter
      BY <2>3, Zenon DEF SlotInv, SlotsExact
    <3>2. current' = (current - 1) % SizeT
      BY <1>6, <2>3, Zenon DEF ReleaseLimiter, Released
    <3>3. current' = current - 1
      BY <2>2, <3>1, <3>2, Cards, SizeFacts, Zenon
    <3>4. limiter \in Nat
      BY <1>t, <2>3, ServerAssumption, Zenon DEF TypeOK
    <3> QED BY <2>2, <3>1, <3>3, <3>4, Cards
  <2> QED BY <2>1, <2>2, <2>3, Zenon DEF SlotInv, SlotsExact
<1>7. CASE Uncount(r)
  <2>1. PICK l \in {"done", "reply"} : pc' = [pc EXCEPT ![r] = l]
    BY <1>7, Zenon DEF Uncount, AfterHandling
  <2>2. /\ Cardinality(Holders') = Cardinality(Holders)
        /\ Cardinality(InFlight') = Cardinality(InFlight) - 1
    BY <1>7, <1>t, <2>1, Moved, Cards, Zenon DEF Uncount, Holding, Counted
  <2>3. inflight' = inflight - 1
    BY <1>7, <2>2, Cards, SizeFacts, Zenon DEF Uncount, SlotInv, SlotsExact
  <2> QED BY <1>7, <2>2, <2>3, Zenon DEF Uncount, SlotInv, SlotsExact
<1>8. CASE SendChecks(r)
  <2>1. PICK l \in {"done", "push"} : pc' = [pc EXCEPT ![r] = l]
    BY <1>8, Zenon DEF SendChecks
  <2> QED BY <1>8, <2>1, SlotsUnmoved, Zenon DEF SendChecks, Holding, Counted
<1>9. CASE SendPushes(r)
  <2>1. pc' = [pc EXCEPT ![r] = "done"]
    BY <1>9, Zenon DEF SendPushes
  <2> QED BY <1>9, <2>1, SlotsUnmoved, Zenon DEF SendPushes, Holding, Counted
<1> QED BY <1>1, <1>2, <1>3, <1>4, <1>5, <1>6, <1>7, <1>8, <1>9, Zenon DEF Executor

\* The other steps touch neither a message's label nor a counter.
LEMMA OthersKeepSlots ==
    ASSUME [Next]_vars, ~ \E r \in Requests : OnMessage(r) \/ Executor(r)
    PROVE  UNCHANGED <<limitVars, requestVars>>
<1>1. ASSUME NEW c \in Conns, NewConnection(c) \/ Loop(c) \/ HandleClose(c) \/ Hangup(c)
      PROVE  UNCHANGED <<limitVars, requestVars>>
  BY <1>1, Zenon DEF NewConnection, Loop, RunFunctor, LoopEnds, HangupEnds, HandleClose, Hangup
<1>2. ASSUME NEW s \in Stoppers, StopGracefully(s) \/ StopThread(s) \/ StopInLoop(s)
      PROVE  UNCHANGED <<limitVars, requestVars>>
  BY <1>2, Zenon DEF StopGracefully, StopThread, WaitEnds, TcpStop, QuitLoops, JoinLoops,
              OnDone, StopInLoop
<1>3. CASE MainLoopEnds
  BY <1>3, Zenon DEF MainLoopEnds
<1>4. CASE UNCHANGED vars
  BY <1>4, Zenon DEF vars
<1> QED BY <1>1, <1>2, <1>3, <1>4, Zenon DEF Next

LEMMA SlotStep == SlotInv /\ [Next]_vars => SlotInv'
<1> SUFFICES ASSUME SlotInv, [Next]_vars PROVE SlotInv'
  BY Zenon
<1>1. TypeOK'
  BY TypeStep, Zenon DEF SlotInv
<1>2. CASE \E r \in Requests : OnMessage(r) \/ Executor(r)
  BY <1>1, <1>2, SlotsOfRequests, Zenon
<1>3. CASE ~ \E r \in Requests : OnMessage(r) \/ Executor(r)
  <2>1. UNCHANGED <<limiter, current, inflight, pc>>
    BY <1>3, OthersKeepSlots, Zenon DEF limitVars, requestVars
  <2>2. Holders' = Holders /\ InFlight' = InFlight
    BY <2>1, Zenon DEF Holders, InFlight
  <2> QED BY <1>1, <2>1, <2>2, Zenon DEF SlotInv, SlotsExact
<1> QED BY <1>2, <1>3, Zenon

LEMMA SlotInit == Init => SlotInv
<1> SUFFICES ASSUME Init PROVE SlotInv
  BY Zenon
<1>1. TypeOK
  <2>1. current \in 0..SizeT - 1 /\ inflight \in 0..SizeT - 1
    BY SizeFacts DEF Init
  <2>2. loopQ \in [Conns -> Seq(Functor)]
    BY DEF Init
  <2>3. /\ kind \in [Requests -> Kinds \cup {"none"}]
        /\ conn \in [Requests -> Conns]
        /\ answers \in [Requests -> Nat]
    BY Zenon DEF Init
  <2> QED BY <2>1, <2>2, <2>3, Zenon DEF Init, TypeOK
<1>2. Holders = {} /\ InFlight = {}
  BY Zenon DEF Init, Holders, InFlight, Holding, Counted
<1>3. SlotsExact
  BY <1>2, FS_EmptySet, Zenon DEF Init, SlotsExact
<1>4. limiter \notin {NoLimiter, 0} => current <= limiter
  BY ServerAssumption DEF Init
<1> QED BY <1>1, <1>3, <1>4, Zenon DEF SlotInv

\* Every variable of the server keeps its type; the counters stay in range because
\* their arithmetic is that of std::size_t.
THEOREM ServerTypes == Spec => []TypeOK
<1>1. Init => TypeOK
  BY SlotInit, Zenon DEF SlotInv
<1> QED BY <1>1, TypeStep, PTL DEF Spec

\* For any number of requests, threads and stop calls, and any limit: inflight_ and
\* current_ count exactly the requests in flight and the slots held, so neither
\* ever wraps under a limit.
THEOREM SlotsStayExact == Spec => []SlotsExact
<1>1. SlotInv => SlotsExact
  BY Zenon DEF SlotInv
<1> QED BY <1>1, SlotInit, SlotStep, PTL DEF Spec

\* For any limit, the handlers running at once never exceed it.
THEOREM HandlersStayBounded == Spec => []HandlersBounded
<1>1. SlotInv => HandlersBounded
  <2> SUFFICES ASSUME SlotInv, limiter \notin {NoLimiter, 0}
               PROVE  Cardinality({r \in Requests : pc[r] = "handling"}) <= limiter
    BY Zenon DEF HandlersBounded
  <2> DEFINE Running == {r \in Requests : pc[r] = "handling"}
  <2>1. Running \subseteq Holders
    BY Zenon DEF Holders, Holding
  <2>2. Cardinality(Running) <= Cardinality(Holders)
    BY <2>1, Cards, FS_Subset, Zenon
  <2>3. Cardinality(Running) \in Nat
    BY <2>1, Cards, FS_Subset, FS_CardinalityType, Zenon
  <2>4. Cardinality(Holders) = current /\ current <= limiter /\ limiter \in Nat
    BY ServerAssumption, Zenon DEF SlotInv, SlotsExact, TypeOK
  <2> HIDE DEF Running
  <2>5. Cardinality(Running) <= limiter
    BY <2>2, <2>3, <2>4, Cards, SMTT(20)
  <2> QED BY <2>5, Zenon DEF Running
<1> QED BY <1>1, SlotInit, SlotStep, PTL DEF Spec

-----------------------------------------------------------------------------
(* The graceful stop *)

\* Before it is counted, a message is at one of these labels.
Uncounted == {"new", "queued", "admit", "count"}

\* The inductive invariant: stop threads exist only once stopping_ is set, and the
\* requests that were in flight then have been counted, so that they are not
\* counted again.
DrainInv ==
    /\ stopping \/ \A s \in Stoppers : stopPc[s] = "new"
    /\ \A r \in began : pc[r] \notin Uncounted
    /\ DrainedBeforeClose

LEMMA DrainOfRequests ==
    ASSUME SlotInv, DrainInv, NEW r \in Requests, OnMessage(r) \/ Executor(r)
    PROVE  DrainInv'
<1>1. UNCHANGED stopVars
  BY Zenon DEF OnMessage, Executor, HandleRequest, TryAcquire, Count, HandlerDone,
         ReleaseLimiter, Uncount, SendChecks, SendPushes
<1>2. PICK l : /\ pc' = [pc EXCEPT ![r] = l]
               /\ l \in Uncounted => pc[r] \in Uncounted
               /\ l \in Counted => pc[r] \in Uncounted \cup Counted
  BY Zenon DEF OnMessage, Executor, HandleRequest, TryAcquire, Count, HandlerDone,
         ReleaseLimiter, Uncount, SendChecks, SendPushes, GoTo, AfterHandling,
         Uncounted, Counted
<1>3. pc \in [Requests -> {"new", "queued", "admit", "reply", "push", "done"}
                               \cup Holding \cup Counted]
      /\ began \subseteq Requests
  BY Zenon DEF SlotInv, TypeOK
<1>4. \A q \in began : pc'[q] \notin Uncounted
  BY <1>2, <1>3, Zenon DEF DrainInv
<1>5. began \cap InFlight' \subseteq began \cap InFlight
  BY <1>2, <1>3, Zenon DEF DrainInv, InFlight
<1>6. UNCHANGED <<began, stopping, stopPc, timedOut>>
  BY <1>1, Zenon DEF stopVars
<1> QED BY <1>4, <1>5, <1>6, Zenon DEF DrainInv, DrainedBeforeClose

LEMMA DrainOfStops ==
    ASSUME SlotInv, DrainInv, NEW s \in Stoppers,
           StopGracefully(s) \/ StopThread(s) \/ StopInLoop(s)
    PROVE  DrainInv'
<1> USE DEF StopTo
<1>1. stopPc \in [Stoppers -> {"new", "waiting", "stop", "posted", "closed", "join",
                               "notify", "done"}]
  BY Zenon DEF SlotInv, TypeOK
<1>2. CASE StopGracefully(s)
  <2>1. pc' = pc /\ timedOut' = timedOut /\ InFlight' = InFlight
    BY <1>2, Zenon DEF StopGracefully, requestVars, InFlight
  <2>2. \A r \in began' : pc'[r] \notin Uncounted
    BY <1>2, <2>1, Zenon DEF StopGracefully, DrainInv, InFlight, Uncounted, Counted
  <2>3. stopPc' = [stopPc EXCEPT ![s] = "waiting"] /\ stopping'
    BY <1>2, Zenon DEF StopGracefully
  <2>4. CASE stopping
    <3>1. began' = began
      BY <1>2, <2>4, Zenon DEF StopGracefully
    <3> QED BY <1>1, <2>1, <2>2, <2>3, <3>1, Zenon DEF DrainInv, DrainedBeforeClose
  <2>5. CASE ~stopping
    <3>1. \A t \in Stoppers : stopPc'[t] \in {"new", "waiting"}
      BY <1>1, <2>3, <2>5, Zenon DEF DrainInv
    <3> QED BY <2>2, <2>3, <3>1, Zenon DEF DrainInv, DrainedBeforeClose
  <2> QED BY <2>4, <2>5, Zenon
<1>3. CASE WaitEnds(s)
  <2>1. UNCHANGED <<pc, began, stopping>> /\ InFlight' = InFlight
    BY <1>3, Zenon DEF WaitEnds, requestVars, InFlight
  <2>2. stopPc' = [stopPc EXCEPT ![s] = "stop"] /\ stopPc[s] = "waiting"
    BY <1>3, Zenon DEF WaitEnds
  <2>3. timedOut \subseteq timedOut' /\ (inflight = 0 \/ s \in timedOut')
    BY <1>3, Zenon DEF WaitEnds, Drained
  <2>4. inflight = 0 => InFlight = {}
    BY Cards, FS_EmptySet, Zenon DEF SlotInv, SlotsExact
  <2>5. stopping
    BY <2>2, Zenon DEF DrainInv
  <2>6. DrainedBeforeClose'
    BY <1>1, <2>1, <2>2, <2>3, <2>4, Zenon DEF DrainInv, DrainedBeforeClose
  <2> QED BY <2>1, <2>5, <2>6, Zenon DEF DrainInv
<1>4. CASE TcpStop(s) \/ QuitLoops(s) \/ JoinLoops(s) \/ OnDone(s) \/ StopInLoop(s)
  <2>1. UNCHANGED <<pc, began, stopping, timedOut>> /\ InFlight' = InFlight
    BY <1>4, Zenon DEF TcpStop, QuitLoops, JoinLoops, OnDone, StopInLoop, requestVars, InFlight
  <2>2. /\ stopPc[s] \notin {"new", "waiting"}
        /\ \E l \in {"posted", "notify", "join", "done", "closed"} :
              stopPc' = [stopPc EXCEPT ![s] = l]
    BY <1>4, Zenon DEF TcpStop, QuitLoops, JoinLoops, OnDone, StopInLoop
  <2>3. \A t \in Stoppers : stopPc'[t] \notin {"new", "waiting"} <=>
                             stopPc[t] \notin {"new", "waiting"}
    BY <1>1, <2>2, Zenon
  <2>4. stopping
    BY <2>2, Zenon DEF DrainInv
  <2> QED BY <2>1, <2>3, <2>4, Zenon DEF DrainInv, DrainedBeforeClose
<1> QED BY <1>2, <1>3, <1>4, Zenon DEF StopThread

LEMMA DrainStep == SlotInv /\ DrainInv /\ [Next]_vars => DrainInv'
<1> SUFFICES ASSUME SlotInv, DrainInv, [Next]_vars PROVE DrainInv'
  BY Zenon
<1>1. ASSUME UNCHANGED <<stopping, stopPc, began, timedOut, pc>>
      PROVE  DrainInv'
  BY <1>1, Zenon DEF DrainInv, DrainedBeforeClose, InFlight
<1>2. ASSUME NEW c \in Conns, NewConnection(c) \/ Loop(c) \/ HandleClose(c) \/ Hangup(c)
      PROVE  UNCHANGED <<stopping, stopPc, began, timedOut, pc>>
  BY <1>2, Zenon DEF NewConnection, Loop, RunFunctor, LoopEnds, HangupEnds, HandleClose, Hangup, stopVars, requestVars
<1>3. CASE MainLoopEnds
  BY <1>1, <1>3, Zenon DEF MainLoopEnds, requestVars
<1>4. CASE UNCHANGED vars
  BY <1>1, <1>4, Zenon DEF vars, stopVars, requestVars
<1> QED BY <1>1, <1>2, <1>3, <1>4, DrainOfRequests, DrainOfStops, Zenon DEF Next

\* For any number of requests and of racing stopGracefully() calls: a stop thread
\* that did not time out closes nothing before the requests in flight when the
\* stop began have been handled.
THEOREM StopDrains == Spec => []DrainedBeforeClose
<1>1. Init => DrainInv
  BY Zenon DEF Init, DrainInv, DrainedBeforeClose
<1>2. DrainInv => DrainedBeforeClose
  BY Zenon DEF DrainInv
<1> QED BY <1>1, <1>2, SlotInit, SlotStep, DrainStep, PTL DEF Spec

-----------------------------------------------------------------------------
(* What is queued in the loops *)

\* What the i-th functor of the loop of c does, and how many there are.
OpAt(c, i) == loopQ[c][i].op
Places(c) == 1..Len(loopQ[c])

Shut(c) == connState[c] \in {"none", "Disconnected"}

\* A close is queued in the loop of c before its n-th functor.
CloseBefore(c, n) == \E j \in Places(c) : j < n /\ OpAt(c, j) = "close"
CloseQueued(c) == \E j \in Places(c) : OpAt(c, j) = "close"

\* The queue of one loop: connectEstablished is first, once, while the connection is
\* being set up; a quit comes after a close, and after the acceptor was closed; and
\* the stop thread that is about to quit the loops has had a close queued.
Orderly(c) ==
    /\ listening => loopState[c] \in {"running", "hangup"}
    /\ loopState[c] = "hangup" => connState[c] = "Disconnected"
    /\ listening => \A i \in Places(c) : OpAt(c, i) # "quit"
    /\ connState[c] = "none" => \A i \in Places(c) : OpAt(c, i) = "quit"
    /\ connState[c] = "Connecting" => 1 \in Places(c) /\ OpAt(c, 1) = "established"
    /\ \A i \in Places(c) :
          OpAt(c, i) = "established" => i = 1 /\ connState[c] = "Connecting"
    /\ \A i \in Places(c) : OpAt(c, i) = "quit" => Shut(c) \/ CloseBefore(c, i)
    /\ loopState[c] # "running" => Shut(c)
    /\ \A s \in Stoppers : stopPc[s] = "closed" => Shut(c) \/ CloseQueued(c)

QueueInv ==
    /\ \A s \in Stoppers : stopPc[s] # "new" => ~listening
    /\ \A r \in Requests : pc[r] # "new" => connState[conn[r]] \in {"Connected", "Disconnected"}
    /\ \A c \in Conns : Orderly(c)

\* A message: what kind it is when it gets where, and how often it was answered.
Stage(r) ==
    /\ pc[r] \notin {"new", "done"} => kind[r] \in {"request", "oneway"}
    /\ pc[r] \in {"reply", "push"} => kind[r] = "request"
    /\ pc[r] = "new" <=> kind[r] = "none"
    /\ answers[r] = 0 \/ (answers[r] = 1 /\ pc[r] = "done" /\ kind[r] \in {"request", "heartbeat"})

\* Its answer is queued on its own connection, once, and only until it is written.
Queued(r) ==
    \A c \in Conns : \A i \in 1..Len(loopQ[c]) :
        loopQ[c][i] = Send(r) =>
            /\ c = conn[r] /\ pc[r] = "done" /\ kind[r] = "request" /\ answers[r] = 0
            /\ \A j \in 1..Len(loopQ[c]) : loopQ[c][j] = Send(r) => j = i

\* An answer that is due and was not written is queued, has nowhere to go, or could
\* not be handed over.
Due(r) ==
    (pc[r] = "done" /\ kind[r] \in {"request", "heartbeat"} /\ answers[r] = 0) =>
        \/ connState[conn[r]] = "Disconnected"
        \/ \E i \in 1..Len(loopQ[conn[r]]) : loopQ[conn[r]][i] = Send(r)
        \/ r \in unsent

Answering(r) == Stage(r) /\ Queued(r) /\ Due(r)

AnswerInv == \A r \in Requests : Answering(r)

\* One place more, or one less.
LEMMA Intervals ==
    /\ 1..1 = {1}
    /\ \A n \in Nat : /\ 1..(n + 1) = (1..n) \cup {n + 1} /\ n + 1 \notin 1..n
                      /\ \A j \in 1..n : j < n + 1
    /\ \A n \in Nat \ {0} : /\ 1 \in 1..n
                            /\ \A i \in 1..(n - 1) : i \in Nat /\ i + 1 \in 1..n /\ i + 1 # 1
                            /\ \A i \in 1..n : i # 1 => i - 1 \in 1..(n - 1) /\ (i - 1) + 1 = i
<1>1. 1..1 = {1}
  OBVIOUS
<1>2. ASSUME NEW n \in Nat PROVE 1..(n + 1) = (1..n) \cup {n + 1} /\ n + 1 \notin 1..n
  OBVIOUS
<1>3. ASSUME NEW n \in Nat, NEW j \in 1..n PROVE j < n + 1
  OBVIOUS
<1>4. ASSUME NEW n \in Nat \ {0} PROVE 1 \in 1..n
  OBVIOUS
<1>5. ASSUME NEW n \in Nat \ {0}, NEW i \in 1..(n - 1)
      PROVE  i \in Nat /\ i + 1 \in 1..n /\ i + 1 # 1
  OBVIOUS
<1>6. ASSUME NEW n \in Nat \ {0}, NEW i \in 1..n, i # 1
      PROVE  i - 1 \in 1..(n - 1) /\ (i - 1) + 1 = i
  BY <1>6
<1> QED BY <1>1, <1>2, <1>3, <1>4, <1>5, <1>6

\* Queueing a functor, element by element.
LEMMA Posted ==
    ASSUME TypeOK, NEW C, NEW f, Post(C, f), NEW c \in Conns
    PROVE  /\ Len(loopQ[c]) \in Nat
           /\ c \notin C => loopQ'[c] = loopQ[c]
           /\ c \in C => /\ Len(loopQ'[c]) = Len(loopQ[c]) + 1
                         /\ loopQ'[c][Len(loopQ[c]) + 1] = f
                         /\ \A i \in 1..Len(loopQ[c]) : loopQ'[c][i] = loopQ[c][i]
<1>1. loopQ[c] \in Seq(Functor)
  BY Zenon DEF TypeOK
<1>2. loopQ'[c] = IF c \in C THEN Append(loopQ[c], f) ELSE loopQ[c]
  BY Zenon DEF Post
<1> QED BY <1>1, <1>2

\* Running a functor, element by element.
LEMMA Popped ==
    ASSUME TypeOK, NEW c \in Conns, RunFunctor(c)
    PROVE  /\ Len(loopQ[c]) \in Nat \ {0} /\ Len(loopQ'[c]) = Len(loopQ[c]) - 1
           /\ Head(loopQ[c]) = loopQ[c][1]
           /\ \A i \in 1..Len(loopQ'[c]) : loopQ'[c][i] = loopQ[c][i + 1]
           /\ \A d \in Conns \ {c} : loopQ'[d] = loopQ[d]
<1>1. loopQ[c] \in Seq(Functor) /\ loopQ[c] # <<>>
  BY Zenon DEF TypeOK, RunFunctor
<1>2. loopQ'[c] = Tail(loopQ[c]) /\ \A d \in Conns \ {c} : loopQ'[d] = loopQ[d]
  BY Zenon DEF TypeOK, RunFunctor
<1> QED BY <1>1, <1>2

\* A loop stays orderly when its connection and its queue stay as they are.
LEMMA StaysOrderly ==
    ASSUME NEW c \in Conns, Orderly(c), loopQ'[c] = loopQ[c],
           connState'[c] = connState[c], loopState'[c] = loopState[c], listening' => listening,
           \A s \in Stoppers : stopPc'[s] = "closed" => stopPc[s] = "closed" \/ Shut(c)
    PROVE  Orderly(c)'
<1>1. (Shut(c)' <=> Shut(c)) /\ Places(c)' = Places(c) /\ \A i : OpAt(c, i)' = OpAt(c, i)
  BY Zenon DEF Shut, Places, OpAt
<1>2. (CloseQueued(c)' <=> CloseQueued(c)) /\ \A n : CloseBefore(c, n)' <=> CloseBefore(c, n)
  BY <1>1, Zenon DEF CloseBefore, CloseQueued
<1> QED BY <1>1, <1>2, Zenon DEF Orderly

\* ... and when a functor is queued that may be.
LEMMA PostOrderly ==
    ASSUME TypeOK, NEW C, NEW f, Post(C, f), NEW c \in Conns, c \in C, Orderly(c),
           connState'[c] = connState[c], loopState'[c] = loopState[c], listening' => listening,
           f.op # "established", connState[c] = "none" => f.op = "quit",
           f.op = "quit" => ~listening' /\ (Shut(c) \/ CloseQueued(c)),
           \A s \in Stoppers : stopPc'[s] = "closed" => stopPc[s] = "closed" \/ f.op = "close"
    PROVE  Orderly(c)'
<1> DEFINE op == f.op
<1>0. PICK n \in Nat : n = Len(loopQ[c])
  BY Posted, Zenon
<1>1. /\ Places(c) = 1..n /\ Places(c)' = 1..(n + 1)
      /\ OpAt(c, n + 1)' = op /\ \A i \in 1..n : OpAt(c, i)' = OpAt(c, i)
  <2>1. /\ Len(loopQ'[c]) = n + 1 /\ loopQ'[c][n + 1] = f
        /\ \A i \in 1..n : loopQ'[c][i] = loopQ[c][i]
    BY <1>0, Posted
  <2> QED BY <1>0, <2>1, Zenon DEF Places, OpAt
<1>2. Shut(c)' <=> Shut(c)
  BY Zenon DEF Shut
<1> HIDE DEF op
<1>3. Places(c)' = Places(c) \cup {n + 1} /\ n + 1 \notin Places(c)
  BY <1>1, Intervals, Zenon
<1>4. \A j \in Places(c) : j < n + 1
  BY <1>1, Intervals, Zenon
<1>5. \A m : CloseBefore(c, m) => CloseBefore(c, m)'
  BY <1>1, <1>3, Zenon DEF CloseBefore
<1>6. CloseQueued(c) => CloseQueued(c)' /\ CloseBefore(c, n + 1)'
  BY <1>1, <1>3, <1>4, Zenon DEF CloseQueued, CloseBefore
<1>7. op = "close" => CloseQueued(c)'
  BY <1>1, <1>3, Zenon DEF CloseQueued
<1>8. /\ op # "established" /\ (connState[c] = "none" => op = "quit")
      /\ op = "quit" => ~listening' /\ (Shut(c) \/ CloseQueued(c))
      /\ \A s \in Stoppers : stopPc'[s] = "closed" => stopPc[s] = "closed" \/ op = "close"
  BY Zenon DEF op
<1>9. ASSUME NEW i \in Places(c)'
      PROVE  /\ listening' => OpAt(c, i)' # "quit"
             /\ connState'[c] = "none" => OpAt(c, i)' = "quit"
             /\ OpAt(c, i)' = "established" => i = 1 /\ connState'[c] = "Connecting"
             /\ OpAt(c, i)' = "quit" => Shut(c)' \/ CloseBefore(c, i)'
  <2>1. CASE i \in Places(c)
    BY <1>1, <1>2, <1>5, <2>1, ZenonT(30) DEF Orderly
  <2>2. CASE i = n + 1
    BY <1>1, <1>2, <1>6, <1>8, <2>2, ZenonT(30)
  <2> QED BY <1>3, <2>1, <2>2, Zenon
<1>10. connState'[c] = "Connecting" => 1 \in Places(c)' /\ OpAt(c, 1)' = "established"
  BY <1>1, <1>3, Zenon DEF Orderly
<1>11. \A s \in Stoppers : stopPc'[s] = "closed" => Shut(c)' \/ CloseQueued(c)'
  BY <1>2, <1>6, <1>7, <1>8, Zenon DEF Orderly
<1>12. /\ listening' => loopState'[c] \in {"running", "hangup"}
       /\ loopState'[c] = "hangup" => connState'[c] = "Disconnected"
       /\ loopState'[c] # "running" => Shut(c)'
  BY <1>2, Zenon DEF Orderly
<1> QED BY <1>9, <1>10, <1>11, <1>12, Zenon DEF Orderly

\* ... and when it runs its oldest functor.
LEMMA RunOrderly ==
    ASSUME TypeOK, NEW c \in Conns, Orderly(c), RunFunctor(c)
    PROVE  /\ Orderly(c)'
           /\ connState[c] \in {"Connected", "Disconnected"} =>
                  connState'[c] \in {"Connected", "Disconnected"}
           /\ connState[c] = "Disconnected" => connState'[c] = "Disconnected"
<1> DEFINE n == Len(loopQ[c])
           f == loopQ[c][1]
<1>1. /\ n \in Nat \ {0} /\ Places(c) = 1..n /\ Places(c)' = 1..(n - 1)
      /\ Head(loopQ[c]) = f /\ \A i \in 1..(n - 1) : OpAt(c, i)' = OpAt(c, i + 1)
  BY Popped, Zenon DEF Places, OpAt
<1>2. /\ connState'[c] = Turned(connState[c], f)
      /\ loopState'[c] = IF f.op = "quit" THEN "quitting" ELSE loopState[c]
      /\ listening' = listening /\ stopPc' = stopPc
  BY <1>1, SMTT(20) DEF RunFunctor, TypeOK, stopVars
<1>3. connState[c] \in {"none", "Connecting", "Connected", "Disconnected"}
  BY Zenon DEF TypeOK
<1>4. /\ 1 \in Places(c) /\ f.op = OpAt(c, 1)
      /\ \A i \in Places(c)' : /\ i \in Nat /\ i + 1 \in Places(c) /\ i + 1 # 1
                               /\ OpAt(c, i)' = OpAt(c, i + 1)
      /\ \A i \in Places(c) : i # 1 => i - 1 \in Places(c)' /\ OpAt(c, i - 1)' = OpAt(c, i)
  <2>1. 1 \in Places(c) /\ f.op = OpAt(c, 1)
    BY <1>1, Intervals, ZenonT(30) DEF OpAt
  <2>2. \A i \in Places(c)' : /\ i \in Nat /\ i + 1 \in Places(c) /\ i + 1 # 1
                              /\ OpAt(c, i)' = OpAt(c, i + 1)
    BY <1>1, Intervals, ZenonT(30)
  <2>3. ASSUME NEW i \in Places(c), i # 1
        PROVE  i - 1 \in Places(c)' /\ OpAt(c, i - 1)' = OpAt(c, i)
    <3>1. i - 1 \in 1..(n - 1) /\ (i - 1) + 1 = i
      BY <1>1, <2>3, Intervals, Zenon
    <3>2. OpAt(c, i - 1)' = OpAt(c, (i - 1) + 1)
      BY <1>1, <3>1, ZenonT(30)
    <3> QED BY <1>1, <3>1, <3>2, Zenon
  <2> QED BY <2>1, <2>2, <2>3, Zenon
<1> HIDE DEF n, f
<1>5. OpAt(c, 1) = "established" <=> connState[c] = "Connecting"
  BY <1>4, Zenon DEF Orderly
<1>6. OpAt(c, 1) = "quit" => Shut(c)
  <2>1. ~CloseBefore(c, 1)
    BY <1>1, SMTT(20) DEF CloseBefore
  <2> QED BY <1>4, <2>1, Zenon DEF Orderly
<1>7. /\ connState[c] = "Connecting" => connState'[c] = "Connected"
      /\ connState[c] = "Connected" =>
             connState'[c] = IF OpAt(c, 1) = "close" THEN "Disconnected" ELSE "Connected"
      /\ Shut(c) => connState'[c] = connState[c]
  BY <1>2, <1>3, <1>4, <1>5, ZenonT(30) DEF Turned, Shut
<1>8. Shut(c) => Shut(c)'
  BY <1>7, Zenon DEF Shut
<1>9. OpAt(c, 1) = "close" => Shut(c)'
  BY <1>3, <1>5, <1>7, Zenon DEF Shut
<1>10. ASSUME NEW m \in Nat, CloseBefore(c, m + 1) PROVE Shut(c)' \/ CloseBefore(c, m)'
  <2>1. PICK j \in Places(c) : j < m + 1 /\ OpAt(c, j) = "close"
    BY <1>10, Zenon DEF CloseBefore
  <2>2. CASE j = 1
    BY <1>9, <2>1, <2>2, Zenon
  <2>3. CASE j # 1
    <3>1. j \in Nat /\ j - 1 < m
      BY <1>1, <2>1, SMTT(20)
    <3> QED BY <1>4, <2>1, <2>3, <3>1, ZenonT(30) DEF CloseBefore
  <2> QED BY <2>2, <2>3, ZenonT(30)
<1>11. CloseQueued(c) => Shut(c)' \/ CloseQueued(c)'
  BY <1>4, <1>9, Zenon DEF CloseQueued
<1>12. ASSUME NEW i \in Places(c)'
       PROVE  /\ listening' => OpAt(c, i)' # "quit"
              /\ connState'[c] = "none" => OpAt(c, i)' = "quit"
              /\ OpAt(c, i)' # "established"
              /\ OpAt(c, i)' = "quit" => Shut(c)' \/ CloseBefore(c, i)'
  <2>1. i \in Nat /\ i + 1 \in Places(c) /\ i + 1 # 1 /\ OpAt(c, i)' = OpAt(c, i + 1)
    BY <1>4, Zenon
  <2>2. connState'[c] = "none" => connState[c] = "none"
    BY <1>3, <1>7, Zenon DEF Shut
  <2>3. OpAt(c, i + 1) = "quit" => Shut(c)' \/ CloseBefore(c, i)'
    BY <1>8, <1>10, <2>1, Zenon DEF Orderly
  <2> QED BY <1>2, <2>1, <2>2, <2>3, Zenon DEF Orderly
<1>13. /\ connState'[c] # "Connecting"
       /\ listening' => loopState'[c] \in {"running", "hangup"}
       /\ loopState'[c] = "hangup" => connState'[c] = "Disconnected"
       /\ loopState'[c] # "running" => Shut(c)'
  <2>1. connState'[c] # "Connecting"
    BY <1>3, <1>7, Zenon DEF Shut
  <2>2. /\ listening' => loopState'[c] \in {"running", "hangup"}
        /\ loopState'[c] # "hangup"
    <3>1. loopState[c] \in {"running", "quitting"}
      BY Zenon DEF RunFunctor
    <3> QED BY <1>2, <1>4, <3>1, Zenon DEF Orderly
  <2>3. loopState'[c] # "running" => Shut(c)'
    BY <1>2, <1>4, <1>6, <1>8, Zenon DEF Orderly
  <2> QED BY <2>1, <2>2, <2>3, Zenon
<1>14. \A s \in Stoppers : stopPc'[s] = "closed" => Shut(c)' \/ CloseQueued(c)'
  BY <1>2, <1>8, <1>11, ZenonT(30) DEF Orderly
<1>15. Orderly(c)'
  BY <1>12, <1>13, <1>14, Zenon DEF Orderly
<1> QED BY <1>7, <1>15, Zenon DEF Shut

LEMMA TaskOps ==
    /\ \A op : Task(op).op = op
    /\ \A r : Send(r).op = "send"
  BY Zenon DEF Task, Send

LEMMA QueueOfLoops ==
    ASSUME TypeOK, QueueInv, NEW c \in Conns, NewConnection(c) \/ Loop(c) \/ HandleClose(c) \/ Hangup(c)
    PROVE  QueueInv'
<1>1. UNCHANGED <<pc, conn, stopPc, listening>>
  BY Zenon DEF NewConnection, Loop, RunFunctor, LoopEnds, HangupEnds, HandleClose, Hangup, requestVars, stopVars
<1>2. /\ loopQ \in [Conns -> Seq(Functor)] /\ conn \in [Requests -> Conns]
      /\ connState \in [Conns -> {"none", "Connecting", "Connected", "Disconnected"}]
      /\ loopState \in [Conns -> {"running", "hangup", "quitting", "ended"}]
  BY Zenon DEF TypeOK
<1>3. \A d \in Conns : Orderly(d)
  BY Zenon DEF QueueInv
<1>4. ASSUME NEW d \in Conns, d # c PROVE Orderly(d)' /\ connState'[d] = connState[d]
  <2>1. connState'[d] = connState[d] /\ loopState'[d] = loopState[d]
    BY <1>2, <1>4, Zenon DEF NewConnection, Loop, RunFunctor, LoopEnds, HangupEnds, HandleClose, Hangup
  <2>2. loopQ'[d] = loopQ[d]
    BY <1>2, <1>4, Zenon DEF NewConnection, Post, Loop, RunFunctor, LoopEnds, HangupEnds, HandleClose, Hangup
  <2> QED BY <1>1, <1>3, <2>1, <2>2, StaysOrderly, Zenon
<1>5. /\ Orderly(c)'
      /\ connState[c] \in {"Connected", "Disconnected"} =>
             connState'[c] \in {"Connected", "Disconnected"}
  <2>1. CASE NewConnection(c)
    <3>1. listening /\ connState[c] = "none" /\ connState'[c] = "Connecting" /\ UNCHANGED loopState
      BY <1>2, <2>1, Zenon DEF NewConnection
    <3>2. Places(c) = {}
      BY <1>3, <3>1, Zenon DEF Orderly
    <3>3. Len(loopQ[c]) = 0
      <4>1. loopQ[c] \in Seq(Functor)
        BY <1>2, Zenon
      <4>2. PICK n \in Nat : n = Len(loopQ[c])
        BY <4>1, SMTT(20)
      <4>3. 1..n = {}
        BY <3>2, <4>2, Zenon DEF Places
      <4>4. n # 0 => 1 \in 1..n
        OBVIOUS
      <4>5. n = 0
        BY <4>3, <4>4, Zenon
      <4> QED BY <4>2, <4>5, Zenon
    <3>4. Len(loopQ'[c]) = 1 /\ loopQ'[c][1] = Task("established")
      <4>1. PICK C, f : C = {c} /\ f = Task("established") /\ Post(C, f)
        BY <2>1, Zenon DEF NewConnection
      <4>2. c \in C
        BY <4>1, Zenon
      <4>3. Len(loopQ'[c]) = Len(loopQ[c]) + 1 /\ loopQ'[c][Len(loopQ[c]) + 1] = f
        BY <4>1, <4>2, Posted, SMTT(20)
      <4> QED BY <3>3, <4>1, <4>3, SMTT(20)
    <3>5. Places(c)' = {1} /\ OpAt(c, 1)' = "established"
      <4>1. Task("established").op = "established"
        BY TaskOps, Zenon
      <4>2. Places(c)' = {1}
        BY <3>4, Intervals, Zenon DEF Places
      <4> QED BY <3>4, <4>1, <4>2, Zenon DEF OpAt
    <3>6. loopState[c] \in {"running", "hangup"} /\ loopState[c] # "hangup" /\ \A s \in Stoppers : stopPc[s] # "closed"
      BY <1>3, <3>1, Zenon DEF QueueInv, Orderly
    <3> QED BY <1>1, <3>1, <3>5, <3>6, ZenonT(30) DEF Orderly
  <2>2. CASE RunFunctor(c)
    BY <1>3, <2>2, RunOrderly, Zenon
  <2>3. CASE LoopEnds(c)
    <3>1. loopState[c] = "quitting" /\ loopState'[c] = "ended" /\ UNCHANGED <<connState, loopQ>>
      BY <1>2, <2>3, Zenon DEF LoopEnds
    <3>2. Shut(c) /\ ~listening
      BY <1>3, <3>1, Zenon DEF Orderly
    <3>3. Shut(c)' /\ Places(c)' = Places(c) /\ \A i : OpAt(c, i)' = OpAt(c, i)
      BY <3>1, <3>2, Zenon DEF Shut, Places, OpAt
    <3> QED BY <1>1, <1>3, <3>1, <3>2, <3>3, ZenonT(30) DEF Orderly
  <2>4. CASE HandleClose(c) \/ Hangup(c)
    <3>1. /\ connState[c] = "Connected" /\ connState'[c] = "Disconnected"
          /\ loopQ' = loopQ
          /\ loopState'[c] = loopState[c] \/ (loopState[c] = "running" /\ loopState'[c] = "hangup")
      BY <1>2, <2>4, Zenon DEF HandleClose, Hangup
    <3>2. Shut(c)' /\ Places(c)' = Places(c) /\ \A i : OpAt(c, i)' = OpAt(c, i)
      BY <3>1, Zenon DEF Shut, Places, OpAt
    <3>3. listening => loopState'[c] \in {"running", "hangup"}
      BY <1>3, <3>1, Zenon DEF Orderly
    <3> QED BY <1>1, <1>3, <3>1, <3>2, <3>3, ZenonT(30) DEF Orderly
  <2>5. CASE HangupEnds(c)
    <3>1. loopState[c] = "hangup" /\ loopState'[c] = "running" /\ UNCHANGED <<connState, loopQ>>
      BY <1>2, <2>5, Zenon DEF HangupEnds
    <3>2. Shut(c) /\ connState[c] = "Disconnected"
      BY <1>3, <3>1, Zenon DEF Orderly, Shut
    <3>3. Shut(c)' /\ Places(c)' = Places(c) /\ \A i : OpAt(c, i)' = OpAt(c, i)
      BY <3>1, <3>2, Zenon DEF Shut, Places, OpAt
    <3> QED BY <1>1, <1>3, <3>1, <3>2, <3>3, ZenonT(30) DEF Orderly
  <2> QED BY <2>1, <2>2, <2>3, <2>4, <2>5, Zenon DEF Loop
<1>6. \A d \in Conns : connState[d] \in {"Connected", "Disconnected"} =>
                           connState'[d] \in {"Connected", "Disconnected"}
  BY <1>4, <1>5, Zenon
<1>7. \A d \in Conns : Orderly(d)'
  BY <1>4, <1>5, Zenon
<1> QED BY <1>1, <1>2, <1>6, <1>7, Zenon DEF QueueInv

LEMMA QueueOfRequests ==
    ASSUME TypeOK, QueueInv, NEW r \in Requests, OnMessage(r) \/ Executor(r)
    PROVE  QueueInv'
<1>1. UNCHANGED <<conn, stopPc, listening, connState, loopState>>
  BY Zenon DEF OnMessage, Executor, HandleRequest, TryAcquire, Count, HandlerDone,
         ReleaseLimiter, Uncount, SendChecks, SendPushes, loopVars, stopVars
<1>2. PICK l : pc' = [pc EXCEPT ![r] = l]
  BY Zenon DEF OnMessage, Executor, HandleRequest, TryAcquire, Count, HandlerDone,
         ReleaseLimiter, Uncount, SendChecks, SendPushes, GoTo
<1>3. pc[r] # "new" \/ connState[conn[r]] = "Connected" \/ loopState[conn[r]] = "hangup"
  BY Zenon DEF OnMessage, Executor, HandleRequest, TryAcquire, Count, HandlerDone,
         ReleaseLimiter, Uncount, SendChecks, SendPushes
<1>6. pc[r] # "new" \/ connState[conn[r]] \in {"Connected", "Disconnected"}
  BY <1>3, Zenon DEF QueueInv, Orderly, TypeOK
<1>4. \A q \in Requests : pc'[q] # "new" => connState'[conn'[q]] \in {"Connected", "Disconnected"}
  BY <1>1, <1>2, <1>6, Zenon DEF QueueInv, TypeOK
<1>5. ASSUME NEW c \in Conns PROVE Orderly(c)'
  <2>1. Orderly(c)
    BY Zenon DEF QueueInv
  <2>2. CASE loopQ' = loopQ
    BY <1>1, <2>1, <2>2, StaysOrderly, ZenonT(30)
  <2>3. CASE SendPushes(r)
    <3>1. Post({conn[r]}, Send(r)) /\ pc[r] = "push"
      BY <2>3, Zenon DEF SendPushes
    <3>2. CASE c = conn[r]
      <4>1. connState[c] # "none"
        BY <3>1, <3>2, Zenon DEF QueueInv
      <4> QED BY <1>1, <2>1, <3>1, <3>2, <4>1, TaskOps, PostOrderly, ZenonT(30)
    <3>3. CASE c # conn[r]
      <4>1. PICK C, f : C = {conn[r]} /\ f = Send(r) /\ Post(C, f)
        BY <3>1, Zenon
      <4>2. c \notin C
        BY <3>3, <4>1, Zenon
      <4>3. loopQ'[c] = loopQ[c]
        BY <4>1, <4>2, Posted, Zenon
      <4> QED BY <1>1, <2>1, <4>3, StaysOrderly, Zenon
    <3> QED BY <3>2, <3>3, Zenon
  <2> QED BY <2>2, <2>3, ZenonT(30) DEF OnMessage, Executor, HandleRequest, TryAcquire, Count, HandlerDone,
                            ReleaseLimiter, Uncount, SendChecks, loopVars
<1> QED BY <1>1, <1>4, <1>5, Zenon DEF QueueInv

LEMMA QueueOfStops ==
    ASSUME TypeOK, QueueInv, NEW s \in Stoppers,
           StopGracefully(s) \/ StopThread(s) \/ StopInLoop(s)
    PROVE  QueueInv'
<1>1. UNCHANGED <<pc, conn, connState, loopState>> /\ (listening' => listening)
  <2>1. CASE StopGracefully(s) \/ StopInLoop(s)
    BY <2>1, Zenon DEF StopGracefully, StopInLoop, requestVars, loopVars
  <2>2. CASE WaitEnds(s) \/ TcpStop(s)
    BY <2>2, SMTT(20) DEF WaitEnds, TcpStop, requestVars, loopVars
  <2>3. CASE QuitLoops(s) \/ JoinLoops(s) \/ OnDone(s)
    BY <2>3 DEF QuitLoops, JoinLoops, OnDone, requestVars, loopVars
  <2> QED BY <2>1, <2>2, <2>3, Zenon DEF StopThread
<1>2. PICK l \in {"waiting", "stop", "posted", "closed", "join", "notify", "done"} :
          stopPc' = [stopPc EXCEPT ![s] = l]
  <2>1. CASE StopGracefully(s) \/ StopInLoop(s) \/ WaitEnds(s) \/ TcpStop(s)
    BY <2>1, Zenon DEF StopGracefully, StopInLoop, WaitEnds, TcpStop, StopTo
  <2>2. CASE QuitLoops(s) \/ JoinLoops(s) \/ OnDone(s)
    BY <2>2, Zenon DEF QuitLoops, JoinLoops, OnDone, StopTo
  <2> QED BY <2>1, <2>2, Zenon DEF StopThread
<1>3. stopPc[s] # "new" \/ ~listening'
  BY Zenon DEF StopGracefully, StopThread, WaitEnds, TcpStop, QuitLoops, JoinLoops, OnDone, StopInLoop
<1>4. stopPc \in [Stoppers -> {"new", "waiting", "stop", "posted", "closed", "join",
                               "notify", "done"}]
  BY Zenon DEF TypeOK
<1>5. \A t \in Stoppers : stopPc'[t] # "new" => ~listening'
  BY <1>1, <1>2, <1>3, <1>4, Zenon DEF QueueInv
<1>6. ASSUME NEW c \in Conns PROVE Orderly(c)'
  <2>1. Orderly(c)
    BY Zenon DEF QueueInv
  <2>2. CASE StopInLoop(s)
    <3>1. Post(Open, Task("close"))
      BY <2>2, Zenon DEF StopInLoop
    <3>2. CASE c \in Open
      <4>1. connState[c] # "none"
        BY <3>2, Zenon DEF Open
      <4>2. PICK C : C = Open
        BY Zenon
      <4>3. Task("close").op = "close"
        BY TaskOps, Zenon
      <4> QED BY <1>1, <2>1, <3>1, <3>2, <4>1, <4>2, <4>3, PostOrderly, ZenonT(30)
    <3>3. CASE c \notin Open
      <4>1. Shut(c)
        BY <3>3, Zenon DEF Open, Shut
      <4>2. PICK C : C = Open
        BY Zenon
      <4>3. loopQ'[c] = loopQ[c]
        BY <3>1, <3>3, <4>2, Posted, Zenon
      <4> QED BY <1>1, <2>1, <4>1, <4>3, StaysOrderly, Zenon
    <3> QED BY <3>2, <3>3, Zenon
  <2>3. CASE QuitLoops(s)
    <3>1. Post(Conns, Task("quit")) /\ stopPc[s] = "closed" /\ stopPc' = [stopPc EXCEPT ![s] = "join"]
      BY <2>3, Zenon DEF QuitLoops, StopTo
    <3>2. ~listening' /\ \A t \in Stoppers : stopPc'[t] = "closed" => stopPc[t] = "closed"
      BY <1>1, <1>4, <3>1, Zenon DEF QueueInv
    <3>3. Shut(c) \/ CloseQueued(c)
      BY <2>1, <3>1, Zenon DEF Orderly
    <3>4. Task("quit").op = "quit"
      BY TaskOps, Zenon
    <3> QED BY <1>1, <2>1, <3>1, <3>2, <3>3, <3>4, PostOrderly, ZenonT(30)
  <2>4. CASE StopGracefully(s) \/ WaitEnds(s) \/ TcpStop(s) \/ JoinLoops(s) \/ OnDone(s)
    <3>1. loopQ' = loopQ /\ stopPc'[s] # "closed"
      BY <1>4, <2>4, ZenonT(30) DEF StopGracefully, WaitEnds, TcpStop, JoinLoops, OnDone, loopVars, StopTo
    <3>2. \A t \in Stoppers : stopPc'[t] = "closed" => stopPc[t] = "closed"
      BY <1>2, <1>4, <3>1, Zenon
    <3> QED BY <1>1, <2>1, <3>1, <3>2, StaysOrderly, ZenonT(30)
  <2> QED BY <2>2, <2>3, <2>4, Zenon DEF StopThread
<1> QED BY <1>1, <1>5, <1>6, Zenon DEF QueueInv

LEMMA QueueStep == TypeOK /\ QueueInv /\ [Next]_vars => QueueInv'
<1> SUFFICES ASSUME TypeOK, QueueInv, [Next]_vars PROVE QueueInv'
  BY Zenon
<1>1. CASE UNCHANGED vars \/ MainLoopEnds
  <2>1. UNCHANGED <<pc, conn, connState, loopState, loopQ, stopPc, listening>>
    BY <1>1, Zenon DEF vars, MainLoopEnds, requestVars, loopVars, stopVars
  <2>2. \A c \in Conns : Orderly(c)'
    BY <2>1, StaysOrderly, Zenon DEF QueueInv
  <2> QED BY <2>1, <2>2, Zenon DEF QueueInv
<1> QED BY <1>1, QueueOfLoops, QueueOfRequests, QueueOfStops, ZenonT(30) DEF Next

LEMMA QueueInit == Init => QueueInv
<1> SUFFICES ASSUME Init PROVE QueueInv
  BY Zenon
<1>1. \A c \in Conns : Places(c) = {}
  BY DEF Init, Places
<1>2. \A c \in Conns : Orderly(c)
  BY <1>1, Zenon DEF Init, Orderly
<1> QED BY <1>2, Zenon DEF Init, QueueInv

\* TcpServer::stop, for any number of connections and of racing stops: no I/O loop
\* ends while its connection is open or has yet to be established.
THEOREM LoopsEndClosed == Spec => []ClosedBeforeJoin
<1>1. QueueInv => ClosedBeforeJoin
  BY Zenon DEF QueueInv, Orderly, Shut, ClosedBeforeJoin
<1> QED BY <1>1, ServerTypes, QueueInit, QueueStep, PTL DEF Spec

-----------------------------------------------------------------------------
(* The answers *)

LEMMA SendFacts ==
    /\ \A q, r : Send(q) = Send(r) => q = r
    /\ \A r, op : op # "send" => Task(op) # Send(r)
<1>1. \A r : Send(r).req = r
  BY Zenon DEF Send
<1> QED BY <1>1, TaskOps, SMTT(20)

\* Nothing happens to a message and its answer while others move.
LEMMA StaysAnswering ==
    ASSUME NEW r \in Requests, conn \in [Requests -> Conns], Answering(r), UNCHANGED conn,
           pc'[r] = pc[r], kind'[r] = kind[r], answers'[r] = answers[r], r \in unsent => r \in unsent',
           \A c \in Conns : loopQ'[c] = loopQ[c],
           connState[conn[r]] = "Disconnected" => connState'[conn[r]] = "Disconnected"
    PROVE  Answering(r)'
<1>1. conn'[r] = conn[r] /\ conn[r] \in Conns
  BY Zenon
<1>2. Stage(r)'
  BY Zenon DEF Answering, Stage
<1>3. Queued(r)'
  <2> SUFFICES ASSUME NEW c \in Conns, NEW i \in 1..Len(loopQ'[c]), loopQ'[c][i] = Send(r)
               PROVE  /\ c = conn'[r] /\ pc'[r] = "done" /\ kind'[r] = "request" /\ answers'[r] = 0
                      /\ \A j \in 1..Len(loopQ'[c]) : loopQ'[c][j] = Send(r) => j = i
    BY Zenon DEF Queued, Send
  <2>1. loopQ'[c] = loopQ[c]
    BY Zenon
  <2>2. i \in 1..Len(loopQ[c]) /\ loopQ[c][i] = Send(r)
    BY <2>1, Zenon
  <2>3. /\ c = conn[r] /\ pc[r] = "done" /\ kind[r] = "request" /\ answers[r] = 0
        /\ \A j \in 1..Len(loopQ[c]) : loopQ[c][j] = Send(r) => j = i
    BY <2>2, Zenon DEF Answering, Queued
  <2> QED BY <1>1, <2>1, <2>3, Zenon
<1>4. Due(r)'
  BY <1>1, Zenon DEF Answering, Due
<1> QED BY <1>2, <1>3, <1>4, Zenon DEF Answering

\* ... nor when a functor is queued that is not its answer.
LEMMA PostAnswering ==
    ASSUME TypeOK, NEW r \in Requests, Answering(r), NEW C, NEW f, Post(C, f), f # Send(r),
           UNCHANGED conn, pc'[r] = pc[r], kind'[r] = kind[r], answers'[r] = answers[r],
           r \in unsent => r \in unsent',
           connState[conn[r]] = "Disconnected" => connState'[conn[r]] = "Disconnected"
    PROVE  Answering(r)'
<1>1. conn \in [Requests -> Conns]
  BY Zenon DEF TypeOK
<1>2. ASSUME NEW c \in Conns
      PROVE  /\ \A i \in 1..Len(loopQ'[c]) : loopQ'[c][i] = Send(r) =>
                                     i \in 1..Len(loopQ[c]) /\ loopQ[c][i] = Send(r)
             /\ \A i \in 1..Len(loopQ[c]) : i \in 1..Len(loopQ'[c]) /\ loopQ'[c][i] = loopQ[c][i]
  <2>1. PICK n \in Nat : n = Len(loopQ[c])
    BY Posted, Zenon
  <2>2. CASE c \notin C
    <3>1. loopQ'[c] = loopQ[c]
      BY <2>2, Posted, ZenonT(30)
    <3> QED BY <3>1, Zenon
  <2>3. CASE c \in C
    <3>1. /\ Len(loopQ'[c]) = n + 1 /\ loopQ'[c][n + 1] = f
          /\ \A i \in 1..n : loopQ'[c][i] = loopQ[c][i]
      BY <2>1, <2>3, Posted, SMTT(20)
    <3>2. 1..(n + 1) = (1..n) \cup {n + 1}
      BY Intervals, Zenon
    <3> QED BY <2>1, <3>1, <3>2, ZenonT(30)
  <2> QED BY <2>2, <2>3, ZenonT(30)
<1>3. ASSUME NEW c \in Conns, NEW i \in 1..Len(loopQ'[c]), loopQ'[c][i] = Send(r)
      PROVE  /\ c = conn[r] /\ pc[r] = "done" /\ kind[r] = "request" /\ answers[r] = 0
             /\ \A j \in 1..Len(loopQ'[c]) : loopQ'[c][j] = Send(r) => j = i
  <2>1. i \in 1..Len(loopQ[c]) /\ loopQ[c][i] = Send(r)
    BY <1>2, <1>3, Zenon
  <2>2. /\ c = conn[r] /\ pc[r] = "done" /\ kind[r] = "request" /\ answers[r] = 0
        /\ \A j \in 1..Len(loopQ[c]) : loopQ[c][j] = Send(r) => j = i
    BY <2>1, Zenon DEF Answering, Queued
  <2> QED BY <1>2, <2>2, ZenonT(30)
<1>4. (\E i \in 1..Len(loopQ[conn[r]]) : loopQ[conn[r]][i] = Send(r)) =>
          \E i \in 1..Len(loopQ'[conn[r]]) : loopQ'[conn[r]][i] = Send(r)
  BY <1>1, <1>2, ZenonT(30)
<1>5. Stage(r)'
  BY Zenon DEF Answering, Stage
<1>6. Queued(r)'
  BY <1>3, ZenonT(30) DEF Queued
<1>7. Due(r)'
  BY <1>4, ZenonT(30) DEF Answering, Due
<1> QED BY <1>5, <1>6, <1>7, ZenonT(30) DEF Answering

\* The loop of c runs its oldest functor: if that is the answer to r, it is written,
\* or the connection is closed.
LEMMA RunAnswering ==
    ASSUME TypeOK, QueueInv, NEW r \in Requests, Answering(r), NEW c \in Conns, RunFunctor(c)
    PROVE  Answering(r)'
<1> DEFINE f == loopQ[c][1]
<1>1. conn[r] \in Conns /\ UNCHANGED <<pc, kind, conn>> /\ answers \in [Requests -> Nat]
  BY Zenon DEF TypeOK, RunFunctor, requestVars
<1>2. PICK n \in Nat \ {0} : n = Len(loopQ[c])
  BY Popped, Zenon
<1>3. /\ Len(loopQ'[c]) = n - 1 /\ Head(loopQ[c]) = f
      /\ \A i \in 1..(n - 1) : loopQ'[c][i] = loopQ[c][i + 1]
      /\ \A d \in Conns \ {c} : loopQ'[d] = loopQ[d]
  BY <1>2, Popped, ZenonT(30)
<1>4. /\ r \in unsent => r \in unsent'
      /\ f # Send(r) => answers'[r] = answers[r]
      /\ f = Send(r) => \/ answers'[r] = answers[r] + 1
                        \/ answers'[r] = answers[r] /\ (connState[c] = "Disconnected" \/ r \in unsent')
  BY <1>3, RunOutcome, Zenon
<1>5. connState[conn[r]] = "Disconnected" => connState'[conn[r]] = "Disconnected"
  <2>1. CASE conn[r] = c
    BY <2>1, RunOrderly, ZenonT(30) DEF QueueInv
  <2>2. CASE conn[r] # c
    BY <1>1, <2>2, ZenonT(30) DEF RunFunctor, TypeOK
  <2> QED BY <2>1, <2>2, Zenon
<1> HIDE DEF f
<1>6. CASE f = Send(r)
  <2>1. /\ 1 \in 1..Len(loopQ[c]) /\ loopQ[c][1] = Send(r)
    BY <1>2, <1>6, Intervals, ZenonT(30) DEF f
  <2>2. /\ c = conn[r] /\ pc[r] = "done" /\ kind[r] = "request" /\ answers[r] = 0
        /\ \A j \in 1..Len(loopQ[c]) : loopQ[c][j] = Send(r) => j = 1
    BY <2>1, ZenonT(30) DEF Answering, Queued
  <2>3. ASSUME NEW i \in 1..Len(loopQ'[c]) PROVE loopQ'[c][i] # Send(r)
    <3>1. i + 1 \in 1..Len(loopQ[c]) /\ i + 1 # 1 /\ loopQ'[c][i] = loopQ[c][i + 1]
      BY <1>2, <1>3, Intervals, ZenonT(30)
    <3> QED BY <2>2, <3>1, Zenon
  <2>4. ASSUME NEW d \in Conns, d # c, NEW i \in 1..Len(loopQ'[d]) PROVE loopQ'[d][i] # Send(r)
    <3>1. loopQ'[d] = loopQ[d]
      BY <1>3, <2>4, ZenonT(30)
    <3>2. i \in 1..Len(loopQ[d])
      BY <2>4, <3>1, Zenon
    <3>3. loopQ[d][i] = Send(r) => d = conn[r]
      BY <3>2, ZenonT(30) DEF Answering, Queued
    <3> QED BY <2>2, <2>4, <3>1, <3>3, ZenonT(30)
  <2>5. \/ answers'[r] = 1
        \/ answers'[r] = 0 /\ (connState'[conn[r]] = "Disconnected" \/ r \in unsent')
    BY <1>4, <1>5, <1>6, <2>2, SMTT(20)
  <2>6. \A d \in Conns : \A i \in 1..Len(loopQ'[d]) : loopQ'[d][i] # Send(r)
    BY <2>3, <2>4, ZenonT(30)
  <2>7. Stage(r)'
    BY <1>1, <2>2, <2>5, ZenonT(30) DEF Stage
  <2>8. Queued(r)'
    BY <2>6, Zenon DEF Queued
  <2>9. Due(r)'
    BY <1>1, <2>5, SMTT(20) DEF Due
  <2> QED BY <2>7, <2>8, <2>9, Zenon DEF Answering
<1>7. CASE f # Send(r)
  <2>1. answers'[r] = answers[r]
    BY <1>4, <1>7, ZenonT(30)
  <2>2. ASSUME NEW d \in Conns, NEW i \in 1..Len(loopQ'[d]), loopQ'[d][i] = Send(r)
        PROVE  /\ d = conn[r] /\ pc[r] = "done" /\ kind[r] = "request" /\ answers[r] = 0
               /\ \A j \in 1..Len(loopQ'[d]) : loopQ'[d][j] = Send(r) => j = i
    <3>1. CASE d # c
      <4>1. loopQ'[d] = loopQ[d]
        BY <1>3, <3>1, Zenon
      <4> QED BY <2>2, <4>1, ZenonT(30) DEF Answering, Queued
    <3>2. CASE d = c
      <4>1. \A k \in 1..Len(loopQ'[c]) :
                k \in Nat /\ k + 1 \in 1..Len(loopQ[c]) /\ loopQ'[c][k] = loopQ[c][k + 1]
        BY <1>2, <1>3, Intervals, Zenon
      <4>2. i + 1 \in 1..Len(loopQ[c]) /\ loopQ[c][i + 1] = Send(r)
        BY <2>2, <3>2, <4>1, Zenon
      <4>3. /\ c = conn[r] /\ pc[r] = "done" /\ kind[r] = "request" /\ answers[r] = 0
            /\ \A j \in 1..Len(loopQ[c]) : loopQ[c][j] = Send(r) => j = i + 1
        BY <4>2, Zenon DEF Answering, Queued
      <4>4. ASSUME NEW j \in 1..Len(loopQ'[c]), loopQ'[c][j] = Send(r) PROVE j = i
        <5>1. j + 1 = i + 1 /\ j \in Nat /\ i \in Nat
          BY <3>2, <4>1, <4>3, <4>4, ZenonT(30)
        <5> QED BY <5>1, SMTT(20)
      <4> QED BY <3>2, <4>3, <4>4, Zenon
    <3> QED BY <3>1, <3>2, ZenonT(30)
  <2>3. ASSUME NEW i \in 1..Len(loopQ[conn[r]]), loopQ[conn[r]][i] = Send(r)
        PROVE  \E j \in 1..Len(loopQ'[conn[r]]) : loopQ'[conn[r]][j] = Send(r)
    <3>1. CASE conn[r] # c
      <4>1. loopQ'[conn[r]] = loopQ[conn[r]]
        BY <1>1, <1>3, <3>1, ZenonT(30)
      <4> QED BY <2>3, <4>1, ZenonT(30)
    <3>2. CASE conn[r] = c
      <4>1. i \in 1..n /\ i # 1
        BY <1>2, <1>7, <2>3, <3>2, ZenonT(30) DEF f
      <4>2. i - 1 \in 1..(n - 1) /\ (i - 1) + 1 = i
        BY <4>1, Intervals, Zenon
      <4>3. loopQ'[c][i - 1] = loopQ[c][i]
        BY <1>3, <4>2, ZenonT(30)
      <4> QED BY <1>3, <2>3, <3>2, <4>2, <4>3, ZenonT(30)
    <3> QED BY <3>1, <3>2, Zenon
  <2>4. Stage(r)'
    BY <1>1, <2>1, ZenonT(30) DEF Answering, Stage
  <2>5. Queued(r)'
    BY <1>1, <2>1, <2>2, ZenonT(30) DEF Queued
  <2>6. Due(r)'
    BY <1>1, <1>4, <1>5, <2>1, <2>3, Zenon DEF Answering, Due
  <2> QED BY <2>4, <2>5, <2>6, ZenonT(30) DEF Answering
<1> QED BY <1>6, <1>7, ZenonT(30)

\* A step of the message itself.
LEMMA OwnAnswering ==
    ASSUME TypeOK, QueueInv, NEW r \in Requests, Answering(r), OnMessage(r) \/ Executor(r)
    PROVE  Answering(r)'
<1>1. /\ pc \in [Requests -> {"new", "queued", "admit", "reply", "push", "done"}
                               \cup Holding \cup Counted]
      /\ kind \in [Requests -> Kinds \cup {"none"}] /\ conn[r] \in Conns
      /\ answers \in [Requests -> Nat]
  BY Zenon DEF TypeOK
<1>2. pc[r] # "done" /\ UNCHANGED conn
  BY Zenon DEF OnMessage, Executor, HandleRequest, TryAcquire, Count, HandlerDone,
         ReleaseLimiter, Uncount, SendChecks, SendPushes
<1>3. answers[r] = 0 /\ \A c \in Conns : \A i \in 1..Len(loopQ[c]) : loopQ[c][i] # Send(r)
  BY <1>2, Zenon DEF Answering, Stage, Queued
<1>4. CASE OnMessage(r)
  <2>1. loopQ' = loopQ
    BY <1>4, ZenonT(30) DEF OnMessage, loopVars
  <2>2. PICK k \in Kinds :
            /\ kind'[r] = k
            /\ \/ /\ k \in {"heartbeat", "request"} /\ pc'[r] = "done"
                  /\ \/ answers'[r] = 1
                     \/ answers'[r] = 0 /\ (connState[conn[r]] = "Disconnected" \/ r \in unsent')
               \/ k \in {"other", "oneway"} /\ answers'[r] = 0 /\ pc'[r] = "done"
               \/ k \in {"request", "oneway"} /\ answers'[r] = 0 /\ pc'[r] = "queued"
    <3>1. PICK k \in Kinds :
            /\ kind' = [kind EXCEPT ![r] = k]
            /\ \/ /\ k = "heartbeat" \/ (k = "request" /\ stopping)
                  /\ SendInLoop(conn[r], r) /\ GoTo(r, "done")
               \/ /\ k = "other" \/ (k = "oneway" /\ stopping)
                  /\ GoTo(r, "done") /\ UNCHANGED answers
               \/ /\ k \in {"request", "oneway"} /\ ~stopping
                  /\ GoTo(r, "queued") /\ UNCHANGED answers
      BY <1>4, Zenon DEF OnMessage
    <3>2. kind'[r] = k
      BY <1>1, <3>1, ZenonT(30)
    <3>3. CASE /\ k \in {"heartbeat", "request"} /\ SendInLoop(conn[r], r) /\ GoTo(r, "done")
      <4>1. \/ answers'[r] = answers[r] + 1
            \/ answers'[r] = answers[r] /\ (connState[conn[r]] = "Disconnected" \/ r \in unsent')
        BY <3>3, SendOutcome, ZenonT(30)
      <4>2. \/ answers'[r] = 1
            \/ answers'[r] = 0 /\ (connState[conn[r]] = "Disconnected" \/ r \in unsent')
        BY <1>3, <4>1, SMTT(20)
      <4>3. pc'[r] = "done"
        BY <1>1, <3>3, Zenon DEF GoTo
      <4> QED BY <3>2, <3>3, <4>2, <4>3, ZenonT(30)
    <3>4. CASE UNCHANGED answers
      <4>1. \/ k \in {"other", "oneway"} /\ pc'[r] = "done"
            \/ k \in {"request", "oneway"} /\ pc'[r] = "queued"
            \/ k \in {"heartbeat", "request"} /\ SendInLoop(conn[r], r) /\ GoTo(r, "done")
        BY <1>1, <3>1, ZenonT(30) DEF GoTo
      <4> QED BY <1>3, <3>2, <3>3, <3>4, <4>1, ZenonT(30)
    <3> QED BY <3>1, <3>3, <3>4, ZenonT(30)
  <2>3. Stage(r)'
    BY <2>2, ZenonT(30) DEF Stage
  <2>4. Queued(r)'
    BY <1>3, <2>1, ZenonT(30) DEF Queued
  <2>5. conn'[r] = conn[r] /\ connState' = connState
    BY <1>2, <1>4, ZenonT(30) DEF OnMessage, loopVars
  <2>6. Due(r)'
    BY <2>2, <2>5, SMTT(20) DEF Due
  <2> QED BY <2>3, <2>4, <2>6, ZenonT(30) DEF Answering
<1>5. ASSUME NEW l, pc' = [pc EXCEPT ![r] = l], UNCHANGED <<kind, answers, unsent, loopQ, connState>>,
             pc[r] # "new", l # "new",
             l \in {"reply", "push"} => kind[r] = "request",
             l = "done" => kind[r] = "oneway" \/ connState[conn[r]] = "Disconnected"
      PROVE  Answering(r)'
  <2>1. pc'[r] = l
    BY <1>1, <1>5, ZenonT(30)
  <2>2. Stage(r)'
    BY <1>2, <1>3, <1>5, <2>1, ZenonT(30) DEF Answering, Stage
  <2>3. Queued(r)'
    BY <1>3, <1>5, ZenonT(30) DEF Queued
  <2>4. Due(r)'
    BY <1>2, <1>5, <2>1, Zenon DEF Due
  <2> QED BY <2>2, <2>3, <2>4, ZenonT(30) DEF Answering
<1>6. pc[r] # "new" => kind[r] \in {"request", "oneway"}
  BY <1>2, Zenon DEF Answering, Stage
<1>7. ASSUME pc[r] # "new"
      PROVE  /\ AfterHandling(r) = "done" => kind[r] = "oneway"
             /\ AfterHandling(r) # "done" => AfterHandling(r) = "reply" /\ kind[r] = "request"
  BY <1>6, <1>7, ZenonT(30) DEF AfterHandling
<1>8. CASE HandleRequest(r)
  BY <1>5, <1>7, <1>8, ZenonT(30) DEF HandleRequest, GoTo, loopVars, sentVars
<1>9. CASE TryAcquire(r)
  BY <1>5, <1>7, <1>9, Zenon DEF TryAcquire, GoTo, loopVars, sentVars
<1>10. CASE Count(r) \/ HandlerDone(r) \/ ReleaseLimiter(r)
  BY <1>5, <1>10, Zenon DEF Count, HandlerDone, ReleaseLimiter, GoTo, loopVars, sentVars
<1>11. CASE Uncount(r)
  BY <1>5, <1>7, <1>11, ZenonT(30) DEF Uncount, GoTo, loopVars, sentVars
<1>12. CASE SendChecks(r)
  <2>1. kind[r] = "request" /\ connState[conn[r]] \in {"Connected", "Disconnected"}
    BY <1>12, Zenon DEF SendChecks, Answering, Stage, QueueInv
  <2> QED BY <1>5, <1>12, <2>1, Zenon DEF SendChecks, GoTo, loopVars, sentVars
<1>13. CASE SendPushes(r)
  <2>1. /\ pc'[r] = "done" /\ kind[r] = "request" /\ UNCHANGED <<kind, answers, connState>>
        /\ Post({conn[r]}, Send(r))
    BY <1>1, <1>13, ZenonT(30) DEF SendPushes, GoTo, Answering, Stage, sentVars
  <2>2. PICK n \in Nat : n = Len(loopQ[conn[r]])
    BY <1>1, <2>1, Posted, ZenonT(30)
  <2>3. /\ Len(loopQ'[conn[r]]) = n + 1 /\ loopQ'[conn[r]][n + 1] = Send(r)
        /\ \A i \in 1..n : loopQ'[conn[r]][i] = loopQ[conn[r]][i]
    <3>1. PICK d, C, f : d = conn[r] /\ C = {d} /\ f = Send(r) /\ Post(C, f)
      BY <2>1, Zenon
    <3>2. d \in Conns /\ d \in C
      BY <1>1, <3>1, ZenonT(30)
    <3>3. /\ Len(loopQ'[d]) = Len(loopQ[d]) + 1 /\ loopQ'[d][Len(loopQ[d]) + 1] = f
          /\ \A i \in 1..Len(loopQ[d]) : loopQ'[d][i] = loopQ[d][i]
      BY <3>1, <3>2, Posted, SMTT(20)
    <3>4. d = conn[r] /\ f = Send(r) /\ n = Len(loopQ[d])
      BY <2>2, <3>1, Zenon
    <3> QED BY <3>3, <3>4, ZenonT(30)
  <2>4. ASSUME NEW c \in Conns, c # conn[r] PROVE loopQ'[c] = loopQ[c]
    <3>1. PICK C, f : C = {conn[r]} /\ f = Send(r) /\ Post(C, f)
      BY <2>1, Zenon
    <3>2. c \notin C
      BY <2>4, <3>1, Zenon
    <3> QED BY <3>1, <3>2, Posted, ZenonT(30)
  <2>5. ASSUME NEW c \in Conns, NEW i \in 1..Len(loopQ'[c]), loopQ'[c][i] = Send(r)
        PROVE  c = conn[r] /\ i = n + 1
    <3>1. c = conn[r]
      BY <1>3, <2>4, <2>5, ZenonT(30)
    <3>2. i \notin 1..n
      BY <1>1, <1>3, <2>2, <2>3, <2>5, <3>1, ZenonT(30)
    <3>3. i \in (1..n) \cup {n + 1}
      BY <2>3, <2>5, <3>1, Intervals, SMTT(20)
    <3> QED BY <3>1, <3>2, <3>3, Zenon
  <2>6. n + 1 \in 1..Len(loopQ'[conn[r]])
    BY <2>3, Intervals, SMTT(20)
  <2>7. Stage(r)'
    BY <1>3, <2>1, ZenonT(30) DEF Stage
  <2>8. Queued(r)'
    BY <1>2, <1>3, <2>1, <2>5, Zenon DEF Queued
  <2>9. Due(r)'
    BY <1>2, <2>3, <2>6, Zenon DEF Due
  <2> QED BY <2>7, <2>8, <2>9, ZenonT(30) DEF Answering
<1> QED BY <1>4, <1>8, <1>9, <1>10, <1>11, <1>12, <1>13, ZenonT(30) DEF Executor

LEMMA AnswerStep == TypeOK /\ QueueInv /\ AnswerInv /\ [Next]_vars => AnswerInv'
<1> SUFFICES ASSUME TypeOK, QueueInv, AnswerInv, [Next]_vars, NEW r \in Requests
             PROVE  Answering(r)'
  BY Zenon DEF AnswerInv
<1>0. Answering(r) /\ conn \in [Requests -> Conns]
  BY Zenon DEF AnswerInv, TypeOK
<1>1. ASSUME UNCHANGED <<pc, kind, conn, answers, unsent, loopQ>>,
             connState[conn[r]] = "Disconnected" => connState'[conn[r]] = "Disconnected"
      PROVE  Answering(r)'
  BY <1>0, <1>1, StaysAnswering, ZenonT(30)
<1>2. CASE UNCHANGED vars \/ MainLoopEnds
  BY <1>1, <1>2, Zenon DEF vars, MainLoopEnds, requestVars, loopVars, sentVars
<1>3. ASSUME NEW c \in Conns, NewConnection(c) \/ Loop(c) \/ HandleClose(c) \/ Hangup(c) PROVE Answering(r)'
  <2>1. CASE NewConnection(c)
    <3>1. /\ UNCHANGED <<pc, kind, conn, answers, unsent>> /\ Post({c}, Task("established"))
          /\ connState' = [connState EXCEPT ![c] = "Connecting"] /\ connState[c] = "none"
      BY <2>1, Zenon DEF NewConnection, requestVars, sentVars
    <3>2. connState[conn[r]] = "Disconnected" => connState'[conn[r]] = "Disconnected"
      BY <1>0, <3>1, ZenonT(30) DEF TypeOK
    <3>3. Task("established") # Send(r)
      BY SendFacts, Zenon
    <3> QED BY <1>0, <3>1, <3>2, <3>3, PostAnswering, ZenonT(30)
  <2>2. CASE RunFunctor(c)
    BY <1>0, <2>2, RunAnswering, Zenon
  <2>3. CASE LoopEnds(c) \/ HangupEnds(c)
    BY <1>1, <2>3, ZenonT(30) DEF LoopEnds, HangupEnds, requestVars, sentVars
  <2>4. CASE HandleClose(c) \/ Hangup(c)
    BY <1>0, <1>1, <2>4, SMTT(20) DEF HandleClose, Hangup, requestVars, sentVars, TypeOK
  <2> QED BY <1>3, <2>1, <2>2, <2>3, <2>4, ZenonT(30) DEF Loop
<1>4. ASSUME NEW q \in Requests, OnMessage(q) \/ Executor(q) PROVE Answering(r)'
  <2>1. CASE q = r
    BY <1>0, <1>4, <2>1, OwnAnswering, ZenonT(30)
  <2>2. CASE q # r
    <3>1. UNCHANGED <<conn, connState>>
      BY <1>4, ZenonT(30) DEF OnMessage, Executor, HandleRequest, TryAcquire, Count, HandlerDone,
                  ReleaseLimiter, Uncount, SendChecks, SendPushes, loopVars
    <3>2. pc'[r] = pc[r]
      BY <1>4, <2>2, ZenonT(30) DEF OnMessage, Executor, HandleRequest, TryAcquire, Count, HandlerDone,
                        ReleaseLimiter, Uncount, SendChecks, SendPushes, GoTo, TypeOK
    <3>3. kind'[r] = kind[r] /\ answers'[r] = answers[r] /\ (r \in unsent => r \in unsent')
      <4>1. CASE OnMessage(q)
        <5>1. kind'[r] = kind[r]
          BY <2>2, <4>1, ZenonT(30) DEF OnMessage, TypeOK
        <5>2. SendInLoop(conn[q], q) \/ UNCHANGED <<answers, unsent>>
          BY <4>1, Zenon DEF OnMessage
        <5> QED BY <2>2, <5>1, <5>2, SendOutcome, ZenonT(30)
      <4>2. CASE Executor(q)
        BY <4>2, ZenonT(30) DEF Executor, HandleRequest, TryAcquire, Count, HandlerDone,
                        ReleaseLimiter, Uncount, SendChecks, SendPushes, sentVars
      <4> QED BY <1>4, <4>1, <4>2, Zenon
    <3>4. CASE loopQ' = loopQ
      BY <1>0, <3>1, <3>2, <3>3, <3>4, StaysAnswering, ZenonT(30)
    <3>5. CASE SendPushes(q)
      <4>1. Send(q) # Send(r)
        BY <2>2, SendFacts, ZenonT(30)
      <4>2. PICK C : C = {conn[q]} /\ Post(C, Send(q))
        BY <3>5, ZenonT(30) DEF SendPushes
      <4> QED BY <1>0, <3>1, <3>2, <3>3, <4>1, <4>2, PostAnswering, ZenonT(30)
    <3> QED BY <1>4, <3>4, <3>5, ZenonT(30) DEF OnMessage, Executor, HandleRequest, TryAcquire, Count,
                  HandlerDone, ReleaseLimiter, Uncount, SendChecks, loopVars
  <2> QED BY <2>1, <2>2, Zenon
<1>5. ASSUME NEW s \in Stoppers, StopGracefully(s) \/ StopThread(s) \/ StopInLoop(s)
      PROVE  Answering(r)'
  <2>1. UNCHANGED <<pc, kind, conn, answers, unsent, connState>>
    BY <1>5, Zenon DEF StopGracefully, StopThread, WaitEnds, TcpStop, QuitLoops, JoinLoops, OnDone,
                StopInLoop, requestVars, loopVars, sentVars
  <2>2. CASE loopQ' = loopQ
    BY <1>1, <2>1, <2>2, ZenonT(30)
  <2>3. ASSUME NEW C, NEW op \in {"close", "quit"}, Post(C, Task(op)) PROVE Answering(r)'
    <3>1. Task(op) # Send(r)
      BY SendFacts, Zenon
    <3> QED BY <1>0, <2>1, <2>3, <3>1, PostAnswering, ZenonT(30)
  <2>4. CASE StopInLoop(s)
    <3>1. PICK C : C = Open /\ Post(C, Task("close"))
      BY <2>4, Zenon DEF StopInLoop
    <3> QED BY <2>3, <3>1, ZenonT(30)
  <2>5. CASE QuitLoops(s)
    BY <2>3, <2>5, ZenonT(30) DEF QuitLoops
  <2> QED BY <1>5, <2>2, <2>4, <2>5, SMTT(20) DEF StopGracefully, StopThread, WaitEnds, TcpStop, JoinLoops,
                                        OnDone, loopVars
<1> QED BY <1>2, <1>3, <1>4, <1>5, Zenon DEF Next

\* onMessage, handleRequest and the done callback, for any number of messages on any
\* number of connections: a message that wants an answer gets one at most, one that
\* does not gets none, and only a close, a functor still queued, a failed write() or
\* a body that encode() refuses keeps it back.
THEOREM MessagesAnsweredOnce == Spec => []AnsweredOnce
<1>1. Init => AnswerInv
  <2> SUFFICES ASSUME Init, NEW r \in Requests PROVE Answering(r)
    BY Zenon DEF AnswerInv
  <2>1. \A c \in Conns : 1..Len(loopQ[c]) = {}
    BY DEF Init
  <2>2. pc[r] = "new" /\ kind[r] = "none" /\ answers[r] = 0
    BY Zenon DEF Init
  <2>3. Stage(r)
    BY <2>2, Zenon DEF Stage
  <2>4. Queued(r)
    BY <2>1, ZenonT(30) DEF Queued
  <2>5. Due(r)
    BY <2>2, ZenonT(30) DEF Due
  <2> QED BY <2>3, <2>4, <2>5, ZenonT(30) DEF Answering
<1>2. AnswerInv => AnsweredOnce
  <2>1. ASSUME NEW r \in Requests, Stage(r)
        PROVE  answers[r] <= IF kind[r] \in {"request", "heartbeat"} THEN 1 ELSE 0
    <3>1. answers[r] = 0 \/ (answers[r] = 1 /\ kind[r] \in {"request", "heartbeat"})
      BY <2>1, Zenon DEF Stage
    <3> QED BY <3>1, SMTT(20)
  <2> QED BY <2>1, Zenon DEF AnswerInv, Answering, AnsweredOnce, Due
<1> QED BY <1>1, <1>2, ServerTypes, QueueInit, QueueStep, AnswerStep, PTL DEF Spec
==============================================================================
