----------------------- MODULE RpcClusterChannelProofs -----------------------
(***************************************************************************)
(* Proofs about RpcClusterChannel: one completion, the bounds on requests  *)
(* and retries, and that a success is real, for any number of calls,       *)
(* instances, attempts and tokens.                                         *)
(***************************************************************************)
EXTENDS RpcClusterChannel, FiniteSetTheorems, TLAPS

Primary(c) == <<c, "primary">>
Backup(c) == <<c, "backup">>

\* Where a chain has not yet handed the attempt's request to a channel.
Before == {"idle", "timer", "attempt", "usable", "admitted", "unusable"}

\* What attemptOnce has decided when it has taken its snapshot.
Aimed == {"usable", "admitted", "unusable"}

\* The part of the state the proofs speak of is typed.
Types ==
    /\ tokens \in 0..Tokens /\ retries \in Nat
    /\ pc \in [Chains -> Pcs]
    /\ attempt \in [Chains -> Nat \ {0}]
    /\ status \in [Calls -> {"ok", "unknown", "error"}]
    /\ completed \in [Calls -> BOOLEAN]
    /\ returned \in [Calls -> {"no", "true", "false"}]
    /\ doneCount \in [Calls -> Nat]
    /\ sent \in [Chains -> Nat]
    /\ answered \subseteq Calls
    /\ idempotent \subseteq Calls

\* done() ran if and only if the flag is set, and a chain ends only then.
Finished ==
    /\ \A c \in Calls : doneCount[c] = IF completed[c] THEN 1 ELSE 0
    /\ \A ch \in Chains : pc[ch] \in Over => completed[ch[1]]

\* The attempts and requests of a chain.
Counted(ch) ==
    /\ attempt[ch] <= MaxAttempts
    /\ pc[ch] = "backoff" => attempt[ch] < MaxAttempts /\ ch[1] \in idempotent
    /\ pc[ch] \in {"idle", "timer"} => attempt[ch] = 1
    /\ sent[ch] <= IF pc[ch] \in Before THEN attempt[ch] - 1 ELSE attempt[ch]
    /\ ch[1] \notin idempotent => attempt[ch] = 1

\* The backup is started once, by the first attempt of a call that may hedge.
Hedged(c) ==
    /\ pc[Backup(c)] # "idle" => Hedging /\ c \in idempotent
    /\ pc[Primary(c)] \in {"idle", "attempt"} /\ attempt[Primary(c)] = 1 => pc[Backup(c)] = "idle"

Sends == (\A ch \in Chains : Counted(ch)) /\ (\A c \in Calls : Hedged(c))

Succeeded == {ch \in Chains : pc[ch] = "succeeded"}

\* Tokens are conserved, but for the refunds of chains that succeeded.
Budget == retries + tokens <= Tokens + Cardinality(Succeeded)

\* While a call nobody answered still has its initial status, nothing of it is over.
Untouched(c) ==
    /\ ~completed[c]
    /\ \A s \in Sides : pc[<<c, s>>] \in Before \cup {"sent"} /\ attempt[<<c, s>>] = 1

Real ==
    \A c \in Calls \ answered :
        /\ status[c] = "ok" => Untouched(c)
        /\ c \in timed => returned[c] # "true"

IInv == Types /\ Finished /\ Sends /\ Budget /\ Real

-----------------------------------------------------------------------------
(* What the steps do *)

LEMMA Increments == \A n \in Nat : n + 1 \in Nat /\ (n # 0 => n + 1 # 1)
OBVIOUS

LEMMA PlaceMoves ==
    \A f \in [Chains -> Pcs], ch \in Chains, l \in Pcs : [f EXCEPT ![ch] = l] \in [Chains -> Pcs]
BY Zenon

\* RetryBudget::onSuccess gives back no more than the capacity.
LEMMA RefundBounded == ASSUME tokens \in 0..Tokens PROVE Refunded \in 0..Tokens
BY ClusterAssumption DEF Refunded

LEMMA ChainFacts ==
    /\ \A ch \in Chains : ch[1] \in Calls /\ ch[2] \in Sides /\ ch = <<ch[1], ch[2]>>
    /\ \A c \in Calls : /\ Primary(c) \in Chains /\ Backup(c) \in Chains /\ Primary(c) # Backup(c)
                        /\ Primary(c)[1] = c /\ Backup(c)[1] = c
    /\ \A c \in Calls, s \in Sides : <<c, s>> \in Chains /\ <<c, s>>[1] = c
    /\ \A ch \in Chains : ch = Primary(ch[1]) \/ ch = Backup(ch[1])
  BY DEF Chains, Sides, Primary, Backup

\* Only finitely many chains exist.
LEMMA FiniteChains == IsFiniteSet(Chains)
<1>1. IsFiniteSet(Sides)
  <2>1. IsFiniteSet({} \cup {"primary"})
    BY FS_EmptySet, FS_AddElement, Zenon
  <2>2. IsFiniteSet(({} \cup {"primary"}) \cup {"backup"})
    BY <2>1, FS_AddElement, Zenon
  <2>3. Sides = ({} \cup {"primary"}) \cup {"backup"}
    BY Zenon DEF Sides
  <2> QED BY <2>2, <2>3, Zenon
<1> QED BY <1>1, ClusterAssumption, FS_Product, Zenon DEF Chains

\* attemptOnce aims its chain, and may start the hedge timer of its call.
LEMMA SnapshotAims ==
    ASSUME NEW ch \in Chains, Snapshot(ch)
    PROVE  \E l \in Aimed :
               \/ pc' = [pc EXCEPT ![ch] = l]
               \/ /\ Hedging /\ ch = Primary(ch[1]) /\ attempt[ch] = 1 /\ ch[1] \in idempotent
                  /\ pc' = [pc EXCEPT ![ch] = l, ![Backup(ch[1])] = "timer"]
<1> DEFINE n == Len(instances)
<1>1. PICK healthy \in SUBSET ((1..n) \ Excluded(ch)) : \E idx \in Picks(healthy, n), l \in Aimed :
          IF MayHedge(ch, idx) THEN pc' = [pc EXCEPT ![ch] = l, ![<<ch[1], "backup">>] = "timer"]
          ELSE pc' = [pc EXCEPT ![ch] = l]
  BY Zenon DEF Snapshot, Aimed, Goto
<1>2. PICK idx \in Picks(healthy, n), l \in Aimed :
          IF MayHedge(ch, idx) THEN pc' = [pc EXCEPT ![ch] = l, ![<<ch[1], "backup">>] = "timer"]
          ELSE pc' = [pc EXCEPT ![ch] = l]
  BY <1>1, Zenon
<1>3. CASE MayHedge(ch, idx)
  <2>1. Hedging /\ ch[2] = "primary" /\ attempt[ch] = 1 /\ ch[1] \in idempotent
    BY <1>3, Zenon DEF MayHedge
  <2>2. ch = Primary(ch[1])
    BY <2>1, ChainFacts, Zenon DEF Primary
  <2> QED BY <1>2, <1>3, <2>1, <2>2, Zenon DEF Backup
<1>4. CASE ~MayHedge(ch, idx)
  BY <1>2, <1>4, Zenon
<1> QED BY <1>3, <1>4, Zenon

\* sharedDone sets the flag of its call and counts the first time.
LEMMA SharedDoneEffect ==
    ASSUME Types, NEW c \in Calls, SharedDone(c)
    PROVE  /\ completed' \in [Calls -> BOOLEAN] /\ doneCount' \in [Calls -> Nat]
           /\ completed'[c]
           /\ doneCount'[c] = IF completed[c] THEN doneCount[c] ELSE doneCount[c] + 1
           /\ \A d \in Calls \ {c} : completed'[d] = completed[d]
           /\ \A d \in Calls \ {c} : doneCount'[d] = doneCount[d]
<1>1. completed' = [completed EXCEPT ![c] = TRUE] /\ completed \in [Calls -> BOOLEAN]
  BY Zenon DEF SharedDone, Types
<1>2. doneCount' = [doneCount EXCEPT ![c] = IF completed[c] THEN @ ELSE @ + 1]
      /\ doneCount \in [Calls -> Nat]
  BY Zenon DEF SharedDone, Types
<1>3. completed' \in [Calls -> BOOLEAN] /\ completed'[c]
      /\ \A d \in Calls \ {c} : completed'[d] = completed[d]
  BY <1>1, Zenon
<1>4. /\ doneCount' \in [Calls -> Nat]
      /\ doneCount'[c] = IF completed[c] THEN doneCount[c] ELSE doneCount[c] + 1
      /\ \A d \in Calls \ {c} : doneCount'[d] = doneCount[d]
  <2>1. CASE completed[c]
    BY <1>2, <2>1, Zenon
  <2>2. CASE ~completed[c]
    <3>1. doneCount' = [doneCount EXCEPT ![c] = doneCount[c] + 1] /\ doneCount[c] \in Nat
      BY <1>2, <2>2, Zenon
    <3> QED BY <1>2, <2>2, <3>1, SMTT(20)
  <2> QED BY <2>1, <2>2, Zenon
<1> QED BY <1>3, <1>4, Zenon

\* The steps that leave alone all the proofs speak of.
Elsewhere ==
    UNCHANGED <<setUp, budgetVars, chainVars, status, completed, returned, doneCount, sent, answered>>

\* The steps, one by one.
LEMMA Steps ==
    ASSUME [Next]_vars
    PROVE  \/ Elsewhere
           \/ \E c \in Calls : CallAsync(c) \/ HedgeTimer(c) \/ CallReturns(c)
           \/ \E ch \in Chains : ChainStep(ch)
<1>1. CASE UNCHANGED vars
  BY <1>1, Zenon DEF vars, Elsewhere
<1>2. CASE \E i \in Instances : AddInstance(i) \/ RemoveInstance(i)
  BY <1>2, Zenon DEF AddInstance, RemoveInstance, Elsewhere
<1> QED BY <1>1, <1>2, Zenon DEF Next

\* Whether a call has a timeout is the caller's choice.
LEMMA TimedKept == ASSUME [Next]_vars PROVE timed' = timed
<1>1. CASE Elsewhere
  BY <1>1, Zenon DEF Elsewhere, setUp
<1>2. CASE \E c \in Calls : CallAsync(c) \/ HedgeTimer(c) \/ CallReturns(c)
  BY <1>2, ZenonT(30) DEF CallAsync, HedgeTimer, CallReturns, setUp
<1>3. CASE \E ch \in Chains : ChainStep(ch)
  BY <1>3, SMTT(20) DEF ChainStep, Snapshot, FailFast, Send, ChannelCompletes, WrappedDone, MaybeRetry,
              BackoffOver, setUp
<1> QED BY <1>1, <1>2, <1>3, Steps, Zenon

-----------------------------------------------------------------------------
(* Types *)

LEMMA TypesStep ==
    ASSUME Types, [Next]_vars
    PROVE  Types'
<1> USE DEF Types, Goto, setUp, budgetVars, chainVars
<1>1. CASE Elsewhere
  BY <1>1, Zenon DEF Elsewhere
<1>2. ASSUME NEW c \in Calls, CallAsync(c) \/ HedgeTimer(c) \/ CallReturns(c) PROVE Types'
  <2>1. CASE CallAsync(c)
    BY <2>1, Zenon DEF CallAsync, Pcs
  <2>2. CASE HedgeTimer(c)
    BY <2>2, Zenon DEF HedgeTimer, Pcs
  <2>3. CASE CallReturns(c)
    BY <2>3, ZenonT(30) DEF CallReturns
  <2> QED BY <1>2, <2>1, <2>2, <2>3, Zenon
<1>3. ASSUME NEW ch \in Chains, ChainStep(ch) PROVE Types'
  <2> USE ChainFacts
  <2>1. CASE Snapshot(ch)
    <3>1. pc' \in [Chains -> Pcs]
      <4>1. PICK l \in Aimed :
                pc' = [pc EXCEPT ![ch] = l] \/ pc' = [pc EXCEPT ![ch] = l, ![Backup(ch[1])] = "timer"]
        BY <2>1, SnapshotAims, SMTT(20)
      <4>2. l \in Pcs /\ "timer" \in Pcs /\ Backup(ch[1]) \in Chains
        BY Zenon DEF Pcs, Aimed
      <4>3. PICK f \in [Chains -> Pcs] : f = [pc EXCEPT ![ch] = l]
        BY <4>2, Zenon
      <4>4. pc' = f \/ pc' = [f EXCEPT ![Backup(ch[1])] = "timer"]
        BY <4>1, <4>3, ZenonT(30)
      <4>5. [f EXCEPT ![Backup(ch[1])] = "timer"] \in [Chains -> Pcs]
        BY <4>2, PlaceMoves, Zenon
      <4> QED BY <4>4, <4>5, Zenon
    <3> QED BY <2>1, <3>1, Zenon DEF Snapshot
  <2>2. CASE FailFast(ch)
    BY <2>2, ZenonT(30) DEF FailFast, FailCall, SetStatus, Pcs
  <2>3. CASE Send(ch)
    <3>1. sent' \in [Chains -> Nat]
      <4>1. sent' = [sent EXCEPT ![ch] = sent[ch] + 1] /\ sent[ch] \in Nat
        BY <2>3, Zenon DEF Send
      <4> QED BY <4>1, Increments, Zenon
    <3>2. PICK l \in {"sent", "wrapped"} :
              /\ pc' = [pc EXCEPT ![ch] = l]
              /\ status' = status \/ status' = [status EXCEPT ![ch[1]] = "unknown"]
      BY <2>3, Zenon DEF Send, SetStatus
    <3>3. pc' \in [Chains -> Pcs] /\ status' \in [Calls -> {"ok", "unknown", "error"}]
      <4>1. l \in Pcs /\ ch[1] \in Calls
        BY Zenon DEF Pcs
      <4>2. [status EXCEPT ![ch[1]] = "unknown"] \in [Calls -> {"ok", "unknown", "error"}]
        BY <4>1, Zenon
      <4>3. [pc EXCEPT ![ch] = l] \in [Chains -> Pcs]
        BY <4>1, PlaceMoves, Zenon
      <4>4. pc' \in [Chains -> Pcs]
        BY <3>2, <4>3, Zenon
      <4>5. status' \in [Calls -> {"ok", "unknown", "error"}]
        BY <3>2, <4>2, Zenon
      <4> QED BY <4>4, <4>5, Zenon
    <3>4. UNCHANGED <<tokens, retries, attempt, completed, returned, doneCount, answered, idempotent>>
      BY <2>3, Zenon DEF Send
    <3> QED BY <3>1, <3>3, <3>4, Zenon
  <2>4. CASE ChannelCompletes(ch)
    <3>1. PICK r \in {"ok", "unknown", "error"} :
              /\ status' = [status EXCEPT ![ch[1]] = r]
              /\ answered' = IF r = "ok" THEN answered \cup {ch[1]} ELSE answered
      BY <2>4, Zenon DEF ChannelCompletes, SetStatus
    <3> QED BY <2>4, <3>1 DEF ChannelCompletes, Pcs
  <2>5. CASE WrappedDone(ch)
    <3>1. CASE status[ch[1]] = "ok"
      <4>1. completed' \in [Calls -> BOOLEAN] /\ doneCount' \in [Calls -> Nat]
        BY <2>5, <3>1, SharedDoneEffect, Zenon DEF WrappedDone
      <4>2. tokens' \in 0..Tokens /\ pc' \in [Chains -> Pcs]
        <5>1. tokens' = Refunded /\ pc' = [pc EXCEPT ![ch] = "succeeded"]
          BY <2>5, <3>1, Zenon DEF WrappedDone
        <5>2. Refunded \in 0..Tokens
          BY RefundBounded, Zenon
        <5> QED BY <5>1, <5>2, Zenon DEF Pcs
      <4>3. UNCHANGED <<retries, attempt, status, returned, sent, answered, idempotent>>
        BY <2>5, Zenon DEF WrappedDone
      <4> QED BY <4>1, <4>2, <4>3, Zenon
    <3>2. CASE status[ch[1]] # "ok"
      <4>1. UNCHANGED <<tokens, completed, doneCount>> /\ pc' = [pc EXCEPT ![ch] = "decide"]
        BY <2>5, <3>2, Zenon DEF WrappedDone
      <4> QED BY <2>5, <4>1, Zenon DEF WrappedDone, Pcs
    <3> QED BY <3>1, <3>2, Zenon
  <2>6. CASE MaybeRetry(ch)
    <3>1. CASE Goto(ch, "backoff") /\ TryConsume /\ UNCHANGED <<completed, doneCount>>
      BY <2>6, <3>1, ClusterAssumption DEF MaybeRetry, TryConsume, Pcs
    <3>2. CASE SharedDone(ch[1]) /\ Goto(ch, "ended") /\ UNCHANGED budgetVars
      <4>1. completed' \in [Calls -> BOOLEAN] /\ doneCount' \in [Calls -> Nat]
        BY <3>2, SharedDoneEffect, Zenon
      <4> QED BY <2>6, <3>2, <4>1, Zenon DEF MaybeRetry, Pcs
    <3> QED BY <2>6, <3>1, <3>2, ZenonT(30) DEF MaybeRetry
  <2>7. CASE BackoffOver(ch)
    BY <2>7, SMTT(20) DEF BackoffOver, Pcs
  <2> QED BY <1>3, <2>1, <2>2, <2>3, <2>4, <2>5, <2>6, <2>7, SMTT(20) DEF ChainStep
<1> QED BY <1>1, <1>2, <1>3, Steps, Zenon

-----------------------------------------------------------------------------
(* One completion *)

\* sharedDone of a chain that ends keeps the two in step.
LEMMA SharedDoneFinishes ==
    ASSUME Types, Finished, NEW ch \in Chains, NEW l \in Over,
           SharedDone(ch[1]), Goto(ch, l)
    PROVE  Finished'
<1> USE ChainFacts
<1>1. \A c \in Calls : doneCount'[c] = IF completed'[c] THEN 1 ELSE 0
  <2> SUFFICES ASSUME NEW c \in Calls PROVE doneCount'[c] = IF completed'[c] THEN 1 ELSE 0
    BY Zenon
  <2>1. doneCount[c] = IF completed[c] THEN 1 ELSE 0
    BY ZenonT(30) DEF Finished
  <2>2. CASE c = ch[1]
    BY <2>1, <2>2, SharedDoneEffect, SMTT(20)
  <2>3. CASE c # ch[1]
    BY <2>1, <2>3, SharedDoneEffect
  <2> QED BY <2>2, <2>3, Zenon
<1>2. \A d \in Chains : pc'[d] \in Over => completed'[d[1]]
  <2> SUFFICES ASSUME NEW d \in Chains, pc'[d] \in Over PROVE completed'[d[1]]
    BY Zenon
  <2>1. CASE d[1] = ch[1]
    BY <2>1, SharedDoneEffect, Zenon
  <2>2. CASE d[1] # ch[1]
    <3>1. pc[d] \in Over
      BY <2>2, Zenon DEF Goto, Types
    <3> QED BY <2>2, <3>1, SharedDoneEffect, SMTT(20) DEF Finished
  <2> QED BY <2>1, <2>2, Zenon
<1> QED BY <1>1, <1>2, Zenon DEF Finished

\* A step that neither ends a chain nor touches the flags.
LEMMA FinishedKept ==
    ASSUME Finished, UNCHANGED <<completed, doneCount>>,
           \A d \in Chains : pc'[d] \in Over => pc[d] \in Over
    PROVE  Finished'
  BY Zenon DEF Finished

LEMMA FinishedStep ==
    ASSUME Types, Finished, [Next]_vars
    PROVE  Finished'
<1> USE ChainFacts
<1>1. CASE Elsewhere
  BY <1>1, Zenon DEF Elsewhere, Finished, chainVars
<1>2. ASSUME NEW c \in Calls, CallAsync(c) \/ HedgeTimer(c) \/ CallReturns(c) PROVE Finished'
  <2>1. CASE CallAsync(c)
    BY <2>1, FinishedKept, ZenonT(30) DEF CallAsync, Goto, Types, Over
  <2>2. CASE HedgeTimer(c) /\ completed[c]
    <3>1. UNCHANGED <<completed, doneCount>> /\ pc' = [pc EXCEPT ![Backup(c)] = "ended"]
      BY <2>2, Zenon DEF HedgeTimer, Goto, Backup
    <3>2. \A d \in Chains : pc'[d] \in Over => pc[d] \in Over \/ d[1] = c
      BY <3>1, Zenon DEF Types
    <3> QED BY <2>2, <3>1, <3>2 DEF Finished
  <2>3. CASE HedgeTimer(c) /\ ~completed[c]
    <3>1. UNCHANGED <<completed, doneCount>> /\ pc' = [pc EXCEPT ![Backup(c)] = "attempt"]
      BY <2>3, Zenon DEF HedgeTimer, Goto, Backup
    <3> QED BY <3>1, FinishedKept, ZenonT(30) DEF Types, Over
  <2>4. CASE CallReturns(c)
    BY <2>4, FinishedKept, ZenonT(30) DEF CallReturns, chainVars
  <2> QED BY <1>2, <2>1, <2>2, <2>3, <2>4, Zenon
<1>3. ASSUME NEW ch \in Chains, ChainStep(ch) PROVE Finished'
  <2>1. CASE Snapshot(ch)
    <3>1. PICK l \in Aimed :
              pc' = [pc EXCEPT ![ch] = l] \/ pc' = [pc EXCEPT ![ch] = l, ![Backup(ch[1])] = "timer"]
      BY <2>1, SnapshotAims, SMTT(20)
    <3>2. \A d \in Chains : pc'[d] \in Over => pc[d] \in Over
      BY <3>1, SMTT(20) DEF Aimed, Over, Types
    <3> QED BY <2>1, <3>2, FinishedKept, ZenonT(30) DEF Snapshot
  <2>2. CASE FailFast(ch)
    BY <2>2, FinishedKept, SMTT(20) DEF FailFast, Goto, Types, Over
  <2>3. CASE Send(ch)
    BY <2>3, FinishedKept, SMTT(20) DEF Send, Goto, Types, Over
  <2>4. CASE ChannelCompletes(ch)
    BY <2>4, FinishedKept, ZenonT(30) DEF ChannelCompletes, Goto, Types, Over
  <2>5. CASE WrappedDone(ch)
    <3>1. CASE status[ch[1]] = "ok"
      BY <2>5, <3>1, SharedDoneFinishes, Zenon DEF WrappedDone, Over
    <3>2. CASE status[ch[1]] # "ok"
      BY <2>5, <3>2, FinishedKept, SMTT(20) DEF WrappedDone, Goto, Types, Over
    <3> QED BY <3>1, <3>2, Zenon
  <2>6. CASE MaybeRetry(ch)
    <3>1. CASE Goto(ch, "backoff") /\ UNCHANGED <<completed, doneCount>>
      BY <3>1, FinishedKept, ZenonT(30) DEF Goto, Types, Over
    <3>2. CASE SharedDone(ch[1]) /\ Goto(ch, "ended")
      BY <3>2, SharedDoneFinishes, Zenon DEF Over
    <3> QED BY <2>6, <3>1, <3>2, ZenonT(30) DEF MaybeRetry
  <2>7. CASE BackoffOver(ch)
    BY <2>7, FinishedKept, ZenonT(30) DEF BackoffOver, Goto, Types, Over
  <2> QED BY <1>3, <2>1, <2>2, <2>3, <2>4, <2>5, <2>6, <2>7, ZenonT(30) DEF ChainStep
<1> QED BY <1>1, <1>2, <1>3, Steps, ZenonT(30)

-----------------------------------------------------------------------------
(* The bounds on requests *)

\* A step that moves one chain disturbs the counts of that chain and the hedge
\* of its call.
LEMMA SendsLocal ==
    ASSUME Sends, NEW ch \in Chains, UNCHANGED idempotent,
           \A d \in Chains \ {ch} :
               pc'[d] = pc[d] /\ attempt'[d] = attempt[d] /\ sent'[d] = sent[d],
           Counted(ch)', Hedged(ch[1])'
    PROVE  Sends'
<1> USE ChainFacts
<1>1. ASSUME NEW d \in Chains PROVE Counted(d)'
  <2>1. CASE d = ch
    BY <2>1, Zenon
  <2>2. CASE d # ch
    BY <2>2, ZenonT(30) DEF Sends, Counted
  <2> QED BY <2>1, <2>2, Zenon
<1>2. ASSUME NEW c \in Calls PROVE Hedged(c)'
  <2>1. CASE c = ch[1]
    BY <2>1, Zenon
  <2>2. CASE c # ch[1]
    BY <2>2 DEF Sends, Hedged
  <2> QED BY <2>1, <2>2, Zenon
<1> QED BY <1>1, <1>2, ZenonT(30) DEF Sends

\* As long as the attempt and the requests of the chain stay as they are, it may
\* move to any place behind the one it is at.
LEMMA SendsMoved ==
    ASSUME Types, Sends, NEW ch \in Chains, NEW l \in Pcs \ {"idle", "timer", "backoff"},
           pc' = [pc EXCEPT ![ch] = l], UNCHANGED <<attempt, sent, idempotent>>,
           l \in Before => pc[ch] \in Before,
           ch = Primary(ch[1]) /\ l = "attempt" => pc[ch] = "idle",
           ch = Backup(ch[1]) => pc[ch] # "idle"
    PROVE  Sends'
<1> USE ChainFacts
<1>1. Counted(ch) /\ Hedged(ch[1]) /\ pc'[ch] = l
  BY Zenon DEF Sends, Types
<1>2. attempt[ch] \in Nat /\ sent[ch] \in Nat
  BY Zenon DEF Types
<1>3. Counted(ch)'
  BY <1>1, <1>2 DEF Counted
<1>4. Hedged(ch[1])'
  <2>1. CASE ch = Primary(ch[1])
    BY <1>1, <2>1, Zenon DEF Hedged, Types, Counted
  <2>2. CASE ch = Backup(ch[1])
    BY <1>1, <2>2, Zenon DEF Hedged, Types
  <2> QED BY <2>1, <2>2, Zenon
<1> QED BY <1>3, <1>4, SendsLocal, Zenon DEF Types

\* attemptOnce that starts the hedge timer finds the backup idle.
LEMMA SendsHedge ==
    ASSUME Types, Sends, NEW c \in Calls, NEW l \in Aimed,
           pc[Primary(c)] = "attempt", attempt[Primary(c)] = 1, Hedging, c \in idempotent,
           pc' = [pc EXCEPT ![Primary(c)] = l, ![Backup(c)] = "timer"],
           UNCHANGED <<attempt, sent, idempotent>>
    PROVE  Sends'
<1> USE ChainFacts
<1>1. Counted(Primary(c)) /\ Counted(Backup(c)) /\ Hedged(c)
  BY Zenon DEF Sends
<1>2. pc[Backup(c)] = "idle" /\ attempt[Backup(c)] = 1
  BY <1>1, ZenonT(30) DEF Hedged, Counted
<1>3. /\ pc'[Primary(c)] = l /\ pc'[Backup(c)] = "timer"
      /\ \A d \in Chains : d[1] # c => pc'[d] = pc[d]
  BY DEF Types
<1>4. sent[Primary(c)] \in Nat /\ sent[Backup(c)] \in Nat
  BY Zenon DEF Types
<1>5. Counted(Primary(c))'
  BY <1>1, <1>3, <1>4, Zenon DEF Counted, Aimed, Before
<1>6. Counted(Backup(c))'
  BY <1>1, <1>2, <1>3, <1>4, Zenon DEF Counted, Before
<1>7. Hedged(c)'
  BY <1>3, Zenon DEF Hedged, Aimed
<1>8. ASSUME NEW d \in Chains PROVE Counted(d)'
  <2>1. CASE d[1] = c
    BY <2>1, <1>5, <1>6, ZenonT(30)
  <2>2. CASE d[1] # c
    BY <2>2, <1>3, Zenon DEF Sends, Counted
  <2> QED BY <2>1, <2>2, Zenon
<1>9. ASSUME NEW d \in Calls PROVE Hedged(d)'
  <2>1. CASE d = c
    BY <2>1, <1>7, Zenon
  <2>2. CASE d # c
    <3>1. Hedged(d) /\ pc'[Primary(d)] = pc[Primary(d)] /\ pc'[Backup(d)] = pc[Backup(d)]
      BY <2>2, <1>3, ZenonT(30) DEF Sends
    <3> QED BY <3>1, Zenon DEF Hedged
  <2> QED BY <2>1, <2>2, Zenon
<1> QED BY <1>8, <1>9, Zenon DEF Sends

LEMMA SendsStep ==
    ASSUME Types, Sends, [Next]_vars
    PROVE  Sends'
<1> USE ChainFacts
<1>1. CASE Elsewhere
  BY <1>1, Zenon DEF Elsewhere, Sends, Counted, Hedged, chainVars, setUp
<1>2. ASSUME NEW c \in Calls, CallAsync(c) \/ HedgeTimer(c) \/ CallReturns(c) PROVE Sends'
  <2>1. CASE CallAsync(c)
    BY <2>1, SendsMoved, Zenon DEF CallAsync, Goto, setUp, Pcs, Before, Primary
  <2>2. CASE HedgeTimer(c)
    <3>1. PICK l \in {"attempt", "ended"} : pc' = [pc EXCEPT ![Backup(c)] = l]
      BY <2>2, Zenon DEF HedgeTimer, Goto, Backup
    <3>2. pc[Backup(c)] = "timer" /\ UNCHANGED <<attempt, sent, idempotent>>
      BY <2>2, Zenon DEF HedgeTimer, Backup, setUp
    <3>3. l \in Pcs \ {"idle", "timer", "backoff"} /\ pc[Backup(c)] \in Before
      BY <3>2, Zenon DEF Pcs, Before
    <3>4. /\ Backup(c) \in Chains
          /\ Backup(c) # Primary(Backup(c)[1]) /\ pc[Backup(c)] # "idle"
      BY <3>2, Zenon
    <3> QED BY <3>1, <3>2, <3>3, <3>4, SendsMoved, Zenon
  <2>3. CASE CallReturns(c)
    BY <2>3, Zenon DEF CallReturns, Sends, Counted, Hedged, chainVars, setUp
  <2> QED BY <1>2, <2>1, <2>2, <2>3, ZenonT(30)
<1>3. ASSUME NEW ch \in Chains, ChainStep(ch) PROVE Sends'
  <2>1. CASE Snapshot(ch)
    <3>1. pc[ch] = "attempt" /\ UNCHANGED <<attempt, sent, idempotent>>
      BY <2>1, Zenon DEF Snapshot, setUp
    <3>2. PICK l \in Aimed :
               \/ pc' = [pc EXCEPT ![ch] = l]
               \/ /\ Hedging /\ ch = Primary(ch[1]) /\ attempt[ch] = 1 /\ ch[1] \in idempotent
                  /\ pc' = [pc EXCEPT ![ch] = l, ![Backup(ch[1])] = "timer"]
      BY <2>1, SnapshotAims, Zenon
    <3>3. CASE pc' = [pc EXCEPT ![ch] = l]
      BY <3>1, <3>3, SendsMoved, Zenon DEF Aimed, Pcs, Before
    <3>4. CASE pc' # [pc EXCEPT ![ch] = l]
      BY <3>1, <3>2, <3>4, SendsHedge, SMTT(20)
    <3> QED BY <3>3, <3>4, Zenon
  <2>2. CASE FailFast(ch)
    BY <2>2, SendsMoved, Zenon DEF FailFast, Goto, setUp, Pcs, Before
  <2>3. CASE Send(ch)
    <3>1. PICK l \in {"sent", "wrapped"} : pc' = [pc EXCEPT ![ch] = l]
      BY <2>3, Zenon DEF Send, Goto
    <3>2. /\ pc[ch] \in {"usable", "admitted"} /\ sent' = [sent EXCEPT ![ch] = @ + 1]
          /\ UNCHANGED <<attempt, idempotent>>
      BY <2>3, Zenon DEF Send, setUp
    <3>3. Counted(ch) /\ Hedged(ch[1]) /\ pc'[ch] = l /\ sent'[ch] = sent[ch] + 1
      BY <3>1, <3>2, SMTT(20) DEF Sends, Types
    <3>4. Counted(ch)'
      BY <3>2, <3>3, SMTT(20) DEF Counted, Before, Types
    <3>5. Hedged(ch[1])'
      BY <3>1, <3>2, <3>3, SMTT(20) DEF Hedged, Types
    <3> QED BY <3>1, <3>2, <3>4, <3>5, SendsLocal, ZenonT(30) DEF Types
  <2>4. CASE ChannelCompletes(ch)
    BY <2>4, SendsMoved, Zenon DEF ChannelCompletes, Goto, setUp, Pcs, Before
  <2>5. CASE WrappedDone(ch)
    <3>1. PICK l \in {"succeeded", "decide"} : pc' = [pc EXCEPT ![ch] = l]
      BY <2>5, Zenon DEF WrappedDone, Goto
    <3>2. pc[ch] = "wrapped" /\ UNCHANGED <<attempt, sent, idempotent>>
      BY <2>5, Zenon DEF WrappedDone, setUp
    <3> QED BY <3>1, <3>2, SendsMoved, Zenon DEF Pcs, Before
  <2>6. CASE MaybeRetry(ch)
    <3>1. pc[ch] = "decide" /\ UNCHANGED <<attempt, sent, idempotent>>
      BY <2>6, Zenon DEF MaybeRetry, setUp
    <3>2. CASE Goto(ch, "ended")
      BY <3>1, <3>2, SendsMoved, Zenon DEF Goto, Pcs, Before
    <3>3. CASE ShouldRetry(ch[1], attempt[ch]) /\ Goto(ch, "backoff")
      <4>1. Counted(ch) /\ Hedged(ch[1]) /\ pc' = [pc EXCEPT ![ch] = "backoff"] /\ pc'[ch] = "backoff"
        BY <3>3, ZenonT(30) DEF Sends, Types, Goto
      <4>2. Counted(ch)'
        BY <3>1, <3>3, <4>1, Zenon DEF Counted, ShouldRetry, Before
      <4>3. Hedged(ch[1])'
        BY <3>1, <4>1 DEF Hedged, Types
      <4> QED BY <3>1, <4>1, <4>2, <4>3, SendsLocal, ZenonT(30) DEF Types
    <3> QED BY <2>6, <3>2, <3>3, Zenon DEF MaybeRetry
  <2>7. CASE BackoffOver(ch)
    <3>1. /\ pc[ch] = "backoff" /\ pc' = [pc EXCEPT ![ch] = "attempt"]
          /\ attempt' = [attempt EXCEPT ![ch] = @ + 1] /\ UNCHANGED <<sent, idempotent>>
      BY <2>7, Zenon DEF BackoffOver, Goto, setUp
    <3>2. /\ Counted(ch) /\ Hedged(ch[1]) /\ pc'[ch] = "attempt" /\ attempt'[ch] = attempt[ch] + 1
          /\ attempt[ch] \in Nat \ {0} /\ sent[ch] \in Nat
      BY <3>1, SMTT(20) DEF Sends, Types
    <3>3. Counted(ch)'
      BY <3>1, <3>2, ClusterAssumption DEF Counted, Before
    <3>4. Hedged(ch[1])'
      <4>1. attempt'[ch] # 1
        BY <3>2, Increments, Zenon
      <4>2. CASE ch = Primary(ch[1])
        BY <3>1, <3>2, <4>1, <4>2, Zenon DEF Hedged, Types
      <4>3. CASE ch = Backup(ch[1])
        <5>1. /\ pc'[Primary(ch[1])] = pc[Primary(ch[1])]
              /\ attempt'[Primary(ch[1])] = attempt[Primary(ch[1])]
          BY <3>1, <4>3, Zenon DEF Types
        <5>2. pc[Backup(ch[1])] # "idle"
          BY <3>1, <4>3, Zenon
        <5> QED BY <3>1, <3>2, <5>1, <5>2, ZenonT(30) DEF Hedged
      <4> QED BY <4>2, <4>3, Zenon
    <3> QED BY <3>1, <3>3, <3>4, SendsLocal, Zenon DEF Types
  <2> QED BY <1>3, <2>1, <2>2, <2>3, <2>4, <2>5, <2>6, <2>7, ZenonT(30) DEF ChainStep
<1> QED BY <1>1, <1>2, <1>3, Steps, Zenon

-----------------------------------------------------------------------------
(* The retry budget *)

\* A step that leaves the budget alone, and by which no chain succeeds.
LEMMA BudgetKept ==
    ASSUME Budget, UNCHANGED <<tokens, retries>>,
           \A d \in Chains : pc'[d] = "succeeded" <=> pc[d] = "succeeded"
    PROVE  Budget'
<1>1. Succeeded' = Succeeded
  BY Zenon DEF Succeeded
<1> QED BY <1>1, Zenon DEF Budget

\* The count of the chains that succeeded, when one more does.
LEMMA OneMore ==
    ASSUME Types, NEW ch \in Chains, pc[ch] # "succeeded",
           pc' = [pc EXCEPT ![ch] = "succeeded"]
    PROVE  /\ Cardinality(Succeeded) \in Nat
           /\ Cardinality(Succeeded)' = Cardinality(Succeeded) + 1
<1>1. IsFiniteSet(Succeeded)
  BY FiniteChains, FS_Subset, Zenon DEF Succeeded
<1>2. Succeeded' = Succeeded \cup {ch} /\ ch \notin Succeeded
  BY Zenon DEF Succeeded, Types
<1> HIDE DEF Succeeded
<1>3. Cardinality(Succeeded \cup {ch}) = Cardinality(Succeeded) + 1
  BY <1>1, <1>2, FS_AddElement, Zenon
<1> QED BY <1>1, <1>2, <1>3, FS_CardinalityType, Zenon

LEMMA BudgetStep ==
    ASSUME Types, Sends, Budget, [Next]_vars
    PROVE  Budget'
<1> USE ChainFacts
<1>1. CASE Elsewhere
  BY <1>1, BudgetKept, Zenon DEF Elsewhere, chainVars, budgetVars
<1>2. ASSUME NEW c \in Calls, CallAsync(c) \/ HedgeTimer(c) \/ CallReturns(c) PROVE Budget'
  <2>1. CASE CallAsync(c)
    BY <2>1, BudgetKept, ZenonT(30) DEF CallAsync, Goto, budgetVars, Types
  <2>2. CASE HedgeTimer(c)
    <3>1. PICK l \in {"attempt", "ended"} : pc' = [pc EXCEPT ![Backup(c)] = l]
      BY <2>2, Zenon DEF HedgeTimer, Goto, Backup
    <3>2. pc[Backup(c)] = "timer" /\ UNCHANGED <<tokens, retries>>
      BY <2>2, Zenon DEF HedgeTimer, Backup, budgetVars
    <3> QED BY <3>1, <3>2, BudgetKept, ZenonT(30) DEF Types
  <2>3. CASE CallReturns(c)
    BY <2>3, BudgetKept, Zenon DEF CallReturns, chainVars, budgetVars
  <2> QED BY <1>2, <2>1, <2>2, <2>3, Zenon
<1>3. ASSUME NEW ch \in Chains, ChainStep(ch) PROVE Budget'
  <2>1. CASE Snapshot(ch)
    <3>1. pc[ch] = "attempt" /\ UNCHANGED <<tokens, retries>>
      BY <2>1, Zenon DEF Snapshot, budgetVars
    <3>2. PICK l \in Aimed :
               \/ pc' = [pc EXCEPT ![ch] = l]
               \/ /\ ch = Primary(ch[1]) /\ attempt[ch] = 1
                  /\ pc' = [pc EXCEPT ![ch] = l, ![Backup(ch[1])] = "timer"]
      BY <2>1, SnapshotAims, SMTT(20)
    <3>3. ch = Primary(ch[1]) /\ attempt[ch] = 1 => pc[Backup(ch[1])] = "idle"
      BY <3>1 DEF Sends, Hedged
    <3>4. CASE pc' = [pc EXCEPT ![ch] = l]
      BY <3>1, <3>4, BudgetKept, ZenonT(30) DEF Types, Aimed
    <3>5. CASE pc' = [pc EXCEPT ![ch] = l, ![Backup(ch[1])] = "timer"] /\ pc[Backup(ch[1])] = "idle"
      BY <3>1, <3>5, BudgetKept, SMTT(20) DEF Types, Aimed
    <3> QED BY <3>2, <3>3, <3>4, <3>5, Zenon
  <2>2. CASE FailFast(ch)
    BY <2>2, BudgetKept, Zenon DEF FailFast, Goto, budgetVars, Types
  <2>3. CASE Send(ch)
    <3>1. PICK l \in {"sent", "wrapped"} : pc' = [pc EXCEPT ![ch] = l]
      BY <2>3, Zenon DEF Send, Goto
    <3> QED BY <2>3, <3>1, BudgetKept, Zenon DEF Send, budgetVars, Types
  <2>4. CASE ChannelCompletes(ch)
    BY <2>4, BudgetKept, ZenonT(30) DEF ChannelCompletes, Goto, budgetVars, Types
  <2>5. CASE WrappedDone(ch)
    <3>1. CASE Goto(ch, "succeeded") /\ tokens' = Refunded
      <4>1. pc[ch] = "wrapped" /\ retries' = retries /\ tokens' <= tokens + 1 /\ tokens' \in Nat
        BY <2>5, <3>1, ClusterAssumption DEF WrappedDone, Refunded, Types
      <4>2. /\ Cardinality(Succeeded) \in Nat
            /\ Cardinality(Succeeded)' = Cardinality(Succeeded) + 1
        BY <3>1, <4>1, OneMore, Zenon DEF Goto
      <4> QED BY <4>1, <4>2, ClusterAssumption, SMTT(20) DEF Budget, Types
    <3>2. CASE Goto(ch, "decide") /\ UNCHANGED tokens
      BY <2>5, <3>2, BudgetKept DEF WrappedDone, Goto, Types
    <3> QED BY <2>5, <3>1, <3>2, Zenon DEF WrappedDone
  <2>6. CASE MaybeRetry(ch)
    <3>1. CASE TryConsume /\ retries' = retries + 1 /\ Goto(ch, "backoff")
      <4>1. Succeeded' = Succeeded
        BY <2>6, <3>1, Zenon DEF Succeeded, MaybeRetry, Goto, Types
      <4>2. retries' + tokens' = retries + tokens
        BY <3>1, ClusterAssumption DEF TryConsume, Types
      <4> QED BY <4>1, <4>2, Zenon DEF Budget
    <3>2. CASE Goto(ch, "ended") /\ UNCHANGED budgetVars
      BY <2>6, <3>2, BudgetKept, ZenonT(30) DEF MaybeRetry, Goto, budgetVars, Types
    <3> QED BY <2>6, <3>1, <3>2, Zenon DEF MaybeRetry
  <2>7. CASE BackoffOver(ch)
    BY <2>7, BudgetKept DEF BackoffOver, Goto, budgetVars, Types
  <2> QED BY <1>3, <2>1, <2>2, <2>3, <2>4, <2>5, <2>6, <2>7, ZenonT(30) DEF ChainStep
<1> QED BY <1>1, <1>2, <1>3, Steps, Zenon

-----------------------------------------------------------------------------
(* Success is real *)

\* A step of one call disturbs only what is said of that call.
LEMMA RealLocal ==
    ASSUME Real, NEW c \in Calls, UNCHANGED <<returned, timed>>, answered \subseteq answered',
           \A d \in Calls \ {c} : status'[d] = status[d],
           \A d \in Calls \ {c} : completed'[d] = completed[d],
           \A d \in Chains : d[1] # c => pc'[d] = pc[d] /\ attempt'[d] = attempt[d],
           c \notin answered' /\ status'[c] = "ok" => Untouched(c)'
    PROVE  Real'
<1> SUFFICES ASSUME NEW d \in Calls, d \notin answered'
             PROVE  /\ status'[d] = "ok" => Untouched(d)'
                    /\ d \in timed => returned'[d] # "true"
  BY Zenon DEF Real
<1>1. d \in timed => returned'[d] # "true"
  BY Zenon DEF Real
<1>2. CASE d = c
  BY <1>1, <1>2, Zenon
<1>3. CASE d # c
  <2>1. status'[d] = "ok" => Untouched(d)
    BY <1>3, Zenon DEF Real
  <2>2. Untouched(d) => Untouched(d)'
    BY <1>3, ChainFacts, SMTT(20) DEF Untouched
  <2> QED BY <1>1, <2>1, <2>2, Zenon
<1> QED BY <1>2, <1>3, Zenon

\* A chain that is under way and has not come back stays so.
LEMMA UntouchedKept ==
    ASSUME Types, NEW ch \in Chains, NEW l \in Before \cup {"sent"}, Untouched(ch[1]),
           pc' = [pc EXCEPT ![ch] = l], UNCHANGED <<attempt, completed>>
    PROVE  Untouched(ch[1])'
  BY ChainFacts, SMTT(20) DEF Untouched, Types

\* A step that keeps the status of the chain's call.
LEMMA RealMoved ==
    ASSUME Types, Real, NEW ch \in Chains, NEW l \in Pcs, pc' = [pc EXCEPT ![ch] = l],
           UNCHANGED <<timed, status, answered, returned, attempt, completed>>,
           l \in Before \cup {"sent"} \/ pc[ch] \notin Before \cup {"sent"} \/ completed[ch[1]]
    PROVE  Real'
<1> USE ChainFacts
<1>1. ch[1] \notin answered' /\ status'[ch[1]] = "ok" => Untouched(ch[1])'
  <2> SUFFICES ASSUME ch[1] \notin answered, status[ch[1]] = "ok"
               PROVE  Untouched(ch[1])'
    BY Zenon
  <2>1. Untouched(ch[1])
    BY Zenon DEF Real
  <2>2. pc[ch] \in Before \cup {"sent"} /\ ~completed[ch[1]]
    BY <2>1, Zenon DEF Untouched
  <2> QED BY <2>1, <2>2, UntouchedKept, Zenon
<1>2. \A d \in Chains : d[1] # ch[1] => pc'[d] = pc[d] /\ attempt'[d] = attempt[d]
  BY Zenon DEF Types
<1> QED BY <1>1, <1>2, RealLocal, SMTT(20)

\* A step that gives the chain's call a status other than kOk, or of a chain that
\* has come back.
LEMMA RealTouched ==
    ASSUME Types, Real, NEW ch \in Chains, NEW l \in Pcs, pc' = [pc EXCEPT ![ch] = l],
           UNCHANGED <<returned, timed>>, answered \subseteq answered',
           \A d \in Calls \ {ch[1]} : status'[d] = status[d],
           \A d \in Calls \ {ch[1]} : completed'[d] = completed[d],
           \A d \in Chains \ {ch} : attempt'[d] = attempt[d],
           status'[ch[1]] # "ok" \/ ch[1] \in answered'
    PROVE  Real'
<1>1. ch[1] \in Calls
  BY ChainFacts, Zenon
<1>2. \A d \in Chains : d[1] # ch[1] => pc'[d] = pc[d] /\ attempt'[d] = attempt[d]
  BY Zenon DEF Types
<1> QED BY <1>1, <1>2, RealLocal, Zenon

\* A call whose chain has come back was answered, or has another status.
LEMMA CameBack ==
    ASSUME Real, NEW ch \in Chains, pc[ch] \notin Before \cup {"sent"}
    PROVE  status[ch[1]] # "ok" \/ ch[1] \in answered
  BY ChainFacts DEF Real, Untouched

LEMMA RealStep ==
    ASSUME Types, Real, [Next]_vars
    PROVE  Real'
<1>0. timed' = timed
  BY TimedKept
<1> USE <1>0, ChainFacts
<1>1. CASE Elsewhere
  BY <1>1 DEF Elsewhere, Real, Untouched, chainVars
<1>2. ASSUME NEW c \in Calls, CallAsync(c) \/ HedgeTimer(c) \/ CallReturns(c) PROVE Real'
  <2>1. CASE CallAsync(c)
    BY <2>1, RealMoved, Zenon DEF CallAsync, Goto, Primary, Pcs, Before
  <2>2. CASE HedgeTimer(c)
    <3>1. UNCHANGED <<status, answered, returned, attempt, completed>>
      BY <2>2, Zenon DEF HedgeTimer
    <3>2. CASE completed[c] /\ pc' = [pc EXCEPT ![Backup(c)] = "ended"]
      BY <3>1, <3>2, RealMoved, ZenonT(30) DEF Pcs
    <3>3. CASE pc' = [pc EXCEPT ![Backup(c)] = "attempt"]
      BY <3>1, <3>3, RealMoved, Zenon DEF Pcs, Before
    <3> QED BY <2>2, <3>2, <3>3, Zenon DEF HedgeTimer, Goto, Backup
  <2>3. CASE CallReturns(c)
    <3>1. /\ UNCHANGED <<pc, attempt, status, completed, answered>>
          /\ returned' = [returned EXCEPT ![c] = IF status[c] = "ok" THEN "true" ELSE "false"]
      BY <2>3, Zenon DEF CallReturns, chainVars
    <3>2. c \in timed => ~Untouched(c)
      <4>1. c \in timed =>
              \/ completed[c]
              \/ pc[<<c, "primary">>] \in {"decide", "backoff", "succeeded", "ended"}
              \/ attempt[<<c, "primary">>] > 1
        BY <2>3, Zenon DEF CallReturns
      <4> QED BY <4>1 DEF Untouched, Before, Sides
    <3>3. ASSUME NEW d \in Calls, d \notin answered'
          PROVE  /\ status'[d] = "ok" => Untouched(d)'
                 /\ d \in timed => returned'[d] # "true"
      <4>1. status'[d] = "ok" => Untouched(d)'
        BY <3>1, <3>3 DEF Real, Untouched
      <4>2. CASE d = c
        BY <3>1, <3>2, <3>3, <4>1, <4>2, ZenonT(30) DEF Real, Types
      <4>3. CASE d # c
        BY <3>1, <3>3, <4>1, <4>3, SMTT(20) DEF Real, Types
      <4> QED BY <4>2, <4>3, Zenon
    <3> QED BY <3>3, Zenon DEF Real
  <2> QED BY <1>2, <2>1, <2>2, <2>3, Zenon
<1>3. ASSUME NEW ch \in Chains, ChainStep(ch) PROVE Real'
  <2>1. CASE Snapshot(ch)
    <3>1. pc[ch] = "attempt" /\ UNCHANGED <<attempt, completed, status, returned, answered>>
      BY <2>1, Zenon DEF Snapshot
    <3>2. PICK l \in Aimed :
               pc' = [pc EXCEPT ![ch] = l] \/ pc' = [pc EXCEPT ![ch] = l, ![Backup(ch[1])] = "timer"]
      BY <2>1, SnapshotAims, SMTT(20)
    <3>3. \A d \in Chains : d[1] # ch[1] => pc'[d] = pc[d]
      BY <3>2 DEF Types
    <3>4. Untouched(ch[1]) => Untouched(ch[1])'
      <4>1. \A d \in Chains : pc'[d] = pc[d] \/ pc'[d] \in Before
        BY <3>2 DEF Types, Aimed, Before
      <4> QED BY <3>1, <4>1, Zenon DEF Untouched
    <3>5. ch[1] \notin answered' /\ status'[ch[1]] = "ok" => Untouched(ch[1])
      BY <3>1, Zenon DEF Real
    <3> QED BY <3>1, <3>3, <3>4, <3>5, RealLocal, SMTT(20)
  <2>2. CASE FailFast(ch)
    <3>1. PICK r \in {"unknown", "error"} : status' = [status EXCEPT ![ch[1]] = r]
      BY <2>2, Zenon DEF FailFast, FailCall, SetStatus
    <3> QED BY <2>2, <3>1, RealTouched, ZenonT(30) DEF FailFast, Goto, Pcs, Types
  <2>3. CASE Send(ch)
    <3>1. UNCHANGED <<attempt, completed, returned, answered>>
      BY <2>3, Zenon DEF Send
    <3>2. CASE pc' = [pc EXCEPT ![ch] = "sent"] /\ UNCHANGED status
      BY <3>1, <3>2, RealMoved, Zenon DEF Pcs
    <3>3. CASE pc' = [pc EXCEPT ![ch] = "wrapped"] /\ status' = [status EXCEPT ![ch[1]] = "unknown"]
      BY <3>1, <3>3, RealTouched, ZenonT(30) DEF Pcs, Types
    <3> QED BY <2>3, <3>2, <3>3, Zenon DEF Send, Goto, SetStatus
  <2>4. CASE ChannelCompletes(ch)
    <3>1. PICK r \in {"ok", "unknown", "error"} :
              /\ status' = [status EXCEPT ![ch[1]] = r]
              /\ answered' = IF r = "ok" THEN answered \cup {ch[1]} ELSE answered
      BY <2>4, Zenon DEF ChannelCompletes, SetStatus
    <3>2. answered \subseteq answered' /\ (status'[ch[1]] # "ok" \/ ch[1] \in answered')
      BY <3>1, Zenon DEF Types
    <3>3. \A d \in Calls \ {ch[1]} : status'[d] = status[d]
      BY <3>1, Zenon DEF Types
    <3> QED BY <2>4, <3>2, <3>3, RealTouched, Zenon DEF ChannelCompletes, Goto, Pcs
  <2>5. CASE WrappedDone(ch)
    <3>1. pc[ch] = "wrapped" /\ UNCHANGED <<attempt, status, returned, answered>>
      BY <2>5, Zenon DEF WrappedDone
    <3>2. status[ch[1]] # "ok" \/ ch[1] \in answered
      BY <3>1, CameBack, ZenonT(30) DEF Before
    <3>3. PICK l \in Pcs : pc' = [pc EXCEPT ![ch] = l]
      BY <2>5, Zenon DEF WrappedDone, Goto, Pcs
    <3>4. \A d \in Calls \ {ch[1]} : completed'[d] = completed[d]
      BY <2>5, SharedDoneEffect, Zenon DEF WrappedDone
    <3> QED BY <3>1, <3>2, <3>3, <3>4, RealTouched, ZenonT(30)
  <2>6. CASE MaybeRetry(ch)
    <3>1. pc[ch] = "decide" /\ UNCHANGED <<attempt, status, returned, answered>>
      BY <2>6, Zenon DEF MaybeRetry
    <3>2. status[ch[1]] # "ok" \/ ch[1] \in answered
      BY <3>1, CameBack, Zenon DEF Before
    <3>3. PICK l \in Pcs : pc' = [pc EXCEPT ![ch] = l]
      BY <2>6, Zenon DEF MaybeRetry, Goto, Pcs
    <3>4. \A d \in Calls \ {ch[1]} : completed'[d] = completed[d]
      BY <2>6, SharedDoneEffect, Zenon DEF MaybeRetry
    <3> QED BY <3>1, <3>2, <3>3, <3>4, RealTouched, Zenon
  <2>7. CASE BackoffOver(ch)
    <3>1. /\ pc[ch] = "backoff" /\ pc' = [pc EXCEPT ![ch] = "attempt"]
          /\ attempt' = [attempt EXCEPT ![ch] = @ + 1]
          /\ UNCHANGED <<completed, status, returned, answered>>
      BY <2>7, Zenon DEF BackoffOver, Goto
    <3>2. status[ch[1]] # "ok" \/ ch[1] \in answered
      BY <3>1, CameBack, Zenon DEF Before
    <3> QED BY <3>1, <3>2, RealTouched, ZenonT(30) DEF Types, Pcs
  <2> QED BY <1>3, <2>1, <2>2, <2>3, <2>4, <2>5, <2>6, <2>7, ZenonT(30) DEF ChainStep
<1> QED BY <1>1, <1>2, <1>3, Steps, ZenonT(30)

-----------------------------------------------------------------------------
(* The theorems *)

LEMMA Initially == Init => IInv
<1> SUFFICES ASSUME Init PROVE IInv
  BY Zenon
<1> USE ChainFacts, ClusterAssumption DEF Init
<1>1. Types
  BY DEF Types, Pcs
<1>2. Finished
  BY Zenon DEF Finished, Over
<1>3. Sends
  BY DEF Sends, Counted, Hedged, Before
<1>4. Budget
  <2>1. IsFiniteSet(Succeeded)
    BY FiniteChains, FS_Subset, Zenon DEF Succeeded
  <2>2. Cardinality(Succeeded) \in Nat
    BY <2>1, FS_CardinalityType, Zenon
  <2> HIDE DEF Succeeded
  <2> QED BY <2>2 DEF Budget
<1>5. Real
  BY Zenon DEF Real, Untouched, Before
<1> QED BY <1>1, <1>2, <1>3, <1>4, <1>5, Zenon DEF IInv

LEMMA Inductive == IInv /\ [Next]_vars => IInv'
  BY TypesStep, FinishedStep, SendsStep, BudgetStep, RealStep, Zenon DEF IInv

LEMMA Always == Spec => []IInv
  BY Initially, Inductive, PTL DEF Spec

\* Whatever the retries and backups of a call do, and in whichever order the
\* threads meet at the completed flag, done() runs at most once, and has run when
\* no chain of the call is under way.
THEOREM ClusterDoneOnce == Spec => []DoneOnce
<1>1. IInv => DoneOnce
  <2> SUFFICES ASSUME IInv, NEW c \in Calls
               PROVE  doneCount[c] <= 1 /\ (pc[Primary(c)] \in Over => doneCount[c] = 1)
    BY Zenon DEF DoneOnce, Primary
  <2>1. doneCount[c] = IF completed[c] THEN 1 ELSE 0
    BY Zenon DEF IInv, Finished
  <2>2. pc[Primary(c)] \in Over => completed[c]
    BY ChainFacts DEF IInv, Finished
  <2> QED BY <2>1, <2>2
<1> QED BY <1>1, Always, PTL

\* shouldRetry and the one hedge of the first attempt bound the requests of a call.
THEOREM ClusterSendsBounded == Spec => []SendsBounded
<1>1. IInv => SendsBounded
  <2> SUFFICES ASSUME IInv, NEW c \in Calls
               PROVE  sent[Primary(c)] + sent[Backup(c)] <=
                          IF c \notin idempotent THEN 1
                          ELSE IF Hedging THEN 2 * MaxAttempts ELSE MaxAttempts
    BY Zenon DEF SendsBounded, Primary, Backup
  <2> DEFINE p == Primary(c)
             b == Backup(c)
  <2>1. Counted(p) /\ Counted(b) /\ Hedged(c)
    BY ChainFacts, Zenon DEF IInv, Sends
  <2>2. /\ p[1] = c /\ sent[p] \in Nat /\ sent[b] \in Nat
        /\ attempt[p] \in Nat /\ attempt[b] \in Nat /\ MaxAttempts \in Nat \ {0}
    BY ChainFacts, ClusterAssumption, Zenon DEF IInv, Types
  <2>3. sent[p] <= attempt[p] /\ attempt[p] <= MaxAttempts
        /\ sent[b] <= attempt[b] /\ attempt[b] <= MaxAttempts
    BY <2>1, <2>2, SMTT(20) DEF Counted
  <2>4. pc[b] = "idle" => sent[b] = 0
    BY <2>1, <2>2 DEF Counted, Before
  <2>5. c \notin idempotent => attempt[p] = 1 /\ pc[b] = "idle"
    BY <2>1, <2>2, Zenon DEF Counted, Hedged
  <2>6. ~Hedging => pc[b] = "idle"
    BY <2>1, Zenon DEF Hedged
  <2> HIDE DEF p, b
  <2>7. sent[p] + sent[b] <= IF c \notin idempotent THEN 1
                             ELSE IF Hedging THEN 2 * MaxAttempts ELSE MaxAttempts
    BY <2>2, <2>3, <2>4, <2>5, <2>6, SMTT(20)
  <2> QED BY <2>7, Zenon DEF p, b
<1> QED BY <1>1, Always, PTL

\* However many calls retry at once, tryConsume and refund keep the retries within
\* the budget and one more for every chain that succeeded.
THEOREM ClusterRetriesBudgeted == Spec => []RetriesBudgeted
<1>1. IInv => RetriesBudgeted
  <2> SUFFICES ASSUME IInv PROVE RetriesBudgeted
    BY Zenon
  <2>1. IsFiniteSet(Succeeded)
    BY FiniteChains, FS_Subset, Zenon DEF Succeeded
  <2>2. Cardinality(Succeeded) \in Nat
    BY <2>1, FS_CardinalityType, Zenon
  <2>3. retries <= Tokens + Cardinality(Succeeded)
    <3> HIDE DEF Succeeded
    <3> QED BY <2>2, ClusterAssumption DEF IInv, Budget, Types
  <2> QED BY <2>3, Zenon DEF RetriesBudgeted, Succeeded
<1> QED BY <1>1, Always, PTL

\* The initial status of a controller is kOk, so that a call abandoned without a
\* verdict would look like a success: done() reports none of an unanswered call,
\* nor does call() when the call has a timeout.
THEOREM ClusterSuccessIsReal == Spec => []SuccessIsReal
<1>1. IInv => SuccessIsReal
  BY Zenon DEF IInv, Real, Untouched, SuccessIsReal
<1> QED BY <1>1, Always, PTL

-----------------------------------------------------------------------------
(* The backup's instance *)

\* Until the list changes, the index of an instance is the instance.
InOrder == changes = 0 => Len(instances) \in Nat /\ \A k \in 1..Len(instances) : instances[k] = k

\* A chain has a target while its request is meant for it or under way.
Targets == \A ch \in Chains : target[ch] # NoInstance => pc[ch] \in {"usable", "sent"}

\* Until the backup has taken its snapshot, the index it will exclude is the one of
\* the primary's target, if that has one.
Excludes(c) ==
    changes = 0 /\ attempt[Primary(c)] = 1 /\ attempt[Backup(c)] = 1
    /\ pc[Backup(c)] \in {"timer", "attempt"} => target[Primary(c)] \in {NoInstance, firstIdx[c]}

Apart(c) ==
    changes = 0 /\ attempt[Primary(c)] = 1 /\ attempt[Backup(c)] = 1
    /\ target[Backup(c)] # NoInstance => target[Backup(c)] # target[Primary(c)]

Aims ==
    /\ DOMAIN target = Chains /\ DOMAIN firstIdx = Calls /\ changes \in Nat
    /\ InOrder /\ Targets
    /\ \A c \in Calls : Excludes(c) /\ Apart(c)

\* The steps that pick no instance and leave the list alone.
LEMMA AimsKept ==
    ASSUME Aims, UNCHANGED <<firstIdx, changes, instances>>, DOMAIN target' = Chains,
           \A ch \in Chains : attempt'[ch] = 1 => attempt[ch] = 1,
           \A ch \in Chains : target'[ch] \in {target[ch], NoInstance},
           \A ch \in Chains : target'[ch] # NoInstance => pc'[ch] \in {"usable", "sent"},
           \A c \in Calls : pc'[Backup(c)] \in {"timer", "attempt"} /\ attempt'[Backup(c)] = 1 =>
                                pc[Backup(c)] \in {"timer", "attempt"}
    PROVE  Aims'
<1>1. ASSUME NEW c \in Calls PROVE Excludes(c)' /\ Apart(c)'
  <2>1. Primary(c) \in Chains /\ Backup(c) \in Chains
    BY ChainFacts, Zenon
  <2>2. Excludes(c) /\ Apart(c)
    BY Zenon DEF Aims
  <2>3. Excludes(c)'
    BY <2>1, <2>2, Zenon DEF Excludes, Primary, Backup
  <2>4. Apart(c)'
    BY <2>1, <2>2, Zenon DEF Apart, Primary, Backup
  <2> QED BY <2>3, <2>4, Zenon
<1>2. InOrder'
  BY Zenon DEF Aims, InOrder
<1>3. Targets'
  BY Zenon DEF Targets
<1> QED BY <1>1, <1>2, <1>3, Zenon DEF Aims

\* What attemptOnce picks, and which index it has the backup exclude.
LEMMA SnapshotPicks ==
    ASSUME NEW ch \in Chains, Snapshot(ch)
    PROVE  \E idx : \E l \in Aimed :
               /\ \/ target' = target
                  \/ /\ idx \in 1..Len(instances) /\ idx \notin Excluded(ch) /\ l = "usable"
                     /\ target' = [target EXCEPT ![ch] = instances[idx]]
               /\ \/ /\ pc' = [pc EXCEPT ![ch] = l, ![Backup(ch[1])] = "timer"]
                     /\ firstIdx' = [firstIdx EXCEPT ![ch[1]] = idx]
                     /\ ch = Primary(ch[1]) /\ attempt[ch] = 1
                  \/ /\ pc' = [pc EXCEPT ![ch] = l]
                     /\ \/ ch[2] = "backup" /\ firstIdx' = [firstIdx EXCEPT ![ch[1]] = 0]
                        \/ ch[2] # "backup" /\ firstIdx' = firstIdx
<1> DEFINE n == Len(instances)
           Moves(idx, l) ==
               IF MayHedge(ch, idx) THEN pc' = [pc EXCEPT ![ch] = l, ![<<ch[1], "backup">>] = "timer"]
                                    ELSE pc' = [pc EXCEPT ![ch] = l]
           Aim(idx, l) == /\ idx \in (1..n) \ Excluded(ch) /\ l = "usable"
                          /\ target' = [target EXCEPT ![ch] = instances[idx]]
<1>1. PICK healthy \in SUBSET ((1..n) \ Excluded(ch)) : \E idx \in Picks(healthy, n) :
          /\ firstIdx' = IF MayHedge(ch, idx) THEN [firstIdx EXCEPT ![ch[1]] = idx]
                         ELSE IF ch[2] = "backup" THEN [firstIdx EXCEPT ![ch[1]] = 0] ELSE firstIdx
          /\ \E l \in Aimed : Moves(idx, l) /\ (target' = target \/ Aim(idx, l))
  BY SMTT(20) DEF Snapshot, Aimed, Goto
<1>2. PICK idx \in Picks(healthy, n) :
          /\ firstIdx' = IF MayHedge(ch, idx) THEN [firstIdx EXCEPT ![ch[1]] = idx]
                         ELSE IF ch[2] = "backup" THEN [firstIdx EXCEPT ![ch[1]] = 0] ELSE firstIdx
          /\ \E l \in Aimed : Moves(idx, l) /\ (target' = target \/ Aim(idx, l))
  BY <1>1, Zenon
<1>3. PICK l \in Aimed : Moves(idx, l) /\ (target' = target \/ Aim(idx, l))
  BY <1>2, Zenon
<1>4. CASE MayHedge(ch, idx)
  <2>1. ch = Primary(ch[1]) /\ attempt[ch] = 1
    BY <1>4, ChainFacts, Zenon DEF MayHedge, Primary
  <2>2. /\ pc' = [pc EXCEPT ![ch] = l, ![Backup(ch[1])] = "timer"]
        /\ firstIdx' = [firstIdx EXCEPT ![ch[1]] = idx]
    BY <1>2, <1>3, <1>4, Zenon DEF Backup
  <2> QED BY <1>3, <2>1, <2>2, Zenon
<1>5. CASE ~MayHedge(ch, idx)
  <2>1. pc' = [pc EXCEPT ![ch] = l]
    BY <1>3, <1>5, Zenon
  <2>2. \/ ch[2] = "backup" /\ firstIdx' = [firstIdx EXCEPT ![ch[1]] = 0]
        \/ ch[2] # "backup" /\ firstIdx' = firstIdx
    BY <1>2, <1>5, Zenon
  <2> QED BY <1>3, <2>1, <2>2, Zenon
<1> QED BY <1>4, <1>5, ZenonT(30)

LEMMA AimsSnapshot ==
    ASSUME Types, Sends, Aims, NEW ch \in Chains, Snapshot(ch)
    PROVE  Aims'
<1>0. /\ UNCHANGED <<attempt, changes, instances>> /\ pc[ch] = "attempt" /\ pc \in [Chains -> Pcs]
      /\ DOMAIN target = Chains /\ DOMAIN firstIdx = Calls
  BY Zenon DEF Snapshot, listVars, Types, Aims
<1>14. PICK idx : \E l \in Aimed :
          /\ \/ target' = target
             \/ /\ idx \in 1..Len(instances) /\ idx \notin Excluded(ch) /\ l = "usable"
                /\ target' = [target EXCEPT ![ch] = instances[idx]]
          /\ \/ /\ pc' = [pc EXCEPT ![ch] = l, ![Backup(ch[1])] = "timer"]
                /\ firstIdx' = [firstIdx EXCEPT ![ch[1]] = idx]
                /\ ch = Primary(ch[1]) /\ attempt[ch] = 1
             \/ /\ pc' = [pc EXCEPT ![ch] = l]
                /\ \/ ch[2] = "backup" /\ firstIdx' = [firstIdx EXCEPT ![ch[1]] = 0]
                   \/ ch[2] # "backup" /\ firstIdx' = firstIdx
  BY SnapshotPicks, Zenon
<1>1. PICK l \in Aimed :
          /\ \/ target' = target
             \/ /\ idx \in 1..Len(instances) /\ idx \notin Excluded(ch) /\ l = "usable"
                /\ target' = [target EXCEPT ![ch] = instances[idx]]
          /\ \/ /\ pc' = [pc EXCEPT ![ch] = l, ![Backup(ch[1])] = "timer"]
                /\ firstIdx' = [firstIdx EXCEPT ![ch[1]] = idx]
                /\ ch = Primary(ch[1]) /\ attempt[ch] = 1
             \/ /\ pc' = [pc EXCEPT ![ch] = l]
                /\ \/ ch[2] = "backup" /\ firstIdx' = [firstIdx EXCEPT ![ch[1]] = 0]
                   \/ ch[2] # "backup" /\ firstIdx' = firstIdx
  BY <1>14, Zenon
<1> DEFINE c == ch[1]
<1>2. /\ c \in Calls /\ (ch = Primary(c) \/ ch = Backup(c)) /\ Primary(c) # Backup(c)
      /\ Primary(c) \in Chains /\ Backup(c) \in Chains
  BY ChainFacts, Zenon
<1>3. /\ DOMAIN target' = Chains /\ DOMAIN firstIdx' = Calls
      /\ \A d \in Chains \ {ch} : target'[d] = target[d]
      /\ \A d \in Calls \ {c} : firstIdx'[d] = firstIdx[d]
  BY <1>0, <1>1, Zenon
<1>4. /\ \A d \in Chains \ {ch, Backup(c)} : pc'[d] = pc[d]
      /\ pc'[ch] = l
  <2>1. CASE pc' = [pc EXCEPT ![ch] = l]
    BY <1>0, <2>1, Zenon
  <2>2. CASE pc' = [pc EXCEPT ![ch] = l, ![Backup(c)] = "timer"] /\ ch = Primary(c)
    BY <1>0, <1>2, <2>2, Zenon
  <2> QED BY <1>1, <2>1, <2>2, Zenon
<1>5. target[ch] = NoInstance
  BY <1>0, Zenon DEF Aims, Targets
<1>6. target'[ch] = NoInstance \/ (/\ l = "usable" /\ idx \in 1..Len(instances)
                                   /\ idx \notin Excluded(ch) /\ target'[ch] = instances[idx])
  BY <1>0, <1>1, <1>5, Zenon
<1>7. ch = Primary(c) /\ attempt[ch] = 1 => pc[Backup(c)] = "idle" /\ target[Backup(c)] = NoInstance
  BY <1>0, <1>2, Zenon DEF Sends, Hedged, Aims, Targets
<1>8. changes = 0 /\ idx \in 1..Len(instances) => instances[idx] = idx /\ idx \in Nat /\ idx # 0
  BY DEF Aims, InOrder
<1>9. InOrder' /\ changes' \in Nat
  BY <1>0, Zenon DEF Aims, InOrder
<1>10. Targets'
  <2> SUFFICES ASSUME NEW d \in Chains, target'[d] # NoInstance PROVE pc'[d] \in {"usable", "sent"}
    BY Zenon DEF Targets
  <2>1. CASE d = ch
    BY <1>4, <1>6, <2>1, Zenon
  <2>2. CASE d # ch
    <3>1. pc[d] \in {"usable", "sent"} /\ target[d] # NoInstance
      BY <1>3, <2>2, Zenon DEF Aims, Targets
    <3>2. CASE pc' = [pc EXCEPT ![ch] = l]
      BY <1>0, <2>2, <3>1, <3>2, ZenonT(30)
    <3>3. CASE pc' # [pc EXCEPT ![ch] = l]
      <4>1. d # Backup(c)
        BY <1>1, <1>7, <3>1, <3>3, ZenonT(30)
      <4> QED BY <1>4, <2>2, <3>1, <4>1, ZenonT(30)
    <3> QED BY <3>2, <3>3, Zenon
  <2> QED BY <2>1, <2>2, Zenon
<1>11. ASSUME NEW d \in Calls, d # c PROVE Excludes(d)' /\ Apart(d)'
  <2>1. /\ Primary(d) \in Chains \ {ch, Backup(c)} /\ Backup(d) \in Chains \ {ch, Backup(c)}
    BY <1>2, <1>11, ChainFacts, Zenon
  <2>2. /\ target'[Primary(d)] = target[Primary(d)] /\ target'[Backup(d)] = target[Backup(d)]
        /\ pc'[Backup(d)] = pc[Backup(d)] /\ firstIdx'[d] = firstIdx[d]
    BY <1>3, <1>4, <1>11, <2>1, ZenonT(30)
  <2>3. Excludes(d) /\ Apart(d)
    BY Zenon DEF Aims
  <2>4. Excludes(d)'
    BY <1>0, <2>2, <2>3, ZenonT(30) DEF Excludes, Primary, Backup
  <2>5. Apart(d)'
    BY <1>0, <2>2, <2>3, Zenon DEF Apart, Primary, Backup
  <2> QED BY <2>4, <2>5, Zenon
<1>12. CASE ch = Primary(c)
  <2>1. target'[Backup(c)] = target[Backup(c)]
    BY <1>2, <1>3, <1>12, ZenonT(30)
  <2>2. ASSUME attempt[ch] = 1, changes = 0, pc'[Backup(c)] \in {"timer", "attempt"}
        PROVE  target'[ch] \in {NoInstance, firstIdx'[c]}
    <3>1. pc' # [pc EXCEPT ![ch] = l]
      BY <1>0, <1>2, <1>7, <1>12, <2>2, ZenonT(30)
    <3>2. firstIdx'[c] = idx
      BY <1>0, <1>1, <1>2, <3>1, ZenonT(30)
    <3> QED BY <1>6, <1>8, <2>2, <3>2, ZenonT(30)
  <2>3. attempt'[Primary(c)] = attempt[ch] /\ target'[Primary(c)] = target'[ch]
    BY <1>0, <1>12, Zenon
  <2>4. attempt[ch] = 1 => target'[Backup(c)] = NoInstance
    BY <1>7, <1>12, <2>1, ZenonT(30)
  <2> SUFFICES Excludes(c)' /\ Apart(c)'
    BY <1>3, <1>9, <1>10, <1>11, ZenonT(30) DEF Aims
  <2>5. Excludes(c)'
    BY <1>0, <1>12, <2>2, Zenon DEF Excludes, Primary, Backup
  <2>6. Apart(c)'
    BY <1>0, <1>12, <2>4, Zenon DEF Apart, Primary, Backup
  <2> QED BY <2>5, <2>6, Zenon
<1>13. CASE ch = Backup(c)
  <2>1. target'[Primary(c)] = target[Primary(c)]
    BY <1>2, <1>3, <1>13, Zenon
  <2>2. pc'[Backup(c)] \notin {"timer", "attempt"}
    BY <1>4, <1>13, Zenon DEF Aimed
  <2>3. ASSUME changes = 0, attempt[Primary(c)] = 1, attempt[ch] = 1, target'[ch] # NoInstance
        PROVE  target'[ch] # target[Primary(c)]
    <3>1. idx # firstIdx[c] /\ target'[ch] = idx /\ idx # 0
      BY <1>6, <1>8, <1>13, <2>3, SMTT(20) DEF Excluded, Backup
    <3>2. target[Primary(c)] \in {NoInstance, firstIdx[c]}
      BY <1>0, <1>2, <1>13, <2>3, ZenonT(30) DEF Aims, Excludes
    <3> QED BY <3>1, <3>2, Zenon DEF NoInstance
  <2> SUFFICES Excludes(c)' /\ Apart(c)'
    BY <1>3, <1>9, <1>10, <1>11, ZenonT(30) DEF Aims
  <2>4. Excludes(c)'
    BY <2>2, Zenon DEF Excludes, Backup
  <2>5. Apart(c)'
    BY <1>0, <1>13, <2>1, <2>3, ZenonT(30) DEF Apart, Primary, Backup
  <2> QED BY <2>4, <2>5, Zenon
<1> QED BY <1>2, <1>12, <1>13, Zenon

LEMMA AimsInit == Init => Aims
<1> SUFFICES ASSUME Init PROVE Aims
  BY Zenon
<1>1. /\ DOMAIN target = Chains /\ DOMAIN firstIdx = Calls /\ changes = 0
      /\ \A ch \in Chains : target[ch] = NoInstance
      /\ \A c \in Calls : Primary(c) \in Chains /\ Backup(c) \in Chains
  BY ChainFacts, Zenon DEF Init
<1>2. PICK n \in 0..MaxInstances : instances = [i \in 1..n |-> i]
  BY Zenon DEF Init
<1>3. n \in Nat /\ Len(instances) = n
  BY <1>2, ClusterAssumption
<1>4. InOrder
  BY <1>2, <1>3, Zenon DEF InOrder
<1> QED BY <1>1, <1>4, Zenon DEF Aims, Targets, Excludes, Apart

LEMMA AimsListChanges ==
    ASSUME Aims, changes' = changes + 1, UNCHANGED <<target, pc, firstIdx, attempt>>
    PROVE  Aims'
<1>1. changes' \in Nat /\ changes' # 0
  BY DEF Aims
<1> QED BY <1>1, Zenon DEF Aims, InOrder, Targets, Excludes, Apart

LEMMA AimsChainStep ==
    ASSUME Types, Sends, Aims, NEW ch \in Chains, ChainStep(ch)
    PROVE  Aims'
<1>0. /\ pc \in [Chains -> Pcs] /\ attempt \in [Chains -> Nat \ {0}] /\ DOMAIN target = Chains
      /\ Targets
  BY Zenon DEF Types, Aims
<1>1. CASE Snapshot(ch)
  BY <1>1, AimsSnapshot, Zenon
<1>2. CASE BackoffOver(ch)
  <2>1. /\ UNCHANGED <<firstIdx, changes, instances, target>>
        /\ pc[ch] = "backoff" /\ pc' = [pc EXCEPT ![ch] = "attempt"]
        /\ attempt' = [attempt EXCEPT ![ch] = @ + 1]
    BY <1>2, Zenon DEF BackoffOver, Goto, listVars
  <2>2. attempt'[ch] # 1 /\ \A d \in Chains : d # ch => attempt'[d] = attempt[d] /\ pc'[d] = pc[d]
    BY <1>0, <2>1
  <2>3. target[ch] = NoInstance
    BY <1>0, <2>1, Zenon DEF Targets
  <2>4. \A d \in Chains : target'[d] # NoInstance => pc'[d] \in {"usable", "sent"}
    BY <1>0, <2>1, <2>2, <2>3, Zenon DEF Targets
  <2>5. \A c \in Calls : pc'[Backup(c)] \in {"timer", "attempt"} /\ attempt'[Backup(c)] = 1 =>
                             pc[Backup(c)] \in {"timer", "attempt"}
    BY <2>2, ChainFacts, Zenon
  <2> QED BY <1>0, <2>1, <2>2, <2>4, <2>5, AimsKept, ZenonT(30)
<1>3. CASE FailFast(ch) \/ Send(ch) \/ ChannelCompletes(ch) \/ WrappedDone(ch) \/ MaybeRetry(ch)
  <2>1. /\ UNCHANGED <<firstIdx, changes, instances, attempt>>
        /\ \E l \in {"sent", "wrapped", "decide", "backoff", "succeeded", "ended"} :
               /\ pc' = [pc EXCEPT ![ch] = l]
               /\ \/ target' = [target EXCEPT ![ch] = NoInstance]
                  \/ target' = target /\ (l = "sent" \/ pc[ch] \in {"wrapped", "decide"})
    <3>1. CASE FailFast(ch)
      BY <3>1, Zenon DEF FailFast, Goto, NoTarget, listVars
    <3>2. CASE Send(ch)
      BY <3>2, Zenon DEF Send, Goto, NoTarget, listVars
    <3>3. CASE ChannelCompletes(ch)
      BY <3>3, Zenon DEF ChannelCompletes, Goto, NoTarget, listVars
    <3>4. CASE WrappedDone(ch)
      BY <3>4, Zenon DEF WrappedDone, Goto, listVars
    <3>5. CASE MaybeRetry(ch)
      BY <3>5, Zenon DEF MaybeRetry, Goto, listVars
    <3> QED BY <1>3, <3>1, <3>2, <3>3, <3>4, <3>5, ZenonT(30)
  <2>2. PICK l \in {"sent", "wrapped", "decide", "backoff", "succeeded", "ended"} :
            /\ pc' = [pc EXCEPT ![ch] = l]
            /\ \/ target' = [target EXCEPT ![ch] = NoInstance]
               \/ target' = target /\ (l = "sent" \/ pc[ch] \in {"wrapped", "decide"})
    BY <2>1, Zenon
  <2>3. pc'[ch] = l /\ \A d \in Chains : d # ch => pc'[d] = pc[d] /\ target'[d] = target[d]
    BY <1>0, <2>2, Zenon
  <2>4. /\ DOMAIN target' = Chains
        /\ target'[ch] = NoInstance \/ (l = "sent" /\ target'[ch] = target[ch])
    BY <1>0, <2>2, Zenon DEF Targets
  <2>5. \A d \in Chains : target'[d] \in {target[d], NoInstance}
    BY <2>3, <2>4, Zenon
  <2>6. \A d \in Chains : target'[d] # NoInstance => pc'[d] \in {"usable", "sent"}
    BY <1>0, <2>3, <2>4, Zenon DEF Targets
  <2>7. \A c \in Calls : pc'[Backup(c)] \in {"timer", "attempt"} => pc[Backup(c)] \in {"timer", "attempt"}
    BY <2>3, ChainFacts, Zenon
  <2> QED BY <2>1, <2>4, <2>5, <2>6, <2>7, AimsKept, ZenonT(30)
<1> QED BY <1>1, <1>2, <1>3, Zenon DEF ChainStep

LEMMA AimsStep == Types /\ Sends /\ Aims /\ [Next]_vars => Aims'
<1> SUFFICES ASSUME Types, Sends, Aims, [Next]_vars PROVE Aims'
  BY Zenon
<1>0. pc \in [Chains -> Pcs] /\ DOMAIN target = Chains /\ Targets
  BY Zenon DEF Types, Aims
<1>1. CASE UNCHANGED vars
  BY <1>0, <1>1, AimsKept, Zenon DEF vars, chainVars, listVars, Targets
<1>2. ASSUME NEW i \in Instances, AddInstance(i) \/ RemoveInstance(i) PROVE Aims'
  BY <1>2, AimsListChanges, Zenon DEF AddInstance, RemoveInstance, chainVars
<1>3. ASSUME NEW c \in Calls, CallAsync(c) \/ HedgeTimer(c) \/ CallReturns(c) PROVE Aims'
  <2>1. CASE CallReturns(c)
    BY <1>0, <2>1, AimsKept, Zenon DEF CallReturns, chainVars, listVars, Targets
  <2>2. CASE CallAsync(c) \/ HedgeTimer(c)
    <3>1. PICK ch \in {Primary(c), Backup(c)} : \E l \in {"attempt", "ended"} :
              /\ pc' = [pc EXCEPT ![ch] = l]
              /\ pc[ch] \in {"idle", "timer"}
              /\ ch = Backup(c) => pc[ch] = "timer"
              /\ UNCHANGED <<firstIdx, changes, instances, attempt, target>>
      BY <2>2, ChainFacts, Zenon DEF CallAsync, HedgeTimer, Goto, listVars, Primary, Backup
    <3>2. ch \in Chains /\ \A d \in Chains : d # ch => pc'[d] = pc[d]
      BY <1>0, <3>1, ChainFacts, SMTT(20)
    <3>3. target[ch] = NoInstance
      BY <1>0, <3>1, <3>2, Zenon DEF Targets
    <3>4. \A d \in Chains : target'[d] # NoInstance => pc'[d] \in {"usable", "sent"}
      BY <1>0, <3>1, <3>2, <3>3, Zenon DEF Targets
    <3>5. \A b \in Calls : pc'[Backup(b)] \in {"timer", "attempt"} => pc[Backup(b)] \in {"timer", "attempt"}
      <4> SUFFICES ASSUME NEW b \in Calls, pc'[Backup(b)] \in {"timer", "attempt"}
                   PROVE  pc[Backup(b)] \in {"timer", "attempt"}
        BY Zenon
      <4>1. CASE Backup(b) = ch
        <5>1. b = c
          BY <3>1, <4>1, ChainFacts, Zenon DEF Primary, Backup
        <5> QED BY <3>1, <4>1, <5>1, Zenon
      <4>2. CASE Backup(b) # ch
        BY <3>2, <4>2, ChainFacts, Zenon
      <4> QED BY <4>1, <4>2, Zenon
    <3> QED BY <1>0, <3>1, <3>4, <3>5, AimsKept, ZenonT(30)
  <2> QED BY <1>3, <2>1, <2>2, Zenon
<1>4. ASSUME NEW ch \in Chains, ChainStep(ch) PROVE Aims'
  BY <1>4, AimsChainStep, Zenon
<1> QED BY <1>1, <1>2, <1>3, <1>4, Zenon DEF Next

\* RetryPolicy.h: "a duplicate is sent to another instance".  While the list stays
\* as it was and both chains are at their first attempt, the instance attemptOnce
\* picks for the backup is never the one the primary's request is with.
THEOREM ClusterBackupElsewhere == Spec => []BackupElsewhere
<1>1. IInv => Types /\ Sends
  BY Zenon DEF IInv
<1>2. Aims => BackupElsewhere
  BY Zenon DEF Aims, Apart, BackupElsewhere, Primary, Backup
<1> QED BY AimsInit, AimsStep, Always, <1>1, <1>2, PTL DEF Spec

==============================================================================
