-------------------------- MODULE RpcClusterChannel --------------------------
(***************************************************************************)
(* src/RpcClusterChannel.cpp with RetryPolicy.h and the balancers: a call  *)
(* to a cluster, its retries and its hedged backup.                        *)
(*                                                                         *)
(* A call runs in up to two chains of attempts, "primary" and "backup"     *)
(* (hedged).  The attempts of a chain follow each other; the two chains    *)
(* share one RpcController and one completed flag and run on different     *)
(* threads: the caller's thread starts the primary, the loop thread runs   *)
(* the hedge timer and the completions of channels, and every retry has a  *)
(* thread of its own.  A step is one access to what the threads share.     *)
(*                                                                         *)
(* A channel is what CallContract says: it refuses a request at once or    *)
(* completes it once, later, on the loop thread.  Health and breakers are  *)
(* read in snapshots, and may say anything.                                *)
(***************************************************************************)
EXTENDS Integers, Sequences, FiniteSets

CONSTANTS
    Calls,          \* calls of callAsync() or call(), each made once
    MaxInstances,   \* servers, numbered from 1
    Balancers,      \* the balancers a deployment may set
    MaxAttempts,    \* retryOptions_.maxAttempts
    Tokens,         \* retryOptions_.budgetTokens
    Hedging,        \* retryOptions_.hedgeAfterMs > 0
    Recovery,       \* retryOptions_.recoveryMinWorking > 0
    MaxChanges,     \* bound: changes of the instance list
    Nobody          \* the loop thread runs none of this code

Sides == {"primary", "backup"}
Chains == Calls \X Sides
Instances == 1..MaxInstances
NoInstance == 0

ASSUME ClusterAssumption ==
    /\ MaxInstances \in Nat
    /\ MaxAttempts \in Nat \ {0}
    /\ Tokens \in Nat
    /\ Hedging \in BOOLEAN /\ Recovery \in BOOLEAN
    /\ Nobody \notin Chains /\ IsFiniteSet(Calls)
    /\ Balancers \subseteq {"none", "healthy", "hash"}

VARIABLES
    instances,   \* instances_, in order
    idempotent,  \* the calls whose controller says idempotent()
    timed,       \* the calls whose controller has a timeout
    changes,     \* how often the list changed
    lb,          \* lb_; "none" when no balancer is set
    ring,        \* the hash balancer's ring_ and the size it was built for
    tokens,      \* tokens_ of retryBudget_
    retries,     \* retries_
    pc,          \* where a chain is
    attempt,     \* the attempt a chain is at
    target,      \* the healthy instance a chain's request is meant for
    firstIdx,    \* the index the backup's first attempt excludes; 0: none
    status,      \* status_ of a call's controller
    completed,   \* the completed flag of a call
    loop,        \* the chain whose code the loop thread runs
    returned,    \* what call() returned; "no" before
    doneCount,   \* history: how often done() ran
    sent,        \* history: requests a chain handed to channels
    answered     \* history: the calls some instance answered with kOk

budgetVars == <<tokens, retries>>
listVars == <<instances, changes>>
setUp == <<idempotent, timed, lb>>
chainVars == <<pc, attempt>>
vars == <<setUp, listVars, ring, budgetVars, chainVars, target, firstIdx, status, completed,
          loop, returned, doneCount, sent, answered>>

Pcs == {"idle", "timer", "attempt", "usable", "admitted", "unusable",
        "sent", "wrapped", "decide", "backoff", "succeeded", "ended"}

Init ==
    /\ instances \in {[i \in 1..n |-> i] : n \in 0..MaxInstances}
    /\ idempotent \in SUBSET Calls
    /\ timed \in SUBSET Calls
    /\ changes = 0
    /\ lb \in Balancers
    /\ ring = [size |-> -1, members |-> {}]
    /\ tokens = Tokens
    /\ retries = 0
    /\ pc = [ch \in Chains |-> "idle"]
    /\ attempt = [ch \in Chains |-> 1]
    /\ target = [ch \in Chains |-> NoInstance]
    /\ firstIdx = [c \in Calls |-> 0]
    /\ status = [c \in Calls |-> "ok"]
    /\ completed = [c \in Calls |-> FALSE]
    /\ loop = Nobody
    /\ returned = [c \in Calls |-> "no"]
    /\ doneCount = [c \in Calls |-> 0]
    /\ sent = [ch \in Chains |-> 0]
    /\ answered = {}

-----------------------------------------------------------------------------
(* The instance list *)

Listed == {instances[k] : k \in 1..Len(instances)}

\* addInstance: at the end, unless it is there.
AddInstance(i) ==
    /\ changes < MaxChanges
    /\ i \notin Listed
    /\ instances' = Append(instances, i)
    /\ changes' = changes + 1
    /\ UNCHANGED <<setUp, ring, budgetVars, chainVars, target, firstIdx, status, completed,
                   loop, returned, doneCount, sent, answered>>

\* removeInstance: those behind it move up.
RemoveInstance(i) ==
    /\ changes < MaxChanges
    /\ i \in Listed
    /\ instances' = SelectSeq(instances, LAMBDA j : j # i)
    /\ changes' = changes + 1
    /\ UNCHANGED <<setUp, ring, budgetVars, chainVars, target, firstIdx, status, completed,
                   loop, returned, doneCount, sent, answered>>

-----------------------------------------------------------------------------
(* The balancers: the indices a pick may return, where n + 1 is "none" *)

\* No balancer: the first healthy index, or the first one.
FirstPicks(healthy) ==
    IF healthy = {} THEN {1}
    ELSE {i \in healthy : \A j \in healthy : i <= j}

\* P2cBalancer and WeightedRoundRobinBalancer: some healthy index.  The weights
\* and samples that decide which are left out (current_ is shared without a lock).
HealthyPicks(healthy, n) == IF healthy = {} THEN {n + 1} ELSE healthy

\* ConsistentHashBalancer::pick rebuilds the ring when the number of instances
\* is not the one it was built for, and only then.
Rebuilt(healthy, n) ==
    IF ring.size = n THEN ring ELSE [size |-> n, members |-> healthy]

\* The key decides among the members of the ring.
HashPicks(healthy, n) ==
    LET members == Rebuilt(healthy, n).members
    IN  IF members = {} THEN {n + 1} ELSE members

Picks(healthy, n) ==
    CASE lb = "none" \/ n = 0 -> FirstPicks(healthy)
      [] lb = "healthy"       -> HealthyPicks(healthy, n)
      [] lb = "hash"          -> HashPicks(healthy, n)

-----------------------------------------------------------------------------
(* Pieces of attemptOnce *)

Goto(ch, l) == pc' = [pc EXCEPT ![ch] = l]

\* The loop thread returns from the code of ch, if it was running it.
LoopLeaves(ch) == loop' = IF loop = ch THEN Nobody ELSE loop

NoTarget(ch) == target' = [target EXCEPT ![ch] = NoInstance]

SetStatus(c, s) == status' = [status EXCEPT ![c] = s]

\* Mutant: the completed flag is not consulted.
SharedDoneAlways(c) ==
    /\ completed' = [completed EXCEPT ![c] = TRUE]
    /\ doneCount' = [doneCount EXCEPT ![c] = @ + 1]

\* Mutant: the test of the exchange is inverted.
SharedDoneInverted(c) ==
    /\ completed' = [completed EXCEPT ![c] = TRUE]
    /\ doneCount' = [doneCount EXCEPT ![c] = IF completed[c] THEN 1 ELSE @]

\* sharedDone: the exchange lets the first caller through.
SharedDone(c) ==
    /\ completed' = [completed EXCEPT ![c] = TRUE]
    /\ doneCount' = [doneCount EXCEPT ![c] = IF completed[c] THEN @ ELSE @ + 1]

\* Mutant: failCall reports the failure but does not record it.
FailCallSilently(c, s) == UNCHANGED status

FailCall(c, s) == SetStatus(c, s)

\* Mutant: the hedge timer passes no index to exclude.
ExcludedNone(ch) == {}

\* The first attempt of the backup excludes the index the primary picked.
Excluded(ch) == IF ch[2] = "backup" THEN {firstIdx[ch[1]]} ELSE {}

\* Only the caller's first attempt hedges, and only when it picked an index.
MayHedge(ch, idx) ==
    /\ Hedging /\ ch[2] = "primary" /\ attempt[ch] = 1
    /\ ch[1] \in idempotent
    /\ idx <= Len(instances)

\* Mutant: calls that are not idempotent are retried as well.
ShouldRetryAny(c, n) == n < MaxAttempts /\ status[c] = "unknown"

\* retry::shouldRetry.
ShouldRetry(c, n) == n < MaxAttempts /\ status[c] = "unknown" /\ c \in idempotent

\* Mutant: an empty budget grants a token.
TryConsumeAnyhow == tokens' = IF tokens > 0 THEN tokens - 1 ELSE 0

\* RetryBudget::tryConsume and refund, each a CAS loop.
TryConsume == tokens > 0 /\ tokens' = tokens - 1

Refunded == IF tokens < Tokens THEN tokens + 1 ELSE tokens

-----------------------------------------------------------------------------
(* The steps of a call *)

\* callAsync: the caller's thread enters attemptOnce.
CallAsync(c) ==
    /\ pc[<<c, "primary">>] = "idle"
    /\ Goto(<<c, "primary">>, "attempt")
    /\ UNCHANGED <<setUp, listVars, ring, budgetVars, attempt, target, firstIdx, status, completed,
                   loop, returned, doneCount, sent, answered>>

\* attemptOnce up to the hedge timer: the snapshot of the instances, the pick, and
\* whether an attempt that picked nothing healthy is admitted because every
\* circuit is open.
Snapshot(ch) ==
    LET n == Len(instances) IN
    /\ pc[ch] = "attempt"
    /\ \E healthy \in SUBSET ((1..n) \ Excluded(ch)) :
         /\ ring' = IF lb = "hash" /\ n > 0 THEN Rebuilt(healthy, n) ELSE ring
         /\ \E idx \in Picks(healthy, n) :
              LET timer(l) == IF MayHedge(ch, idx)
                              THEN pc' = [pc EXCEPT ![ch] = l, ![<<ch[1], "backup">>] = "timer"]
                              ELSE Goto(ch, l)
              IN  /\ firstIdx' = IF MayHedge(ch, idx) THEN [firstIdx EXCEPT ![ch[1]] = idx]
                                 ELSE IF ch[2] = "backup" THEN [firstIdx EXCEPT ![ch[1]] = 0]
                                 ELSE firstIdx
                  /\ \/ /\ idx \in healthy
                        /\ timer("usable")
                        /\ target' = [target EXCEPT ![ch] = instances[idx]]
                     \/ /\ idx \notin healthy
                        /\ timer("unusable")
                        /\ UNCHANGED target
                     \/ /\ idx \notin healthy /\ Recovery /\ n > 0
                        /\ timer("admitted")
                        /\ UNCHANGED target
    /\ UNCHANGED <<setUp, listVars, budgetVars, attempt, status, completed, loop, returned,
                   doneCount, sent, answered>>

\* failCall when nothing is available, or when the breaker denies the request.
FailFast(ch) ==
    /\ \/ pc[ch] = "unusable" /\ FailCall(ch[1], "unknown")
       \/ pc[ch] \in {"usable", "admitted"} /\ FailCall(ch[1], "error")
    /\ Goto(ch, "decide") /\ NoTarget(ch)
    /\ UNCHANGED <<setUp, listVars, ring, budgetVars, attempt, firstIdx, completed, loop,
                   returned, doneCount, sent, answered>>

\* The request is handed to the channel, which takes it, or refuses it because its
\* connection is closed and calls wrappedDone on the spot.
Send(ch) ==
    /\ pc[ch] \in {"usable", "admitted"}
    /\ sent' = [sent EXCEPT ![ch] = @ + 1]
    /\ \/ Goto(ch, "sent") /\ LoopLeaves(ch) /\ UNCHANGED <<status, target>>
       \/ Goto(ch, "wrapped") /\ SetStatus(ch[1], "unknown") /\ NoTarget(ch) /\ UNCHANGED loop
    /\ UNCHANGED <<setUp, listVars, ring, budgetVars, attempt, firstIdx, completed, returned,
                   doneCount, answered>>

\* The channel completes the request on the loop thread: a response, a lost
\* connection, or a server error or expired deadline.
ChannelCompletes(ch) ==
    /\ pc[ch] = "sent" /\ loop = Nobody
    /\ loop' = ch
    /\ Goto(ch, "wrapped") /\ NoTarget(ch)
    /\ \E s \in {"ok", "unknown", "error"} :
         /\ SetStatus(ch[1], s)
         /\ answered' = IF s = "ok" THEN answered \cup {ch[1]} ELSE answered
    /\ UNCHANGED <<setUp, listVars, ring, budgetVars, attempt, firstIdx, completed, returned,
                   doneCount, sent>>

\* wrappedDone reads the status; maybeRetry(true) refunds a token and is done.
WrappedDone(ch) ==
    /\ pc[ch] = "wrapped"
    /\ \/ /\ status[ch[1]] = "ok"
          /\ tokens' = Refunded
          /\ SharedDone(ch[1])
          /\ Goto(ch, "succeeded") /\ LoopLeaves(ch)
       \/ /\ status[ch[1]] # "ok"
          /\ Goto(ch, "decide")
          /\ UNCHANGED <<tokens, completed, doneCount, loop>>
    /\ UNCHANGED <<setUp, listVars, ring, retries, attempt, target, firstIdx, status, returned, sent,
                   answered>>

\* maybeRetry(false) reads the status again, and starts a retry thread or is done.
MaybeRetry(ch) ==
    /\ pc[ch] = "decide"
    /\ LoopLeaves(ch)
    /\ \/ /\ ShouldRetry(ch[1], attempt[ch]) /\ TryConsume
          /\ retries' = retries + 1
          /\ Goto(ch, "backoff")
          /\ UNCHANGED <<completed, doneCount>>
       \/ /\ ~ShouldRetry(ch[1], attempt[ch]) \/ tokens = 0
          /\ SharedDone(ch[1])
          /\ Goto(ch, "ended")
          /\ UNCHANGED budgetVars
    /\ UNCHANGED <<setUp, listVars, ring, attempt, target, firstIdx, status, returned, sent,
                   answered>>

\* The retry thread has slept for the backoff.
BackoffOver(ch) ==
    /\ pc[ch] = "backoff"
    /\ attempt' = [attempt EXCEPT ![ch] = @ + 1]
    /\ Goto(ch, "attempt")
    /\ UNCHANGED <<setUp, listVars, ring, budgetVars, target, firstIdx, status, completed, loop,
                   returned, doneCount, sent, answered>>

\* The hedge timer: nothing when the call is completed, else the backup's attempt.
HedgeTimer(c) ==
    LET ch == <<c, "backup">> IN
    /\ pc[ch] = "timer" /\ loop = Nobody
    /\ IF completed[c] THEN Goto(ch, "ended") /\ UNCHANGED loop
                       ELSE Goto(ch, "attempt") /\ loop' = ch
    /\ UNCHANGED <<setUp, listVars, ring, budgetVars, attempt, target, firstIdx, status, completed,
                   returned, doneCount, sent, answered>>

\* The caller's thread is in callAsync: it runs the first attempt, and its end too
\* if the attempt fails on the spot.
Calling(c) ==
    LET ch == <<c, "primary">> IN
    /\ attempt[ch] = 1 /\ loop # ch
    /\ pc[ch] \in {"attempt", "usable", "admitted", "unusable", "wrapped", "decide"}

\* call() returns when done() ran, or when both of its windows are over.  Each is
\* two seconds longer than the call's timeout, within which the first attempt of
\* a call that has one was completed.  Without a timeout they are 15 seconds each,
\* and nothing completes the attempt.
CallReturns(c) ==
    /\ pc[<<c, "primary">>] # "idle" /\ returned[c] = "no" /\ ~Calling(c)
    /\ \/ completed[c]
       \/ c \notin timed
       \/ pc[<<c, "primary">>] \in {"decide", "backoff", "succeeded", "ended"}
       \/ attempt[<<c, "primary">>] > 1
    /\ returned' = [returned EXCEPT ![c] = IF status[c] = "ok" THEN "true" ELSE "false"]
    /\ UNCHANGED <<setUp, listVars, ring, budgetVars, chainVars, target, firstIdx, status, completed,
                   loop, doneCount, sent, answered>>

ChainStep(ch) ==
    \/ Snapshot(ch) \/ FailFast(ch) \/ Send(ch) \/ ChannelCompletes(ch)
    \/ WrappedDone(ch) \/ MaybeRetry(ch) \/ BackoffOver(ch)

Next ==
    \/ \E i \in Instances : AddInstance(i) \/ RemoveInstance(i)
    \/ \E c \in Calls : CallAsync(c) \/ HedgeTimer(c) \/ CallReturns(c)
    \/ \E ch \in Chains : ChainStep(ch)

Spec == Init /\ [][Next]_vars

\* Threads get to run, timers fire, and a channel completes what it took
\* (CallsComplete of RpcChannel, for calls with a deadline).
Fairness ==
    /\ \A ch \in Chains : WF_vars(Snapshot(ch) \/ FailFast(ch) \/ Send(ch) \/ WrappedDone(ch)
                                    \/ MaybeRetry(ch) \/ BackoffOver(ch))
                         /\ SF_vars(ch[1] \in timed /\ ChannelCompletes(ch))
    /\ \A c \in Calls : SF_vars(HedgeTimer(c)) /\ WF_vars(CallReturns(c))

FairSpec == Spec /\ Fairness

-----------------------------------------------------------------------------
(* Properties *)

TypeOK ==
    /\ idempotent \subseteq Calls /\ timed \subseteq Calls /\ instances \in Seq(Instances) /\ changes \in Nat
    /\ tokens \in 0..Tokens /\ retries \in Nat
    /\ pc \in [Chains -> Pcs] /\ attempt \in [Chains -> 1..MaxAttempts]
    /\ target \in [Chains -> Instances \cup {NoInstance}]
    /\ firstIdx \in [Calls -> Nat]
    /\ status \in [Calls -> {"ok", "unknown", "error"}]
    /\ completed \in [Calls -> BOOLEAN]
    /\ loop \in Chains \cup {Nobody}
    /\ returned \in [Calls -> {"no", "true", "false"}]
    /\ doneCount \in [Calls -> Nat] /\ sent \in [Chains -> Nat]
    /\ answered \subseteq Calls

Over == {"succeeded", "ended"}

\* callAsync: "the completion flag makes the first finisher win and drops the
\* others": whatever retries and backups do, done() runs at most once, and has run
\* when no chain is under way.
DoneOnce ==
    \A c \in Calls :
        /\ doneCount[c] <= 1
        /\ pc[<<c, "primary">>] \in Over /\ pc[<<c, "backup">>] \in Over \cup {"idle"} =>
               doneCount[c] = 1

\* RetryPolicy.h: "only idempotent calls are retried", and maxAttempts bounds a
\* chain.  A call that is not idempotent is handed to a channel once at most; one
\* that is, once per attempt and chain.
SendsBounded ==
    \A c \in Calls :
        sent[<<c, "primary">>] + sent[<<c, "backup">>] <=
            IF c \notin idempotent THEN 1 ELSE IF Hedging THEN 2 * MaxAttempts ELSE MaxAttempts

\* RetryPolicy.h: "a token budget caps retries cluster-wide".  At any time the
\* retries of all calls exceed the budget by no more than the chains that succeeded.
RetriesBudgeted == retries <= Tokens + Cardinality({ch \in Chains : pc[ch] = "succeeded"})

\* RpcController's status_ is kOk from the start, so a path that forgets to write
\* it reports a success.  done() never runs with kOk, and call() with a timeout
\* never returns true, for a call that no instance answered.
SuccessIsReal ==
    \A c \in Calls \ answered :
        /\ completed[c] => status[c] # "ok"
        /\ c \in timed => returned[c] # "true"

\* attemptOnce: "send a backup to another instance", as long as the list does not
\* change and neither is a recovery attempt.
BackupElsewhere ==
    \A c \in Calls :
        LET b == <<c, "backup">>
            p == <<c, "primary">>
        IN  changes = 0 /\ attempt[b] = 1 /\ attempt[p] = 1 /\ target[b] # NoInstance =>
                target[b] # target[p]

\* "The caller observes the failure through the RpcController status instead of
\* hanging": every call with a timeout completes, and call() returns.
CallCompletes ==
    \A c \in Calls :
        c \in timed /\ pc[<<c, "primary">>] # "idle" ~> (doneCount[c] = 1 /\ returned[c] # "no")
==============================================================================
