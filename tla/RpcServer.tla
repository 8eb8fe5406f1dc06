------------------------------ MODULE RpcServer ------------------------------
(***************************************************************************)
(* src/RpcServer.cpp with ConcurrencyLimiter, and what a graceful stop     *)
(* needs of TcpServer, ThreadPool and TcpConnection.                       *)
(*                                                                         *)
(* Threads: the main loop accepts and runs TcpServer::stopInLoop; the I/O  *)
(* loop of a connection reads its messages and runs its functors in order; *)
(* executor threads (the coroutine workers of main.cpp) run handleRequest, *)
(* any number of requests at once; every stopGracefully() starts a thread. *)
(* A step is one access to state that threads share: a load, a CAS, a      *)
(* fetch_add, a push to a loop's queue.                                    *)
(*                                                                         *)
(* Each connection has an I/O loop of its own (threadNum > 0).             *)
(***************************************************************************)
EXTENDS Integers, Sequences, FiniteSets

CONSTANTS
    Requests,    \* messages that clients may send, each once
    Conns,       \* connections that clients may open
    Stoppers,    \* calls of stopGracefully()
    Limits,      \* the limits a deployment may configure
    NoLimiter,   \* setMaxConcurrency() was not called
    SizeT        \* std::size_t wraps around at SizeT

ASSUME ServerAssumption ==
    /\ IsFiniteSet(Requests)
    /\ NoLimiter \notin Nat
    /\ SizeT \in Nat /\ Cardinality(Requests) < SizeT
    /\ Limits \subseteq Nat \cup {NoLimiter}

VARIABLES
    limiter,    \* max_ of the limiter, or NoLimiter
    current,    \* current_ of the limiter
    inflight,   \* inflight_
    stopping,   \* stopping_
    kind,       \* the frame type of a message, once it has arrived
    conn,       \* the connection a message arrives on
    pc,         \* where the processing of a message is
    connState,  \* state_ of a connection; "none" before it is accepted
    loopQ,      \* the functors pending in a connection's loop
    loopState,  \* a connection's loop
    mainLoop,   \* the main loop
    listening,  \* listening_ of the acceptor
    started,    \* started_ of the TcpServer
    stopPc,     \* where a stop thread is
    timedOut,   \* the stop threads that gave up waiting
    answers,    \* history: responses handed to the socket, per message
    unsent,     \* history: messages whose response sendInLoop could not hand over
    began       \* history: the requests in flight when the stop began

limitVars == <<limiter, current, inflight>>
requestVars == <<kind, conn, pc>>
loopVars == <<connState, loopQ, loopState>>
stopVars == <<stopping, listening, started, stopPc, timedOut, mainLoop, began>>
sentVars == <<answers, unsent>>
vars == <<limitVars, requestVars, loopVars, stopVars, sentVars>>

\* Steps of handleRequest that hold a slot of the limiter, or count in inflight_.
Holding == {"count", "handling", "release"}
Counted == {"handling", "release", "uncount"}
Holders == {r \in Requests : pc[r] \in Holding}
InFlight == {r \in Requests : pc[r] \in Counted}

Kinds == {"request", "oneway", "heartbeat", "other"}
Functor == [op : {"established", "close", "quit"}] \cup [op : {"send"}, req : Requests]

TypeOK ==
    /\ limiter \in Limits /\ current \in 0..SizeT - 1 /\ inflight \in 0..SizeT - 1
    /\ kind \in [Requests -> Kinds \cup {"none"}]
    /\ conn \in [Requests -> Conns]
    /\ pc \in [Requests -> {"new", "queued", "admit", "reply", "push", "done"}
                               \cup Holding \cup Counted]
    /\ connState \in [Conns -> {"none", "Connecting", "Connected", "Disconnected"}]
    /\ loopQ \in [Conns -> Seq(Functor)]
    /\ loopState \in [Conns -> {"running", "hangup", "quitting", "ended"}]
    /\ mainLoop \in {"running", "quitting", "ended"}
    /\ stopping \in BOOLEAN /\ listening \in BOOLEAN /\ started \in BOOLEAN
    /\ stopPc \in [Stoppers -> {"new", "waiting", "stop", "posted", "closed", "join",
                                "notify", "done"}]
    /\ timedOut \subseteq Stoppers
    /\ answers \in [Requests -> Nat] /\ unsent \subseteq Requests
    /\ began \subseteq Requests

Init ==
    /\ limiter \in Limits /\ current = 0 /\ inflight = 0
    /\ kind = [r \in Requests |-> "none"]
    /\ conn \in [Requests -> Conns]
    /\ pc = [r \in Requests |-> "new"]
    /\ connState = [c \in Conns |-> "none"]
    /\ loopQ = [c \in Conns |-> <<>>]
    /\ loopState = [c \in Conns |-> "running"]
    /\ mainLoop = "running"
    /\ stopping = FALSE /\ listening = TRUE /\ started = TRUE
    /\ stopPc = [s \in Stoppers |-> "new"]
    /\ timedOut = {}
    /\ answers = [r \in Requests |-> 0] /\ unsent = {}
    /\ began = {}

-----------------------------------------------------------------------------
(* Connections and their loops *)

Task(op) == [op |-> op]
Send(r) == [op |-> "send", req |-> r]

GoTo(r, label) == pc' = [pc EXCEPT ![r] = label]

Post(C, f) == loopQ' = [c \in Conns |-> IF c \in C THEN Append(loopQ[c], f) ELSE loopQ[c]]

\* Acceptor::handleRead and TcpServer::newConnection, on the main loop.
NewConnection(c) ==
    /\ listening /\ mainLoop # "ended"
    /\ connState[c] = "none"
    /\ connState' = [connState EXCEPT ![c] = "Connecting"]
    /\ Post({c}, Task("established"))
    /\ UNCHANGED <<limitVars, requestVars, loopState, stopVars, sentVars>>

\* connectEstablished and forceCloseInLoop; a close leaves other states alone.
Turned(state, f) ==
    CASE f.op = "established" -> "Connected"
      [] f.op = "close" /\ state = "Connected" -> "Disconnected"
      [] OTHER -> state

\* sendInLoop of the response to r.  It reaches the socket, now or through
\* outputBuffer_, unless write() fails, or encode() made it an empty string because
\* the body is longer than kMaxBodyLen; the connection stays open all the same.
SendInLoop(c, r) ==
    \/ connState[c] = "Disconnected" /\ UNCHANGED <<answers, unsent>>
    \/ /\ connState[c] # "Disconnected"
       /\ answers' = [answers EXCEPT ![r] = @ + 1] /\ UNCHANGED unsent
    \/ /\ connState[c] # "Disconnected"
       /\ unsent' = unsent \cup {r} /\ UNCHANGED answers

\* The loop of c runs its oldest functor.
RunFunctor(c) ==
    /\ loopState[c] \in {"running", "quitting"} /\ loopQ[c] # <<>>
    /\ LET f == Head(loopQ[c]) IN
        /\ connState' = [connState EXCEPT ![c] = Turned(@, f)]
        /\ loopState' = [loopState EXCEPT ![c] = IF f.op = "quit" THEN "quitting" ELSE @]
        /\ IF f.op = "send" THEN SendInLoop(c, f.req) ELSE UNCHANGED <<answers, unsent>>
    /\ loopQ' = [loopQ EXCEPT ![c] = Tail(@)]
    /\ UNCHANGED <<limitVars, requestVars, stopVars>>

\* A loop that was told to quit leaves loop(), with whatever is still queued.
LoopEnds(c) ==
    /\ loopState[c] = "quitting"
    /\ loopState' = [loopState EXCEPT ![c] = "ended"]
    /\ UNCHANGED <<limitVars, requestVars, connState, loopQ, stopVars, sentVars>>

\* handleClose on the connection's loop: a read found the end of the input, or the
\* connection was evicted as idle or as a slow consumer.
HandleClose(c) ==
    /\ loopState[c] \in {"running", "quitting"} /\ connState[c] = "Connected"
    /\ connState' = [connState EXCEPT ![c] = "Disconnected"]
    /\ UNCHANGED <<limitVars, requestVars, loopQ, loopState, stopVars, sentVars>>

\* Channel::handleEvent on a hang-up: handleClose runs first ...
Hangup(c) ==
    /\ loopState[c] = "running" /\ connState[c] = "Connected"
    /\ connState' = [connState EXCEPT ![c] = "Disconnected"]
    /\ loopState' = [loopState EXCEPT ![c] = "hangup"]
    /\ UNCHANGED <<limitVars, requestVars, loopQ, stopVars, sentVars>>

\* ... then handleRead passes on what the peer sent before it closed, until it
\* finds the end.
HangupEnds(c) ==
    /\ loopState[c] = "hangup"
    /\ loopState' = [loopState EXCEPT ![c] = "running"]
    /\ UNCHANGED <<limitVars, requestVars, connState, loopQ, stopVars, sentVars>>

-----------------------------------------------------------------------------
(* Requests *)

\* RpcServer::onMessage on the connection's loop.  A reply is written at once,
\* because send() runs on the connection's own loop; after a hang-up it is dropped.
OnMessage(r) ==
    /\ pc[r] = "new"
    /\ \/ loopState[conn[r]] = "running" /\ connState[conn[r]] = "Connected"
       \/ loopState[conn[r]] = "hangup"
    /\ \E k \in Kinds :
        /\ kind' = [kind EXCEPT ![r] = k]
        /\ \/ /\ k = "heartbeat" \/ (k = "request" /\ stopping)
              /\ SendInLoop(conn[r], r)
              /\ GoTo(r, "done")
           \/ /\ k = "other" \/ (k = "oneway" /\ stopping)
              /\ GoTo(r, "done")
              /\ UNCHANGED <<answers, unsent>>
           \/ /\ k \in {"request", "oneway"} /\ ~stopping
              /\ GoTo(r, "queued")
              /\ UNCHANGED <<answers, unsent>>
    /\ UNCHANGED <<limitVars, conn, loopVars, stopVars>>

\* Mutant: the done callback does not look at reply.
AfterHandlingAlways(r) == "reply"

\* sendResponse() and the done callback answer requests only.
AfterHandling(r) == IF kind[r] = "oneway" THEN "done" ELSE "reply"

\* handleRequest starts on an executor thread and reads stopping_.
HandleRequest(r) ==
    /\ pc[r] = "queued"
    /\ GoTo(r, IF stopping THEN AfterHandling(r) ELSE "admit")
    /\ UNCHANGED <<limitVars, kind, conn, loopVars, stopVars, sentVars>>

\* Mutant: <= for <.
HasRoomForOneMore == current <= limiter

HasRoom == current < limiter

\* ConcurrencyLimiter::tryAcquire; a failed CAS is retried, so that the loop
\* takes effect at its last load or CAS.
TryAcquire(r) ==
    /\ pc[r] = "admit"
    /\ \/ /\ limiter \in {NoLimiter, 0}
          /\ GoTo(r, "count")
          /\ UNCHANGED current
       \/ /\ limiter \notin {NoLimiter, 0} /\ HasRoom
          /\ current' = (current + 1) % SizeT
          /\ GoTo(r, "count")
       \/ /\ limiter \notin {NoLimiter, 0} /\ ~HasRoom
          /\ GoTo(r, AfterHandling(r))
          /\ UNCHANGED current
    /\ UNCHANGED <<limiter, inflight, kind, conn, loopVars, stopVars, sentVars>>

\* Mutant: a request is counted only once its body and method are known to be good.
CountAfterDecode(r) ==
    /\ pc[r] = "count"
    /\ \E next \in {"handling", "release"} :
        /\ inflight' = IF next = "handling" THEN (inflight + 1) % SizeT ELSE inflight
        /\ GoTo(r, next)
    /\ UNCHANGED <<limiter, current, kind, conn, loopVars, stopVars, sentVars>>

\* The request is counted; it runs its handler unless its body does not decode
\* or its method is not registered.
Count(r) ==
    /\ pc[r] = "count"
    /\ inflight' = (inflight + 1) % SizeT
    /\ \E next \in {"handling", "release"} : GoTo(r, next)
    /\ UNCHANGED <<limiter, current, kind, conn, loopVars, stopVars, sentVars>>

\* The handler calls done(), on whatever thread.
HandlerDone(r) ==
    /\ pc[r] = "handling"
    /\ GoTo(r, "release")
    /\ UNCHANGED <<limitVars, kind, conn, loopVars, stopVars, sentVars>>

Released == (current - 1) % SizeT

\* releaseSlot(), first half: the limiter, which does not look at max_.
ReleaseLimiter(r) ==
    /\ pc[r] = "release"
    /\ current' = IF limiter = NoLimiter THEN current ELSE Released
    /\ GoTo(r, "uncount")
    /\ UNCHANGED <<limiter, inflight, kind, conn, loopVars, stopVars, sentVars>>

\* releaseSlot(), second half: inflight_.
Uncount(r) ==
    /\ pc[r] = "uncount"
    /\ inflight' = (inflight - 1) % SizeT
    /\ GoTo(r, AfterHandling(r))
    /\ UNCHANGED <<limiter, current, kind, conn, loopVars, stopVars, sentVars>>

\* TcpConnection::send off the connection's loop: it reads state_ ...
SendChecks(r) ==
    /\ pc[r] = "reply"
    /\ GoTo(r, IF connState[conn[r]] = "Connected" THEN "push" ELSE "done")
    /\ UNCHANGED <<limitVars, kind, conn, loopVars, stopVars, sentVars>>

\* ... and queues sendInLoop.  A functor queued in a loop that has ended is
\* never run.
SendPushes(r) ==
    /\ pc[r] = "push"
    /\ Post({conn[r]}, Send(r))
    /\ GoTo(r, "done")
    /\ UNCHANGED <<limitVars, kind, conn, connState, loopState, stopVars, sentVars>>

-----------------------------------------------------------------------------
(* Stopping *)

StopTo(s, label) == stopPc' = [stopPc EXCEPT ![s] = label]

\* stopGracefully() on the main loop, from the timer that main() runs every
\* 200 ms once a signal was received: each call starts another thread.
StopGracefully(s) ==
    /\ mainLoop # "ended" /\ stopPc[s] = "new"
    /\ stopping' = TRUE
    /\ listening' = FALSE
    /\ began' = IF stopping THEN began ELSE InFlight
    /\ StopTo(s, "waiting")
    /\ UNCHANGED <<limitVars, requestVars, loopVars, started, timedOut, mainLoop, sentVars>>

\* Mutant: the last request is not waited for.
DrainedAlmost == inflight <= 1

\* Mutant: the deadline is not looked at.
TimesOutNever == FALSE

\* How the wait may end.
Drained == inflight = 0
TimesOut == inflight > 0

\* The stop thread sees no request in flight, or its deadline has passed.
WaitEnds(s) ==
    /\ stopPc[s] = "waiting"
    /\ \/ Drained /\ UNCHANGED timedOut
       \/ TimesOut /\ timedOut' = timedOut \cup {s}
    /\ StopTo(s, "stop")
    /\ UNCHANGED <<limitVars, requestVars, loopVars, stopping, listening, started,
                   mainLoop, began, sentVars>>

\* TcpServer::stop: only the first caller stops anything.
TcpStop(s) ==
    /\ stopPc[s] = "stop"
    /\ started' = FALSE
    /\ StopTo(s, IF started THEN "posted" ELSE "notify")
    /\ UNCHANGED <<limitVars, requestVars, loopVars, stopping, listening, timedOut,
                   mainLoop, began, sentVars>>

\* Mutant: connections that are still being set up are skipped.
OpenAndEstablished == {c \in Conns : connState[c] = "Connected"}

\* The connections that were accepted.
Open == {c \in Conns : connState[c] # "none"}

\* TcpServer::stopInLoop, a functor of the main loop the stop thread waits for.
\* forceClose() does nothing to a connection that is closed already.
StopInLoop(s) ==
    /\ stopPc[s] = "posted" /\ mainLoop # "ended"
    /\ listening' = FALSE
    /\ Post(Open, Task("close"))
    /\ StopTo(s, "closed")
    /\ UNCHANGED <<limitVars, requestVars, connState, loopState, stopping, started,
                   timedOut, mainLoop, began, sentVars>>

\* ThreadPool::stop: quit every loop ...
QuitLoops(s) ==
    /\ stopPc[s] = "closed"
    /\ Post(Conns, Task("quit"))
    /\ StopTo(s, "join")
    /\ UNCHANGED <<limitVars, requestVars, connState, loopState, stopping, listening,
                   started, timedOut, mainLoop, began, sentVars>>

\* ... and join its thread.
JoinLoops(s) ==
    /\ stopPc[s] = "join"
    /\ \A c \in Conns : loopState[c] = "ended"
    /\ StopTo(s, "notify")
    /\ UNCHANGED <<limitVars, requestVars, loopVars, stopping, listening, started,
                   timedOut, mainLoop, began, sentVars>>

\* onDone(), which in main() quits the main loop.
OnDone(s) ==
    /\ stopPc[s] = "notify"
    /\ mainLoop' = IF mainLoop = "running" THEN "quitting" ELSE mainLoop
    /\ StopTo(s, "done")
    /\ UNCHANGED <<limitVars, requestVars, loopVars, stopping, listening, started,
                   timedOut, began, sentVars>>

\* The main loop ends its iteration and leaves loop().
MainLoopEnds ==
    /\ mainLoop = "quitting"
    /\ mainLoop' = "ended"
    /\ UNCHANGED <<limitVars, requestVars, loopVars, stopping, listening, started,
                   stopPc, timedOut, began, sentVars>>

-----------------------------------------------------------------------------
Loop(c) == RunFunctor(c) \/ LoopEnds(c) \/ HangupEnds(c)

Executor(r) ==
    \/ HandleRequest(r) \/ TryAcquire(r) \/ Count(r) \/ HandlerDone(r)
    \/ ReleaseLimiter(r) \/ Uncount(r) \/ SendChecks(r) \/ SendPushes(r)

StopThread(s) == WaitEnds(s) \/ TcpStop(s) \/ QuitLoops(s) \/ JoinLoops(s) \/ OnDone(s)

Next ==
    \/ \E c \in Conns : NewConnection(c) \/ Loop(c) \/ HandleClose(c) \/ Hangup(c)
    \/ \E r \in Requests : OnMessage(r) \/ Executor(r)
    \/ \E s \in Stoppers : StopGracefully(s) \/ StopThread(s) \/ StopInLoop(s)
    \/ MainLoopEnds

Spec == Init /\ [][Next]_vars

\* The I/O loops, the stop threads and, until it is told to quit, the main loop
\* keep running.  Nothing is assumed of clients, signals, executors or handlers.
Fairness ==
    /\ \A c \in Conns : WF_vars(Loop(c))
    /\ \A s \in Stoppers : WF_vars(StopThread(s) \/ StopInLoop(s))

FairSpec == Spec /\ Fairness

-----------------------------------------------------------------------------
(* Properties *)

\* The two counters never drift from the requests they stand for, whichever way
\* handleRequest ends: inflight_ is the number of requests between fetch_add and
\* fetch_sub, and under a limit current_ is the number between tryAcquire and
\* release().
SlotsExact ==
    /\ inflight = Cardinality(InFlight)
    /\ limiter \notin {NoLimiter, 0} => current = Cardinality(Holders)

\* Overload protection (setMaxConcurrency): no more handlers run at once than the
\* limit allows, although they start and end on different threads.
HandlersBounded ==
    limiter \notin {NoLimiter, 0} =>
        Cardinality({r \in Requests : pc[r] = "handling"}) <= limiter

\* stopGracefully() waits for the requests in flight when it was called: a stop
\* thread that did not run into its timeout goes on to close the connections only
\* after the handler of each of them called done() and its slot was released.
DrainedBeforeClose ==
    \A s \in Stoppers :
        (stopPc[s] \notin {"new", "waiting"} /\ s \notin timedOut)
            => began \cap InFlight = {}

\* onMessage, handleRequest and the done callback answer a message at most once if
\* it wants an answer and never if it does not.  An answer that is due goes missing
\* in four ways only: the connection is closed, the end of its loop leaves the answer
\* in the queue, write() fails, or encode() finds the body too long.
AnsweredOnce ==
    \A r \in Requests :
        /\ answers[r] <= IF kind[r] \in {"request", "heartbeat"} THEN 1 ELSE 0
        /\ (pc[r] = "done" /\ kind[r] \in {"request", "heartbeat"} /\ answers[r] = 0) =>
              \/ connState[conn[r]] = "Disconnected"
              \/ \E i \in 1..Len(loopQ[conn[r]]) : loopQ[conn[r]][i] = Send(r)
              \/ r \in unsent

\* TcpServer::stop closes before it tears down: no I/O loop ends, so no thread of
\* the pool can be joined, while its connection is still open or has yet to be
\* established, however accepts, closes and quits were queued.
ClosedBeforeJoin ==
    \A c \in Conns : loopState[c] = "ended" => connState[c] \in {"none", "Disconnected"}

\* A graceful stop ends: once stopGracefully() was called onDone() runs, however
\* many calls race and even if no handler ever calls done().
StopCompletes == stopping ~> (\E s \in Stoppers : stopPc[s] = "done")

\* include/RpcServer.h:56, "onDone is invoked when shutdown completes": when a
\* stop thread has called onDone() every connection was closed.
OnDoneAfterClose ==
    (\E s \in Stoppers : stopPc[s] = "done") =>
        \A c \in Conns : connState[c] \in {"none", "Disconnected"}
=============================================================================
