---------------------------- MODULE TcpConnection ----------------------------
(***************************************************************************)
(* src/TcpConnection.cpp: one connection that sends messages, and its peer,*)
(* the same code, that receives them.                                      *)
(*                                                                         *)
(* The loop thread runs functors, write and read events and timers; an     *)
(* application thread sends the messages but the last, which the loop      *)
(* thread sends itself, and may call forceClose().  shutdown(), which the  *)
(* class offers and nothing in the repository calls, is called in the      *)
(* loop.  The kernel holds up to Window units and moves them in pieces of  *)
(* any size.                                                               *)
(***************************************************************************)
EXTENDS RpcFramer, FiniteSetsExt

CONSTANTS
    Bodies,     \* a sequence of message bodies that may be sent
    Scripts,    \* the sequences of indexes of Bodies that are sent
    Mark,       \* highWaterMark_, 0 for none
    Window      \* units in the kernel's buffers

ASSUME ConnectionAssumption ==
    /\ Mark \in Nat /\ Window \in Nat \ {0}
    /\ Bodies \in Seq(Seq(Int))
    /\ \A s \in Scripts : s \in Seq(1..Len(Bodies)) /\ s # <<>>

VARIABLES
    script,           \* the messages to send, by index of Bodies
    state,            \* state_
    outputBuffer,     \* outputBuffer_
    reading,          \* channel_ is registered for POLLIN, and so for a hang-up
    writing,          \* channel_->isWriting()
    highWaterActive,  \* highWaterActive_
    timers,           \* slow-consumer timers that are armed
    functors,         \* functors queued in the loop
    app,              \* the application thread: in send() after its check, or not
    next,             \* the next message of the application thread
    called,           \* the other calls made: "send", "shutdown", "forceClose"
    wire,             \* units in the kernel
    fin,              \* shutdown(SHUT_WR) was called
    peer,             \* the receiver: open, at end of file, or closed by itself
    inputBuffer,      \* inputBuffer_ of the receiver
    taken,            \* history: the messages sendInLoop took, in order
    delivered,        \* history: the messages passed to the receiver's callback
    closes            \* history: runs of handleClose

sendVars == <<outputBuffer, writing, highWaterActive, timers, wire, taken>>
peerVars == <<peer, inputBuffer, delivered>>
callVars == <<app, next, called>>
vars == <<script, state, reading, functors, fin, closes, sendVars, peerVars, callVars>>

\* A functor of the loop; that of send() has captured the frame.
Functor(op, frame) == [op |-> op, frame |-> frame]

\* TcpServer::newConnection queues connectEstablished.
Init ==
    /\ script \in Scripts
    /\ state = "Connecting" /\ reading = FALSE
    /\ outputBuffer = <<>> /\ writing = FALSE
    /\ highWaterActive = FALSE /\ timers = 0
    /\ functors = <<Functor("establish", <<>>)>>
    /\ app = "idle" /\ next = 1 /\ called = {}
    /\ wire = <<>> /\ fin = FALSE
    /\ peer = "open" /\ inputBuffer = <<>>
    /\ taken = <<>> /\ delivered = <<>> /\ closes = 0

LastMessage == Len(script)

Body(i) == Bodies[script[i]]

Frame(i) == EncodeFrame(i, Body(i))

-----------------------------------------------------------------------------
(* What the loop does *)

\* checkWriteBackpressureInLoop, after the output has grown to pending units.
CheckWriteBackpressure(pending) ==
    LET crossed == Mark > 0 /\ pending > Mark /\ ~highWaterActive IN
    /\ timers' = IF crossed THEN timers + 1 ELSE timers
    /\ highWaterActive' = (crossed \/ (highWaterActive /\ pending # 0))

\* The output grows by bytes and the loop watches for room.
AppendOutput(bytes) ==
    /\ outputBuffer' = outputBuffer \o bytes
    /\ writing' = TRUE
    /\ CheckWriteBackpressure(Len(outputBuffer) + Len(bytes))

\* Mutant: a message is written at once even when output is pending.
MayWriteAlways == TRUE

\* Only when nothing is pending may a message be written at once.
MayWrite == outputBuffer = <<>>

\* write() accepts the first k units; the rest is kept.
WritePart(f, k) ==
    /\ wire' = wire \o SubSeq(f, 1, k)
    /\ IF k < Len(f) THEN AppendOutput(SubSeq(f, k + 1, Len(f)))
       ELSE UNCHANGED <<outputBuffer, writing, highWaterActive, timers>>

\* write() fails after SHUT_WR or when the peer is gone: the message is lost.
WriteFails == MayWrite /\ (fin \/ peer # "open") /\ UNCHANGED sendVars

SendInLoop(f) ==
    IF state = "Disconnected" THEN UNCHANGED sendVars
    ELSE \/ WriteFails
         \/ /\ ~fin
            /\ IF MayWrite THEN \E k \in 0..Min({Len(f), Window - Len(wire)}) : WritePart(f, k)
               ELSE AppendOutput(f) /\ wire' = wire
            /\ taken' = IF f = <<>> THEN taken ELSE Append(taken, f[2])

\* handleClose: disableAll takes the socket out of the poller.
HandleClose ==
    /\ state' = "Disconnected"
    /\ reading' = FALSE /\ writing' = FALSE
    /\ closes' = closes + 1

\* Mutant: a closed connection is closed again.
ForceCloseAgain ==
    HandleClose /\ UNCHANGED <<outputBuffer, highWaterActive, timers, wire, taken>>

ForceCloseInLoop ==
    /\ IF state \in {"Connected", "Disconnecting"} THEN HandleClose
       ELSE UNCHANGED <<state, reading, writing, closes>>
    /\ UNCHANGED <<outputBuffer, highWaterActive, timers, wire, taken>>

\* doPendingFunctors runs the first functor.
RunFunctor ==
    LET f == Head(functors) IN
    /\ functors # <<>> /\ functors' = Tail(functors)
    /\ \/ /\ f.op = "establish"
          /\ state' = "Connected" /\ reading' = TRUE /\ UNCHANGED <<closes, sendVars>>
       \/ f.op = "forceClose" /\ ForceCloseInLoop
       \/ f.op = "send" /\ SendInLoop(f.frame) /\ UNCHANGED <<state, reading, closes>>
    /\ UNCHANGED <<script, fin, peerVars, callVars>>

\* The kernel accepts k units of the output; when all is written the overload is over.
WriteOutput ==
    /\ outputBuffer # <<>>
    /\ \E k \in 1..Min({Len(outputBuffer), Window - Len(wire)}) :
          /\ wire' = wire \o SubSeq(outputBuffer, 1, k)
          /\ outputBuffer' = Retrieve(outputBuffer, k)
    /\ highWaterActive' = (highWaterActive /\ outputBuffer' # <<>>)

\* handleWrite.  When all is written a pending shutdown is done.
HandleWrite ==
    /\ writing /\ WriteOutput
    /\ writing' = (outputBuffer' # <<>>)
    /\ fin' = (fin \/ (outputBuffer' = <<>> /\ state = "Disconnecting"))
    /\ UNCHANGED <<script, state, reading, functors, closes, timers, taken, peerVars, callVars>>

\* handleEvent when the peer has closed.  The poller reports the end as a hang-up,
\* for which closeCallback_ runs handleClose and readCallback_, finding the end
\* too, runs it again; it runs once when only the read finds the end, or when the
\* read fails.  If there was room as well, handleWrite runs on the closed connection.
HandleHangup ==
    /\ reading /\ peer # "open"
    /\ state' = "Disconnected"
    /\ reading' = FALSE /\ writing' = FALSE
    /\ closes' \in {closes + 1, closes + 2}
    /\ \/ writing /\ WriteOutput
       \/ UNCHANGED <<outputBuffer, highWaterActive, wire>>
    /\ UNCHANGED <<script, functors, fin, timers, taken, peerVars, callVars>>

\* Mutant: the flag outlives the timer.
FlagKept == highWaterActive

\* A timer that does not evict lets the next overload arm another.
FlagAfterTimer == FALSE

\* The slow-consumer timer of checkWriteBackpressureInLoop.
TimerFires ==
    /\ timers > 0 /\ timers' = timers - 1
    /\ IF state = "Connected" /\ highWaterActive /\ Len(outputBuffer) > Mark
       THEN HandleClose /\ UNCHANGED highWaterActive
       ELSE highWaterActive' = FlagAfterTimer /\ UNCHANGED <<state, reading, writing, closes>>
    /\ UNCHANGED <<script, functors, fin, outputBuffer, wire, taken, peerVars, callVars>>

\* send() in the loop thread.
SendFromLoop ==
    /\ "send" \notin called /\ called' = called \cup {"send"}
    /\ IF state = "Connected" THEN SendInLoop(Frame(LastMessage)) ELSE UNCHANGED sendVars
    /\ UNCHANGED <<script, state, reading, functors, fin, closes, app, next, peerVars>>

\* Mutant: shutdownInLoop does not look at the output.
ShutdownAtOnce == TRUE

\* shutdownInLoop's early return.
NothingPending == outputBuffer = <<>> /\ ~writing

\* shutdown() in the loop thread, with shutdownInLoop.
Shutdown ==
    /\ "shutdown" \notin called /\ called' = called \cup {"shutdown"}
    /\ state = "Connected" /\ state' = "Disconnecting"
    /\ fin' = NothingPending
    /\ UNCHANGED <<script, reading, functors, closes, app, next, sendVars, peerVars>>

-----------------------------------------------------------------------------
(* The application thread *)

\* send() reads state_ ...
SendCheck ==
    /\ app = "idle" /\ next < LastMessage
    /\ IF state = "Connected" THEN app' = "checked" /\ UNCHANGED next
       ELSE next' = next + 1 /\ UNCHANGED app
    /\ UNCHANGED <<script, state, reading, functors, fin, closes, called, sendVars, peerVars>>

\* ... and queues sendInLoop.
SendQueue ==
    /\ app = "checked" /\ app' = "idle"
    /\ functors' = Append(functors, Functor("send", Frame(next)))
    /\ next' = next + 1
    /\ UNCHANGED <<script, state, reading, fin, closes, called, sendVars, peerVars>>

ForceClose ==
    /\ "forceClose" \notin called /\ called' = called \cup {"forceClose"}
    /\ functors' = Append(functors, Functor("forceClose", <<>>))
    /\ UNCHANGED <<script, state, reading, fin, closes, app, next, sendVars, peerVars>>

-----------------------------------------------------------------------------
(* The receiver *)

\* handleRead reads k units and passes on the messages that are complete.
HandleRead ==
    /\ peer = "open" /\ wire # <<>>
    /\ \E k \in 1..Len(wire) :
          LET in == DecodeFrames(inputBuffer \o SubSeq(wire, 1, k)) IN
          /\ wire' = SubSeq(wire, k + 1, Len(wire))
          /\ inputBuffer' = in.rest
          /\ delivered' = delivered \o in.msgs
    /\ UNCHANGED <<script, state, reading, functors, fin, closes, outputBuffer, writing,
                   highWaterActive, timers, taken, peer, callVars>>

\* All was read and the sender has shut down or closed the connection.
ReceiveEof ==
    /\ peer = "open" /\ wire = <<>> /\ (fin \/ closes > 0)
    /\ peer' = "eof"
    /\ UNCHANGED <<script, state, reading, functors, fin, closes, sendVars, inputBuffer,
                   delivered, callVars>>

\* The receiver closes, whatever is on its way.
PeerCloses ==
    /\ peer = "open" /\ peer' = "closed"
    /\ UNCHANGED <<script, state, reading, functors, fin, closes, sendVars, inputBuffer,
                   delivered, callVars>>

LoopStep == RunFunctor \/ HandleWrite \/ HandleHangup \/ TimerFires

Next ==
    \/ LoopStep \/ SendFromLoop \/ Shutdown
    \/ SendCheck \/ SendQueue \/ ForceClose
    \/ HandleRead \/ ReceiveEof \/ PeerCloses

Spec == Init /\ [][Next]_vars

\* A timer that is armed fires.
FairSpec == Spec /\ WF_vars(TimerFires)

-----------------------------------------------------------------------------
(* Properties *)

\* What sendInLoop took, as the receiver should see it.
Sent == [k \in 1..Len(taken) |-> [id |-> taken[k], body |-> Body(taken[k])]]

\* The receiver gets the messages in the order sendInLoop took them, each once, none
\* skipped and with its own body, however they are cut into writes and reads.
DeliveredInOrder ==
    /\ Len(delivered) <= Len(Sent)
    /\ \A k \in 1..Len(delivered) : delivered[k] = Sent[k]

\* What was taken is never left behind: when the loop does not watch for room and
\* nothing is on its way, all has arrived, and shutdown() ends the stream only
\* after the last message.
NothingForgotten ==
    (\/ state # "Disconnected" /\ peer = "open" /\ wire = <<>> /\ ~writing
     \/ peer = "eof" /\ fin)
    => delivered = Sent

\* One hang-up event may run handleClose and its callback, which removes the
\* connection, twice.  After that event, and after an eviction or forceClose(), the
\* connection is closed for good, whatever timers, sends, forceClose() functors or
\* hang-ups are still to come: none closes it again, opens it, puts the socket,
\* whose descriptor may soon be another connection's, back into the poller, or
\* takes a message.
ClosedForGood ==
    [][state = "Disconnected" => UNCHANGED <<state, closes, reading, writing, taken, outputBuffer>>]_vars

\* "when the pending output exceeds highWaterMark for longer than slowConsumerTimeout
\* the connection is closed": a peer that does not read is not kept for ever,
\* whatever earlier overloads and their timers left behind.
SlowConsumerGoes ==
    (state = "Connected" /\ Mark > 0 /\ Len(outputBuffer) > Mark)
    ~> (state # "Connected" \/ Len(outputBuffer) <= Mark)
==============================================================================
