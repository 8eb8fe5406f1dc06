----------------------------- MODULE RpcChannel -----------------------------
(***************************************************************************)
(* src/RpcChannel.cpp: one TCP connection multiplexing many calls.         *)
(*                                                                         *)
(* Application threads issue calls; everything else (sending, timers,      *)
(* decoding, closing, reconnecting) happens on one EventLoop thread, which *)
(* executes functors in FIFO order.  request_id is the slot number plus    *)
(* one, that is, the index of the call in the sequence `pending`; freed    *)
(* slots are reused in FIFO order.                                         *)
(*                                                                         *)
(* Time is abstracted: an armed timer may fire at any later moment.  The   *)
(* peer may answer requests in any order, late, or never.  A socket write  *)
(* may be complete, partial, blocked or fail.                              *)
(*                                                                         *)
(* Every critical section of mutex_ is one step.  handleClose writes       *)
(* state_ before it takes the mutex; asyncCall reads state_ under the      *)
(* mutex, so a call that still sees the old value registers before the     *)
(* table is swapped, and equals a call that registered before handleClose  *)
(* began.  handleClose is therefore one step.  A call that slips in while  *)
(* doConnect fails at once equals one that slips in during a connect in    *)
(* progress, which then fails.                                             *)
(*                                                                         *)
(* Left out: connect() succeeding at once (a non-blocking TCP connect does *)
(* not), the destructor, and what a call computes (latencyEmaMs_, status   *)
(* texts, bodies).  A request too large to encode is one that the peer     *)
(* never answers.                                                          *)
(***************************************************************************)
EXTENDS Integers, Sequences, FiniteSets

CONSTANTS
    Calls,        \* invocations of asyncCall
    DeadlineCalls,\* those whose controller has timeoutMs > 0
    SyncCalls,    \* those made through call(), which waits for done
    LoopCalls,    \* those that a callback on the loop thread may issue, too
    NoCall,       \* the null pointer in a slot
    Heartbeats,   \* heartbeatIntervalMs_ > 0
    MaxConnects,  \* bound: connection attempts
    MaxQueue      \* bound: frames queued when a heartbeat is added

ASSUME CallsAssumption ==
    /\ DeadlineCalls \subseteq Calls
    /\ SyncCalls \subseteq Calls
    /\ LoopCalls \subseteq Calls
    /\ NoCall \notin Calls

\* call() on the loop thread would block the loop that has to complete it.
ASSUME NoSyncOnLoop == SyncCalls \cap LoopCalls = {}

ASSUME ConfigAssumption ==
    Heartbeats \in BOOLEAN /\ MaxConnects \in Nat \ {0} /\ MaxQueue \in Nat

VARIABLES
    \* the table of in-flight calls (under mutex_)
    pending,          \* pending_: slot -> call or NoCall; request_id = index
    freeSlots,        \* freeSlots_: FIFO of free ids
    \* the callers
    pc,               \* where the thread that issued the call is
    slot,             \* the id asyncCall obtained for the call (0: none yet)
    doneCount,        \* how often done() ran
    how,              \* how the call completed
    by,               \* history: the call for which the completing event was produced
    ending,           \* synchronous calls whose done() the loop may still be running
    \* the connection (loop thread)
    state,            \* state_
    reconnectEnabled, \* reconnectEnabled_
    reconnectTimer,   \* reconnectTimerId_ # 0
    connTimers,       \* connect timeouts armed by doConnect, never cancelled
    connects,         \* connection attempts so far (bound only)
    heartbeating,     \* some runEvery(onHeartbeatTick) is registered
    unanswered,       \* unansweredHeartbeats_
    \* bytes
    outQueue,         \* outputQueue_: frames not yet handed to the socket
    torn,             \* is the first frame of outQueue a remainder? of this connection?
    wire,             \* requests the peer of this connection may answer
    frag,             \* inputBuffer_: a response read in part
    \* the event loop
    functors,         \* pendingFunctors_
    deadlines,        \* armed deadline timers, never cancelled
    stopCalled        \* stop() was called

tableVars == <<pending, freeSlots>>
callVars  == <<pc, slot, doneCount, how, by, ending>>
connVars  == <<state, reconnectEnabled, reconnectTimer, connTimers, connects,
               heartbeating, unanswered>>
ioVars    == <<outQueue, torn, wire, frag>>
loopVars  == <<functors, deadlines, stopCalled>>
vars      == <<tableVars, callVars, connVars, ioVars, loopVars>>

-----------------------------------------------------------------------------
Frame     == [call : Calls, id : Nat]
Heartbeat == [call |-> NoCall, id |-> 0]
Fragment  == [call : Calls, id : Nat, fresh : BOOLEAN]
NoFrag    == [call |-> NoCall, id |-> 0, fresh |-> FALSE]
Deadline  == [owner : Calls, for : Calls, id : Nat]
States    == {"Idle", "Connecting", "Ready", "Closed"}
Places    == {"new", "registered", "armed", "returned", "cancelling"}
Outcomes  == {"none", "reply", "deadline", "cancelled", "closed", "refused"}

CallFunctor == [op : {"arm", "send", "cancel"}, call : Calls, id : Nat]

\* The first functor queued by the channel's creator: RpcClient::connect calls
\* start() before it hands the channel out.
StartFunctor == [op |-> "start", call |-> NoCall, id |-> 0]
StopFunctor  == [op |-> "stop", call |-> NoCall, id |-> 0]
Functor      == CallFunctor \cup {StartFunctor, StopFunctor}

TypeOK ==
    /\ pending \in Seq(Calls \cup {NoCall})
    /\ freeSlots \in Seq(Nat)
    /\ pc \in [Calls -> Places]
    /\ slot \in [Calls -> Nat]
    /\ doneCount \in [Calls -> Nat]
    /\ how \in [Calls -> Outcomes]
    /\ by \in [Calls -> Calls \cup {NoCall}]
    /\ ending \subseteq SyncCalls
    /\ state \in States
    /\ reconnectEnabled \in BOOLEAN
    /\ reconnectTimer \in BOOLEAN
    /\ connTimers \in Nat
    /\ connects \in Nat
    /\ heartbeating \in BOOLEAN
    /\ unanswered \in 0..2
    /\ outQueue \in Seq(Frame \cup {Heartbeat})
    /\ torn \in {"none", "here", "stale"}
    /\ wire \subseteq Frame
    /\ frag \in Fragment \cup {NoFrag}
    /\ functors \in Seq(Functor)
    /\ deadlines \subseteq Deadline
    /\ stopCalled \in BOOLEAN

Init ==
    /\ pending = <<>>
    /\ freeSlots = <<>>
    /\ pc = [c \in Calls |-> "new"]
    /\ slot = [c \in Calls |-> 0]
    /\ doneCount = [c \in Calls |-> 0]
    /\ how = [c \in Calls |-> "none"]
    /\ by = [c \in Calls |-> NoCall]
    /\ ending = {}
    /\ state = "Idle"
    /\ reconnectEnabled = TRUE
    /\ reconnectTimer = FALSE
    /\ connTimers = 0
    /\ connects = 0
    /\ heartbeating = FALSE
    /\ unanswered = 0
    /\ outQueue = <<>>
    /\ torn = "none"
    /\ wire = {}
    /\ frag = NoFrag
    /\ functors = <<StartFunctor>>
    /\ deadlines = {}
    /\ stopCalled = FALSE

-----------------------------------------------------------------------------
(* The table *)

\* Mutant: the slot number is used as the id, without the + 1.
NextIdOffByOne == IF freeSlots = <<>> THEN Len(pending) ELSE Head(freeSlots)

\* The id a new call gets: the oldest free slot, or a new one at the end.
NextId == IF freeSlots = <<>> THEN Len(pending) + 1 ELSE Head(freeSlots)

Placed(c) ==
    IF freeSlots = <<>> THEN Append(pending, c)
                        ELSE [pending EXCEPT ![Head(freeSlots)] = c]

\* Mutant: freeSlots_.pop() is forgotten.
FreeKept == freeSlots

FreeLeft == IF freeSlots = <<>> THEN <<>> ELSE Tail(freeSlots)

\* Mutant: the bound is checked with slot + 1.
OccupiedShort(id) == id \in 1..(Len(pending) - 1) /\ pending[id] # NoCall

Occupied(id) == id \in 1..Len(pending) /\ pending[id] # NoCall

\* Mutant: the loop over the doomed calls stops one short.
OccupantsButLast(tbl) == {tbl[i] : i \in 1..(Len(tbl) - 1)} \ {NoCall}

Occupants(tbl) == {tbl[i] : i \in 1..Len(tbl)} \ {NoCall}

\* done() runs for every call in S.
Finish(S, h, b) ==
    /\ doneCount' = [c \in Calls |-> IF c \in S THEN doneCount[c] + 1 ELSE doneCount[c]]
    /\ how' = [c \in Calls |-> IF c \in S THEN h ELSE how[c]]
    /\ by' = [c \in Calls |-> IF c \in S THEN b ELSE by[c]]

\* A call leaves the table before its done() wakes call(): until the loop goes on
\* to its next step, the waiting thread may not have noticed.
Waking == ending' = {c \in SyncCalls : doneCount'[c] # doneCount[c]}

\* Mutant: pending_[slot] is copied, not moved out.
VacatedNot(id) == pending

Vacated(id) == [pending EXCEPT ![id] = NoCall]

FreeWith(id) == Append(freeSlots, id)

\* failPending and dispatchResponse: complete whatever call is in slot id; an
\* empty or unknown slot is ignored.
Release(id, h, b) ==
    \/ /\ Occupied(id)
       /\ pending' = Vacated(id)
       /\ freeSlots' = FreeWith(id)
       /\ Finish({pending[id]}, h, b)
    \/ /\ ~Occupied(id)
       /\ UNCHANGED <<pending, freeSlots, doneCount, how, by>>

-----------------------------------------------------------------------------
(* Closing and writing *)

\* Mutant: handleClose forgets to schedule the reconnect.
ScheduleNothing == UNCHANGED reconnectTimer

ScheduleReconnect == reconnectTimer' = (reconnectTimer \/ reconnectEnabled)

\* handleClose of a connection that is not Closed, with tbl as the table.
\* outputQueue_ and inputBuffer_ are kept; callers say what becomes of outQueue.
HandleClose(tbl) ==
    /\ state' = "Closed"
    /\ pending' = <<>>
    /\ freeSlots' = <<>>
    /\ Finish(Occupants(tbl), "closed", NoCall)
    /\ ScheduleReconnect
    /\ wire' = {}
    /\ frag' = [frag EXCEPT !.fresh = FALSE]

KeepOutput ==
    /\ UNCHANGED outQueue
    /\ torn' = IF torn = "here" THEN "stale" ELSE torn

StayOpen(st, tbl, free) ==
    /\ state' = st
    /\ pending' = tbl
    /\ freeSlots' = free
    /\ UNCHANGED <<doneCount, how, by, reconnectTimer, frag>>

\* The frames among the first k of q that reach the peer whole.
Delivered(q, k) ==
    {q[i] : i \in {j \in 1..k : ~(j = 1 /\ torn = "stale")}} \ {Heartbeat}

\* write() accepts the first k frames of q and, if cut, part of the next one.
Accepted(q, k, cut) ==
    /\ k + (IF cut THEN 1 ELSE 0) \in 1..Len(q)
    /\ outQueue' = SubSeq(q, k + 1, Len(q))
    /\ torn' = IF ~cut THEN "none"
               ELSE IF k = 0 /\ torn = "stale" THEN "stale" ELSE "here"
    /\ wire' = wire \cup Delivered(q, k)

\* flushOutput gets EAGAIN: the bytes were moved out of outputQueue_ and are
\* dropped.  A frame already begun may still be completed by later bytes.
Dropped(q) ==
    /\ outQueue' = <<>>
    /\ torn' = "none"
    /\ \/ wire' = wire
       \/ torn = "here" /\ wire' = wire \cup ({q[1]} \ {Heartbeat})

\* flushOutput on a Ready connection with q queued.
FlushOutput(q, tbl, free) ==
    \/ /\ \E k \in 0..Len(q), cut \in BOOLEAN : Accepted(q, k, cut)
       /\ StayOpen("Ready", tbl, free)
    \/ /\ Dropped(q)
       /\ StayOpen("Ready", tbl, free)
    \/ /\ HandleClose(tbl)
       /\ outQueue' = <<>>
       /\ torn' = "none"

\* writeFrame(f), with tbl and free as the table.
WriteFrame(f, tbl, free) ==
    \/ /\ state # "Ready"
       /\ outQueue' = Append(outQueue, f)
       /\ UNCHANGED <<torn, wire>>
       /\ StayOpen(state, tbl, free)
    \/ /\ state = "Ready" /\ outQueue # <<>>
       /\ FlushOutput(Append(outQueue, f), tbl, free)
    \/ /\ state = "Ready" /\ outQueue = <<>>
       /\ \/ /\ \E k \in 0..1, cut \in BOOLEAN : Accepted(<<f>>, k, cut)
             /\ StayOpen(state, tbl, free)
          \/ /\ outQueue' = <<f>>
             /\ UNCHANGED <<torn, wire>>
             /\ StayOpen(state, tbl, free)
          \/ /\ HandleClose(tbl)
             /\ KeepOutput

-----------------------------------------------------------------------------
(* Application threads *)

Refuse(c) ==
    /\ state = "Closed"
    /\ Finish({c}, "refused", c)
    /\ pc' = [pc EXCEPT ![c] = "returned"]
    /\ UNCHANGED <<tableVars, slot, ending, connVars, ioVars, loopVars>>

\* asyncCall up to the end of its critical section.
Register(c) ==
    /\ pc[c] = "new"
    /\ \/ Refuse(c)
       \/ /\ state # "Closed"
          /\ pending' = Placed(c)
          /\ freeSlots' = FreeLeft
          /\ slot' = [slot EXCEPT ![c] = NextId]
          /\ pc' = [pc EXCEPT ![c] = "registered"]
          /\ UNCHANGED <<doneCount, how, by, ending, connVars, ioVars, loopVars>>

Enqueue(o, c) ==
    /\ functors' = Append(functors, [op |-> o, call |-> c, id |-> slot[c]])
    /\ UNCHANGED <<tableVars, slot, doneCount, how, by, ending, connVars, ioVars,
                   deadlines, stopCalled>>

\* asyncCall reads the controller's timeout and queues the deadline functor.
QueueArm(c) ==
    /\ pc[c] = "registered" /\ c \in DeadlineCalls
    /\ pc' = [pc EXCEPT ![c] = "armed"]
    /\ Enqueue("arm", c)

\* asyncCall queues the send functor and returns.
QueueSend(c) ==
    /\ pc[c] = IF c \in DeadlineCalls THEN "armed" ELSE "registered"
    /\ pc' = [pc EXCEPT ![c] = "returned"]
    /\ Enqueue("send", c)

\* call() has waited long enough: cancelCall, then wait for done.
SyncTimeout(c) ==
    /\ c \in SyncCalls /\ pc[c] = "returned"
    /\ doneCount[c] = 0 \/ c \in ending
    /\ pc' = [pc EXCEPT ![c] = "cancelling"]
    /\ Enqueue("cancel", c)

Stop ==
    /\ ~stopCalled
    /\ stopCalled' = TRUE
    /\ functors' = Append(functors, StopFunctor)
    /\ UNCHANGED <<tableVars, callVars, connVars, ioVars, deadlines>>

-----------------------------------------------------------------------------
(* Functors on the loop thread *)

\* doConnect: an immediate error, or a connect in progress with its timeout.
DoConnect ==
    /\ connects < MaxConnects
    /\ connects' = connects + 1
    /\ UNCHANGED <<reconnectEnabled, heartbeating, unanswered>>
    /\ \/ /\ HandleClose(pending)
          /\ KeepOutput
          /\ UNCHANGED connTimers
       \/ /\ state' = "Connecting"
          /\ connTimers' = connTimers + 1
          /\ reconnectTimer' = FALSE
          /\ UNCHANGED <<tableVars, doneCount, how, by, ioVars>>

RunStart ==
    /\ UNCHANGED <<pc, slot, deadlines, stopCalled>>
    /\ \/ state = "Idle" /\ DoConnect
       \/ /\ state # "Idle"
          /\ UNCHANGED <<tableVars, doneCount, how, by, connVars, ioVars>>

\* The functor of stop(): the same as handleClose, but with no way back.
RunStop ==
    /\ reconnectEnabled' = FALSE
    /\ reconnectTimer' = FALSE
    /\ state' = "Closed"
    /\ pending' = <<>>
    /\ freeSlots' = <<>>
    /\ Finish(Occupants(pending), "closed", NoCall)
    /\ wire' = {}
    /\ frag' = [frag EXCEPT !.fresh = FALSE]
    /\ KeepOutput
    /\ UNCHANGED <<pc, slot, connTimers, connects, heartbeating, unanswered,
                   deadlines, stopCalled>>

\* The deadline functor looks at whichever call is in slot f.id now, reads its
\* timeout and, if it has one, arms a timer for the id.
RunArm(f) ==
    /\ deadlines' = IF Occupied(f.id) /\ pending[f.id] \in DeadlineCalls
                    THEN deadlines \cup {[owner |-> f.call, for |-> pending[f.id], id |-> f.id]}
                    ELSE deadlines
    /\ UNCHANGED <<tableVars, pc, slot, doneCount, how, by, connVars, ioVars, stopCalled>>

\* sendInLoop
RunSend(f) ==
    /\ UNCHANGED <<pc, slot, reconnectEnabled, connTimers, connects,
                   heartbeating, unanswered, deadlines, stopCalled>>
    /\ \/ /\ state = "Closed"
          /\ Release(f.id, "closed", f.call)
          /\ UNCHANGED <<state, reconnectTimer, ioVars>>
       \/ /\ state # "Closed"
          /\ WriteFrame([call |-> f.call, id |-> f.id], pending, freeSlots)

\* The functor of cancelCall
RunCancel(f) ==
    /\ Release(f.id, "cancelled", f.call)
    /\ UNCHANGED <<pc, slot, connVars, ioVars, deadlines, stopCalled>>

RunFunctor ==
    /\ functors # <<>>
    /\ functors' = Tail(functors)
    /\ LET f == Head(functors) IN
        \/ f.op = "start"  /\ RunStart
        \/ f.op = "stop"   /\ RunStop
        \/ f.op = "arm"    /\ RunArm(f)
        \/ f.op = "send"   /\ RunSend(f)
        \/ f.op = "cancel" /\ RunCancel(f)
    /\ Waking

\* asyncCall on the loop thread: runInLoop executes both functors at once.
LoopCall(c) ==
    /\ pc[c] = "new" /\ c \in LoopCalls
    /\ \/ Refuse(c)
       \/ /\ state # "Closed"
          /\ slot' = [slot EXCEPT ![c] = NextId]
          /\ pc' = [pc EXCEPT ![c] = "returned"]
          /\ deadlines' = IF c \in DeadlineCalls
                          THEN deadlines \cup {[owner |-> c, for |-> c, id |-> NextId]}
                          ELSE deadlines
          /\ WriteFrame([call |-> c, id |-> NextId], Placed(c), FreeLeft)
          /\ UNCHANGED <<reconnectEnabled, connTimers, connects, heartbeating,
                         unanswered, functors, stopCalled>>
          /\ Waking

-----------------------------------------------------------------------------
(* Timers on the loop thread *)

\* onCallTimeout
FireDeadline(t) ==
    /\ deadlines' = deadlines \ {t}
    /\ Release(t.id, "deadline", t.for)
    /\ Waking
    /\ UNCHANGED <<pc, slot, connVars, ioVars, functors, stopCalled>>

FireConnectTimeout ==
    /\ connTimers > 0
    /\ connTimers' = connTimers - 1
    /\ UNCHANGED <<pc, slot, reconnectEnabled, connects, heartbeating, unanswered, loopVars>>
    /\ \/ state = "Connecting" /\ HandleClose(pending) /\ KeepOutput
       \/ /\ state # "Connecting"
          /\ UNCHANGED <<tableVars, doneCount, how, by, state, reconnectTimer, ioVars>>
    /\ Waking

FireReconnect ==
    /\ reconnectTimer
    /\ UNCHANGED <<pc, slot, loopVars>>
    /\ \/ reconnectEnabled /\ state = "Closed" /\ DoConnect
       \/ /\ ~(reconnectEnabled /\ state = "Closed")
          /\ reconnectTimer' = FALSE
          /\ UNCHANGED <<tableVars, doneCount, how, by, state, reconnectEnabled, connTimers,
                         connects, heartbeating, unanswered, ioVars>>
    /\ Waking

\* Mutant: > for >=.
PeerDeadLate == unanswered > 2

PeerDead == unanswered >= 2

\* onHeartbeatTick when nothing was received for an interval.
HeartbeatTick ==
    /\ heartbeating /\ state = "Ready"
    /\ UNCHANGED <<pc, slot, reconnectEnabled, connTimers, connects, heartbeating, loopVars>>
    /\ \/ /\ PeerDead
          /\ HandleClose(pending)
          /\ KeepOutput
          /\ UNCHANGED unanswered
       \/ /\ ~PeerDead /\ Len(outQueue) < MaxQueue
          /\ unanswered' = unanswered + 1
          /\ WriteFrame(Heartbeat, pending, freeSlots)
    /\ Waking

-----------------------------------------------------------------------------
(* Socket events on the loop thread *)

\* handleConnectWrite without a socket error, and onConnected.
Connected ==
    /\ state = "Connecting"
    /\ heartbeating' = Heartbeats
    /\ unanswered' = 0
    /\ UNCHANGED <<pc, slot, reconnectEnabled, connTimers, connects, loopVars>>
    /\ \/ /\ outQueue = <<>>
          /\ StayOpen("Ready", pending, freeSlots)
          /\ UNCHANGED <<outQueue, torn, wire>>
       \/ /\ outQueue # <<>>
          /\ FlushOutput(outQueue, pending, freeSlots)
    /\ Waking

\* The socket reports an error, a hang-up or end of file, or the connect failed.
ConnectionLost ==
    /\ state \in {"Connecting", "Ready"}
    /\ HandleClose(pending)
    /\ KeepOutput
    /\ UNCHANGED <<pc, slot, reconnectEnabled, connTimers, connects, heartbeating,
                   unanswered, loopVars>>
    /\ Waking

\* What every handleRead does and does not do.
Reading ==
    /\ state = "Ready"
    /\ unanswered' = 0
    /\ UNCHANGED <<pc, slot, state, reconnectEnabled, reconnectTimer, connTimers, connects,
                   heartbeating, outQueue, torn, loopVars>>

Undisturbed == UNCHANGED <<tableVars, doneCount, how, by>>

\* A whole response to f arrives.
ReadResponse(f) ==
    /\ Reading
    /\ frag = NoFrag
    /\ wire' = wire \ {f}
    /\ Release(f.id, "reply", f.call)
    /\ UNCHANGED frag

\* Only the beginning of the response to f arrives.
ReadPart(f) ==
    /\ Reading
    /\ frag = NoFrag
    /\ wire' = wire \ {f}
    /\ frag' = [call |-> f.call, id |-> f.id, fresh |-> TRUE]
    /\ Undisturbed

\* The rest of it arrives.
ReadRest ==
    /\ Reading
    /\ frag.fresh
    /\ frag' = NoFrag
    /\ Release(frag.id, "reply", frag.call)
    /\ UNCHANGED wire

\* inputBuffer_ still holds the beginning of a response of an earlier
\* connection, and what arrives now is taken for the rest of it: the buffer is
\* still incomplete; or it is drained; or a message with the old id and a wrong
\* body is dispatched.  What is left over is no message (id 0).  A header cut
\* inside its id yields an id of 77 or more, beyond the tables modelled.
ReadGarbled(lost) ==
    /\ Reading
    /\ frag # NoFrag /\ ~frag.fresh
    /\ wire' = wire \ lost
    /\ \/ UNCHANGED frag /\ Undisturbed
       \/ /\ frag' \in {NoFrag, [frag EXCEPT !.id = 0]}
          /\ Undisturbed \/ Release(frag.id, "reply", frag.call)

\* A heartbeat ack, or more of a response that is still incomplete.
ReadMore ==
    /\ Reading
    /\ unanswered > 0
    /\ Undisturbed
    /\ UNCHANGED <<wire, frag>>

HandleRead ==
    /\ \/ \E f \in wire : ReadResponse(f) \/ ReadPart(f) \/ ReadGarbled({f})
       \/ ReadRest
       \/ ReadGarbled({})
       \/ ReadMore
    /\ Waking

-----------------------------------------------------------------------------
AppStep == \E c \in Calls : Register(c) \/ QueueArm(c) \/ QueueSend(c) \/ SyncTimeout(c)

LoopStep ==
    \/ RunFunctor
    \/ \E c \in Calls : LoopCall(c)
    \/ \E t \in deadlines : FireDeadline(t)
    \/ FireConnectTimeout
    \/ FireReconnect
    \/ HeartbeatTick
    \/ Connected
    \/ ConnectionLost
    \/ HandleRead

Next == AppStep \/ Stop \/ LoopStep

Spec == Init /\ [][Next]_vars

\* The loop runs queued functors and expired timers, and a thread inside
\* asyncCall or call() goes on.  Nothing is assumed of the peer or the socket.
Fairness ==
    /\ WF_vars(RunFunctor)
    /\ WF_vars(\E t \in deadlines : FireDeadline(t))
    /\ WF_vars(\E c \in Calls : QueueArm(c) \/ QueueSend(c) \/ SyncTimeout(c))

FairSpec == Spec /\ Fairness

-----------------------------------------------------------------------------
(* Properties *)

Issued(c) == pc[c] # "new"

\* RpcChannel.h: "every async call's done callback is invoked exactly once".
\* Never twice, although a response, a deadline timer, a cancellation, a close
\* and a stop may all be under way for the same call.
DoneAtMostOnce == \A c \in Calls : doneCount[c] <= 1

\* A call that was issued and is not done is in the table, in its own slot, so
\* that a response, a deadline or a close still finds it; and the table holds
\* nothing else.
TableExact ==
    /\ \A c \in Calls :
        Issued(c) /\ doneCount[c] = 0 =>
            slot[c] \in 1..Len(pending) /\ pending[slot[c]] = c
    /\ \A id \in 1..Len(pending) :
        pending[id] # NoCall =>
            LET c == pending[id] IN Issued(c) /\ doneCount[c] = 0 /\ slot[c] = id

\* RpcChannel.h: done is invoked "when the connection fails".  While the channel
\* is closed every call issued so far is done, the ones whose thread is still
\* inside asyncCall included.
ClosedMeansDone == state = "Closed" => \A c \in Calls : Issued(c) => doneCount[c] = 1

\* The free list names each empty slot exactly once: no slot leaks and none is
\* handed to two calls.
SlotAccounting ==
    /\ \A i \in 1..Len(freeSlots) :
        freeSlots[i] \in 1..Len(pending) /\ pending[freeSlots[i]] = NoCall
    /\ \A i, j \in 1..Len(freeSlots) : freeSlots[i] = freeSlots[j] => i = j
    /\ \A id \in 1..Len(pending) :
        pending[id] = NoCall => \E i \in 1..Len(freeSlots) : freeSlots[i] = id

\* An unfinished call with a deadline always has its own deadline functor queued
\* or a timer armed for its slot, although the functor runs later, on another
\* thread, and looks the slot up by id.
DeadlineArmed ==
    \A c \in DeadlineCalls :
        doneCount[c] = 0 /\ pc[c] \in {"armed", "returned", "cancelling"} =>
            \/ \E i \in 1..Len(functors) :
                functors[i] = [op |-> "arm", call |-> c, id |-> slot[c]]
            \/ \E t \in deadlines : t.owner = c /\ t.id = slot[c]

\* A closed channel that was not stopped has a reconnect timer, and a channel
\* whose stop() has run stays closed.
ConnectionFate ==
    /\ state = "Closed" /\ reconnectEnabled => reconnectTimer
    /\ stopCalled /\ (\A i \in 1..Len(functors) : functors[i] # StopFunctor) =>
        state = "Closed" /\ ~reconnectTimer

\* RpcChannel.h: "responses may arrive out of order and are matched by
\* request_id".  As long as calls end only by a response, every response ends the
\* call whose request it answers.
MatchedById ==
    (\A c \in Calls : how[c] \in {"none", "reply"}) =>
        \A c \in Calls : how[c] = "reply" => by[c] = c

\* RpcChannel.h: "a late response (no pending entry) is silently dropped".  A
\* response never completes a call other than the one whose request it answers.
LateResponseDropped == \A c \in Calls : how[c] = "reply" => by[c] = c

\* The calls of the channel behave as CallContract says: asyncCall issues or
\* refuses, and each later step completes in-flight calls only.
Contract == INSTANCE CallContract WITH
    issued <- {c \in Calls : Issued(c)}, completions <- doneCount
HonoursContract == Contract!Spec

\* Every call with a deadline, and every synchronous call, completes.
CallsComplete ==
    \A c \in DeadlineCalls \cup SyncCalls : Issued(c) ~> doneCount[c] = 1
=============================================================================
