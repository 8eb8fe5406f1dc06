------------------------------ MODULE Scheduler ------------------------------
(***************************************************************************)
(* src/Scheduler.cpp: coroutines on worker threads, a timer thread for     *)
(* those that sleep, and stop().                                           *)
(*                                                                         *)
(* A coroutine sleeps or finishes as it likes.  A step is what a thread    *)
(* does under one lock, or one access to what the threads share.  The      *)
(* sleep heap is a sequence in the order of the deadlines; the clock may   *)
(* pass the first deadline at any time.  stop() empties readyQueue_        *)
(* without readyMutex_: a coroutine spawned meanwhile may be deleted, be   *)
(* dropped undeleted or stay in the queue.                                 *)
(***************************************************************************)
EXTENDS Integers, Sequences, FiniteSets, Functions

CONSTANTS
    Coros,      \* coroutines that may be spawned
    Workers,    \* worker threads
    MaxSleeps,  \* bound: sleeps of one coroutine
    None        \* no coroutine

ASSUME SchedulerAssumption == None \notin Coros /\ Workers # {} /\ MaxSleeps \in Nat

VARIABLES
    running,     \* running_
    readyQueue,  \* readyQueue_
    sleepHeap,   \* sleepHeap_, by deadline
    wpc,         \* where a worker is
    current,     \* tlsCurrentCoro_ of a worker
    timer,       \* where the timer thread is
    entry,       \* the coroutine the timer thread took off the heap
    stopPc,      \* where stop() is
    done,        \* the coroutines whose function has returned
    spawned,     \* history: the coroutines spawned
    sleeps,      \* history: sleeps per coroutine
    deletes,     \* history: how often a coroutine was deleted
    shared,      \* history: the coroutines that two workers had at a time
    late         \* history: the coroutines spawned once stop() had begun to reap

historyVars == <<shared, late>>
coroVars == <<done, spawned, sleeps, deletes>>
vars == <<running, readyQueue, sleepHeap, wpc, current, timer, entry, stopPc, coroVars,
          historyVars>>

\* start().
Init ==
    /\ running = TRUE
    /\ readyQueue = <<>> /\ sleepHeap = <<>>
    /\ wpc = [w \in Workers |-> "top"]
    /\ current = [w \in Workers |-> None]
    /\ timer = "top" /\ entry = None
    /\ stopPc = "no"
    /\ done = {} /\ spawned = {}
    /\ sleeps = [c \in Coros |-> 0]
    /\ deletes = [c \in Coros |-> 0]
    /\ shared = {} /\ late = {}

\* stop() has joined the threads and deletes what they left.
Reaping == stopPc \in {"reaping", "done"}

\* spawn() does not look at running_.
Spawn(c) ==
    /\ c \notin spawned
    /\ spawned' = spawned \cup {c}
    /\ readyQueue' = Append(readyQueue, c)
    /\ late' = IF Reaping THEN late \cup {c} ELSE late
    /\ UNCHANGED <<running, sleepHeap, wpc, current, timer, entry, stopPc, done, sleeps, deletes,
                   shared>>

-----------------------------------------------------------------------------
(* workerLoop and coSleep *)

Goto(w, l) == wpc' = [wpc EXCEPT ![w] = l]

\* while (running_.load())
WorkerTop(w) ==
    /\ wpc[w] = "top"
    /\ Goto(w, IF running THEN "wait" ELSE "ended")
    /\ UNCHANGED <<running, readyQueue, sleepHeap, current, timer, entry, stopPc, coroVars,
                   historyVars>>

\* Mutant: the wait is for a coroutine only.
WaitOverReady == readyQueue # <<>>

\* The predicate of readyCv_.wait; whoever makes it true notifies under
\* readyMutex_ or after it, so that no wake-up is lost.
WaitOver == ~running \/ readyQueue # <<>>

\* The wait is over: nothing to do any more, or a coroutine is resumed.
WorkerTakes(w) ==
    /\ wpc[w] = "wait" /\ WaitOver
    /\ IF readyQueue = <<>>
       THEN Goto(w, "ended") /\ UNCHANGED <<readyQueue, current, shared>>
       ELSE /\ current' = [current EXCEPT ![w] = Head(readyQueue)]
            /\ readyQueue' = Tail(readyQueue)
            /\ shared' = shared \cup ({Head(readyQueue)} \cap Range(current))
            /\ Goto(w, "inside")
    /\ UNCHANGED <<running, sleepHeap, timer, entry, stopPc, coroVars, late>>

\* sleepHeap_ once c is in it, at the place k that its deadline gives it.
Pushed(heap, k, c) == SubSeq(heap, 1, k - 1) \o <<c>> \o SubSeq(heap, k, Len(heap))

\* coSleep pushes the coroutine, with any deadline, under sleepMutex_.
CoSleep(w) ==
    LET c == current[w] IN
    /\ wpc[w] = "inside" /\ timer # "committed"
    /\ sleeps[c] < MaxSleeps
    /\ sleeps' = [sleeps EXCEPT ![c] = @ + 1]
    /\ \E k \in 1..(Len(sleepHeap) + 1) : sleepHeap' = Pushed(sleepHeap, k, c)
    /\ Goto(w, "pushed")
    /\ UNCHANGED <<running, readyQueue, current, timer, entry, stopPc, done, spawned, deletes,
                   historyVars>>

\* Mutant: coSleep does not notify.
TimerKept == timer

\* A notification of sleepCv_ reaches the timer thread if it waits.
TimerNotified == IF timer = "waiting" THEN "top" ELSE timer

\* sleepCv_.notify_one().
NotifySleep(w) ==
    /\ wpc[w] = "pushed"
    /\ timer' = TimerNotified
    /\ Goto(w, "yielding")
    /\ UNCHANGED <<running, readyQueue, sleepHeap, current, entry, stopPc, coroVars, historyVars>>

\* swapcontext saves the coroutine and returns to the worker.
Yield(w) ==
    /\ wpc[w] = "yielding"
    /\ Goto(w, "back")
    /\ UNCHANGED <<running, readyQueue, sleepHeap, current, timer, entry, stopPc, coroVars,
                   historyVars>>

\* coroutineEntry: the function has returned.
Finish(w) ==
    /\ wpc[w] = "inside"
    /\ done' = done \cup {current[w]}
    /\ Goto(w, "back")
    /\ UNCHANGED <<running, readyQueue, sleepHeap, current, timer, entry, stopPc, spawned, sleeps,
                   deletes, historyVars>>

\* Mutant: every coroutine that comes back is deleted.
ReapedAlways(c) == deletes' = [deletes EXCEPT ![c] = @ + 1]

\* if (coro->done) delete coro
Reaped(c) == deletes' = [deletes EXCEPT ![c] = IF c \in done THEN @ + 1 ELSE @]

WorkerBack(w) ==
    /\ wpc[w] = "back"
    /\ Reaped(current[w])
    /\ current' = [current EXCEPT ![w] = None]
    /\ Goto(w, "top")
    /\ UNCHANGED <<running, readyQueue, sleepHeap, timer, entry, stopPc, done, spawned, sleeps,
                   historyVars>>

WorkerStep(w) ==
    \/ WorkerTop(w) \/ WorkerTakes(w) \/ CoSleep(w) \/ NotifySleep(w) \/ Yield(w)
    \/ Finish(w) \/ WorkerBack(w)

-----------------------------------------------------------------------------
(* timerLoop *)

\* The heap is empty: the thread ends, or, with sleepMutex_ held and running_ read,
\* is about to wait.
TimerIdle ==
    /\ timer = "top" /\ sleepHeap = <<>>
    /\ timer' = IF running THEN "committed" ELSE "ended"
    /\ UNCHANGED <<running, readyQueue, sleepHeap, wpc, current, entry, stopPc, coroVars,
                   historyVars>>

\* sleepCv_.wait(lock) releases the lock.
TimerWaits ==
    /\ timer = "committed" /\ timer' = "waiting"
    /\ UNCHANGED <<running, readyQueue, sleepHeap, wpc, current, entry, stopPc, coroVars,
                   historyVars>>

\* Mutant: the entry is read but not popped.
HeapKept == sleepHeap

HeapLeft == Tail(sleepHeap)

\* wait_until is over and the first deadline has passed.
TimerPops ==
    /\ timer = "top" /\ sleepHeap # <<>>
    /\ entry' = Head(sleepHeap)
    /\ sleepHeap' = HeapLeft
    /\ timer' = "holding"
    /\ UNCHANGED <<running, readyQueue, wpc, current, stopPc, coroVars, historyVars>>

\* The coroutine is made ready, unless it is done.
TimerReadies ==
    /\ timer = "holding"
    /\ readyQueue' = IF entry \in done THEN readyQueue ELSE Append(readyQueue, entry)
    /\ entry' = None
    /\ timer' = "top"
    /\ UNCHANGED <<running, sleepHeap, wpc, current, stopPc, coroVars, historyVars>>

TimerStep == TimerIdle \/ TimerWaits \/ TimerPops \/ TimerReadies

-----------------------------------------------------------------------------
(* stop() *)

StopFlag ==
    /\ stopPc = "no" /\ stopPc' = "flagged"
    /\ running' = FALSE
    /\ UNCHANGED <<readyQueue, sleepHeap, wpc, current, timer, entry, coroVars, historyVars>>

\* The notifications; sleepMutex_ is not taken.
StopNotifies ==
    /\ stopPc = "flagged" /\ stopPc' = "joining"
    /\ timer' = TimerNotified
    /\ UNCHANGED <<running, readyQueue, sleepHeap, wpc, current, entry, coroVars, historyVars>>

\* The coroutines of the queue q, each of which is deleted.
DeletedIn(q) == deletes' = [c \in Coros |-> IF c \in Range(q) THEN deletes[c] + 1 ELSE deletes[c]]

\* All threads are joined; what is queued is deleted.
StopReapsReady ==
    /\ stopPc = "joining" /\ stopPc' = "reaping"
    /\ \A w \in Workers : wpc[w] = "ended"
    /\ timer = "ended"
    /\ DeletedIn(readyQueue)
    /\ UNCHANGED <<running, readyQueue, sleepHeap, wpc, current, timer, entry, done, spawned, sleeps,
                   historyVars>>

\* The queue is cleared, and what is asleep is deleted.
StopReapsAsleep ==
    /\ stopPc = "reaping" /\ stopPc' = "done"
    /\ DeletedIn(sleepHeap)
    /\ readyQueue' = <<>> /\ sleepHeap' = <<>>
    /\ UNCHANGED <<running, wpc, current, timer, entry, done, spawned, sleeps, historyVars>>

StopStep == StopFlag \/ StopNotifies \/ StopReapsReady \/ StopReapsAsleep

Next == (\E c \in Coros : Spawn(c)) \/ (\E w \in Workers : WorkerStep(w)) \/ TimerStep \/ StopStep

Spec == Init /\ [][Next]_vars

\* Threads get to run, deadlines pass, and a coroutine does not run for ever.
Fairness ==
    /\ \A w \in Workers : WF_vars(WorkerStep(w))
    /\ WF_vars(TimerStep)
    /\ WF_vars(StopNotifies) /\ WF_vars(StopReapsReady) /\ WF_vars(StopReapsAsleep)

FairSpec == Spec /\ Fairness

-----------------------------------------------------------------------------
(* Properties *)

\* How often c is in the queue, in the heap and in the timer thread's hands.
Queued(c) ==
    Cardinality({k \in 1..Len(readyQueue) : readyQueue[k] = c})
    + Cardinality({k \in 1..Len(sleepHeap) : sleepHeap[k] = c})
    + (IF entry = c THEN 1 ELSE 0)

Executing(w) == wpc[w] \in {"inside", "pushed", "yielding"}

\* A coroutine that is neither running nor finished is in exactly one place, so
\* that it is resumed once for each sleep and never forgotten, until stop() deletes it
\* (one that is spawned while stop() reaps may be).
OnePlace ==
    \A c \in spawned \ (done \cup late) :
        deletes[c] = 0 =>
            Queued(c) = IF \E w \in Workers : current[w] = c /\ wpc[w] = "inside" THEN 0 ELSE 1

\* workerLoop, "finished; no queue holds it anymore": a coroutine is deleted once,
\* when no queue (but the one that stop() is about to clear) and no thread refers to
\* it, and stop() leaves none behind.  It is so of every coroutine that no worker took
\* while another still had it, and that was not spawned while stop() reaped.
DeletedOnce ==
    \A c \in Coros \ (shared \cup late) :
        /\ deletes[c] <= 1
        /\ deletes[c] = 1 => \A w \in Workers : current[w] # c
        /\ deletes[c] = 1 /\ stopPc # "reaping" => Queued(c) = 0
        /\ stopPc = "done" /\ c \in spawned => deletes[c] = 1

\* Until the scheduler is stopped, every coroutine that was spawned finishes,
\* however it sleeps: no wake-up of a worker or of the timer thread is lost.
CoroutinesFinish == \A c \in Coros : c \in spawned ~> (c \in done \/ ~running)

\* stop() is waited for by every worker: none waits or runs on for ever.
WorkersEnd == ~running ~> \A w \in Workers : wpc[w] = "ended"

\* Scheduler.h: a coroutine "must never run on two threads at once".
NeverOnTwoThreads ==
    \A v, w \in Workers : v # w /\ Executing(v) /\ Executing(w) => current[v] # current[w]
==============================================================================
