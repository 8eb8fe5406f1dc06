--------------------------- MODULE RpcChannelProofs ---------------------------
(***************************************************************************)
(* Theorems about RpcChannel, for every set of calls and every value of    *)
(* the other constants.                                                    *)
(*                                                                         *)
(* As far as the table of in-flight calls is concerned every step of the   *)
(* channel is of one of six kinds (lemma StepKinds).  The invariants on    *)
(* the table and the refinement of CallContract are proved kind by kind;   *)
(* the invariants on timers and functors are proved action by action.      *)
(***************************************************************************)
EXTENDS RpcChannel, SequenceTheorems, TLAPS

-----------------------------------------------------------------------------
(* Six kinds of steps *)

\* done() runs for the calls in S.
Bump(S) == doneCount' = [c \in Calls |-> IF c \in S THEN doneCount[c] + 1 ELSE doneCount[c]]

\* Nothing happens to the table, and threads go on.
KindKeep ==
    /\ UNCHANGED <<pending, freeSlots, slot, doneCount>>
    /\ \A c \in Calls : pc'[c] = "new" <=> pc[c] = "new"
    /\ state' = "Closed" => state = "Closed"

\* One call leaves its slot.
KindRelease(id) ==
    /\ Occupied(id)
    /\ pending' = Vacated(id)
    /\ freeSlots' = FreeWith(id)
    /\ Bump({pending[id]})
    /\ UNCHANGED <<pc, slot, state>>

\* The table is swapped out and all its calls are completed.
KindClose ==
    /\ pending' = <<>> /\ freeSlots' = <<>>
    /\ Bump(Occupants(pending))
    /\ UNCHANGED <<pc, slot>>

\* Call c leaves "new" with the id that NextId gives it.
Enters(c) ==
    /\ pc[c] = "new" /\ pc' = [pc EXCEPT ![c] = pc'[c]] /\ pc'[c] # "new"
    /\ state # "Closed"
    /\ slot' = [slot EXCEPT ![c] = NextId]

KindPlace(c) ==
    /\ Enters(c)
    /\ pending' = Placed(c) /\ freeSlots' = FreeLeft
    /\ UNCHANGED <<doneCount, state>>

\* A call issued on the loop thread is placed, and its write fails.
KindPlaceAndClose(c) ==
    /\ Enters(c)
    /\ pending' = <<>> /\ freeSlots' = <<>>
    /\ Bump(Occupants(Placed(c)))

KindRefuse(c) ==
    /\ pc[c] = "new" /\ pc' = [pc EXCEPT ![c] = "returned"]
    /\ Bump({c})
    /\ UNCHANGED <<pending, freeSlots, slot, state>>

StepKind ==
    \/ KindKeep
    \/ \E id \in Nat : KindRelease(id)
    \/ KindClose
    \/ \E c \in Calls : KindPlace(c) \/ KindPlaceAndClose(c) \/ KindRefuse(c)

-----------------------------------------------------------------------------
(* The inductive invariant of the table *)

ClosedIsEmpty == state = "Closed" => pending = <<>> /\ freeSlots = <<>>

NewIsUndone == \A c \in Calls : pc[c] = "new" => doneCount[c] = 0

TableType ==
    /\ pending \in Seq(Calls \cup {NoCall})
    /\ freeSlots \in Seq(Nat)
    /\ pc \in [Calls -> Places]
    /\ slot \in [Calls -> Nat]
    /\ doneCount \in [Calls -> Nat]

TableInv ==
    /\ TableType
    /\ DoneAtMostOnce
    /\ TableExact
    /\ SlotAccounting
    /\ ClosedIsEmpty
    /\ NewIsUndone

-----------------------------------------------------------------------------
(* Every step is of one of the six kinds *)

\* failPending and dispatchResponse complete one call or nothing.
LEMMA ReleaseKind ==
    ASSUME TypeOK, NEW id \in Nat, NEW h, NEW b,
           Release(id, h, b), UNCHANGED <<pc, slot, state>>
    PROVE  StepKind
<1>1. CASE Occupied(id)
  BY <1>1, Zenon DEF Release, Finish, StepKind, KindRelease, Bump
<1>2. CASE ~Occupied(id)
  BY <1>2, Zenon DEF Release, StepKind, KindKeep
<1> QED
  BY <1>1, <1>2, Zenon

\* handleClose with the table as it is.
LEMMA CloseKind ==
    ASSUME HandleClose(pending), UNCHANGED <<pc, slot>>
    PROVE  StepKind
BY Zenon DEF HandleClose, Finish, StepKind, KindClose, Bump

\* The table, the calls and the loop's threads are left alone.
LEMMA KeepKind ==
    ASSUME UNCHANGED <<pending, freeSlots, slot, doneCount, pc>>,
           state' = "Closed" => state = "Closed"
    PROVE  StepKind
BY Zenon DEF StepKind, KindKeep

\* flushOutput and writeFrame close the connection or leave the given table.
LEMMA FlushOutputEffect ==
    ASSUME NEW q, NEW tbl, NEW free, FlushOutput(q, tbl, free)
    PROVE  HandleClose(tbl) \/ StayOpen("Ready", tbl, free)
BY Zenon DEF FlushOutput

LEMMA WriteFrameEffect ==
    ASSUME NEW f, NEW tbl, NEW free, WriteFrame(f, tbl, free)
    PROVE  HandleClose(tbl) \/ StayOpen(state, tbl, free)
<1>1. CASE state = "Ready" /\ outQueue # <<>>
  BY <1>1, FlushOutputEffect, Zenon DEF WriteFrame
<1>2. CASE ~(state = "Ready" /\ outQueue # <<>>)
  BY <1>2, Zenon DEF WriteFrame
<1> QED
  BY <1>1, <1>2, Zenon

\* writeFrame with the table as it is.
LEMMA WriteKind ==
    ASSUME NEW f, WriteFrame(f, pending, freeSlots), UNCHANGED <<pc, slot>>
    PROVE  StepKind
<1>1. CASE HandleClose(pending)
  BY <1>1, CloseKind, Zenon
<1>2. CASE StayOpen(state, pending, freeSlots)
  BY <1>2, KeepKind, Zenon DEF StayOpen
<1> QED
  BY <1>1, <1>2, WriteFrameEffect, Zenon

\* doConnect fails at once or begins a connection.
LEMMA ConnectKind ==
    ASSUME DoConnect, UNCHANGED <<pc, slot>>
    PROVE  StepKind
BY CloseKind, KeepKind, Zenon DEF DoConnect, tableVars

\* The steps of application threads.
LEMMA AppKinds ==
    ASSUME TypeOK, NEW c \in Calls,
           Register(c) \/ QueueArm(c) \/ QueueSend(c) \/ SyncTimeout(c)
    PROVE  StepKind
<1>1. CASE Register(c)
  <2>1. CASE Refuse(c)
    BY <1>1, <2>1, Zenon DEF Register, Refuse, Finish, StepKind, KindRefuse, Bump, tableVars, connVars
  <2>2. CASE ~Refuse(c)
    BY <1>1, <2>2, Zenon DEF Register, StepKind, KindPlace, Enters, connVars, TypeOK
  <2> QED BY <2>1, <2>2, Zenon
<1>2. CASE QueueArm(c) \/ QueueSend(c) \/ SyncTimeout(c)
  <2>1. \A d \in Calls : pc'[d] = "new" <=> pc[d] = "new"
    BY <1>2, Zenon DEF QueueArm, QueueSend, SyncTimeout, TypeOK
  <2> QED
    BY <1>2, <2>1, Zenon DEF QueueArm, QueueSend, SyncTimeout, Enqueue, StepKind, KindKeep,
                      tableVars, connVars
<1> QED
  BY <1>1, <1>2, Zenon

\* Functors.
LEMMA FunctorKinds ==
    ASSUME TypeOK, RunFunctor
    PROVE  StepKind
<1> DEFINE f == Head(functors)
<1>1. f.id \in Nat
  <2>1. f \in Functor
    BY HeadTailProperties, Zenon DEF TypeOK, RunFunctor
  <2> QED BY <2>1 DEF Functor, CallFunctor, StartFunctor, StopFunctor
<1>2. CASE RunStart
  BY <1>2, ConnectKind, KeepKind, Zenon DEF RunStart, tableVars, connVars
<1>3. CASE RunStop
  BY <1>3, Zenon DEF RunStop, Finish, StepKind, KindClose, Bump
<1>4. CASE RunArm(f)
  BY <1>4, KeepKind, Zenon DEF RunArm, tableVars, connVars
<1>5. CASE RunSend(f)
  <2> HIDE DEF f
  <2>1. CASE state = "Closed"
    BY <1>1, <1>5, <2>1, ReleaseKind, Zenon DEF RunSend
  <2>2. CASE state # "Closed"
    BY <1>5, <2>2, WriteKind, Zenon DEF RunSend
  <2> QED BY <2>1, <2>2, Zenon
<1>6. CASE RunCancel(f)
  <2> HIDE DEF f
  <2> QED BY <1>1, <1>6, ReleaseKind, Zenon DEF RunCancel, connVars
<1> QED
  BY <1>2, <1>3, <1>4, <1>5, <1>6, Zenon DEF RunFunctor

\* A call on the loop thread.
LEMMA LoopCallKinds ==
    ASSUME TypeOK, NEW c \in Calls, LoopCall(c)
    PROVE  StepKind
<1>1. CASE Refuse(c)
  BY <1>1, Zenon DEF LoopCall, Refuse, Finish, StepKind, KindRefuse, Bump, tableVars, connVars
<1>2. CASE ~Refuse(c)
  <2>1. Enters(c) /\ WriteFrame([call |-> c, id |-> NextId], Placed(c), FreeLeft)
    BY <1>2, Zenon DEF LoopCall, Enters, TypeOK
  <2>2. CASE HandleClose(Placed(c))
    BY <2>1, <2>2, Zenon DEF HandleClose, Finish, StepKind, KindPlaceAndClose, Bump
  <2>3. CASE StayOpen(state, Placed(c), FreeLeft)
    BY <2>1, <2>3, Zenon DEF StayOpen, StepKind, KindPlace
  <2> QED BY <2>1, <2>2, <2>3, WriteFrameEffect, Zenon
<1> QED
  BY <1>1, <1>2, Zenon

\* Timers and socket events.
LEMMA TimerKinds ==
    ASSUME TypeOK,
           \/ \E t \in deadlines : FireDeadline(t)
           \/ FireConnectTimeout
           \/ FireReconnect
           \/ HeartbeatTick
    PROVE  StepKind
<1>1. ASSUME NEW t \in deadlines, FireDeadline(t)
      PROVE  StepKind
  <2>1. t.id \in Nat
    BY Zenon DEF TypeOK, Deadline
  <2> QED
    BY <1>1, <2>1, ReleaseKind, Zenon DEF FireDeadline, connVars
<1>2. CASE FireConnectTimeout
  BY <1>2, CloseKind, KeepKind, Zenon DEF FireConnectTimeout, tableVars
<1>3. CASE FireReconnect
  BY <1>3, ConnectKind, KeepKind, Zenon DEF FireReconnect, tableVars
<1>4. CASE HeartbeatTick
  BY <1>4, CloseKind, WriteKind, Zenon DEF HeartbeatTick
<1> QED
  BY <1>1, <1>2, <1>3, <1>4, Zenon

LEMMA SocketKinds ==
    ASSUME TypeOK, Connected \/ ConnectionLost \/ HandleRead
    PROVE  StepKind
<1>1. CASE Connected
  <2>1. CASE StayOpen("Ready", pending, freeSlots)
    BY <1>1, <2>1, KeepKind, Zenon DEF Connected, StayOpen
  <2>2. CASE HandleClose(pending)
    BY <1>1, <2>2, CloseKind, Zenon DEF Connected
  <2> QED BY <1>1, <2>1, <2>2, FlushOutputEffect, Zenon DEF Connected
<1>2. CASE ConnectionLost
  BY <1>2, CloseKind, Zenon DEF ConnectionLost
<1>3. CASE HandleRead
  <2>1. UNCHANGED <<pc, slot, state>>
    BY <1>3, Zenon DEF HandleRead, ReadResponse, ReadPart, ReadGarbled, ReadRest, ReadMore, Reading
  <2>2. CASE Undisturbed
    BY <2>1, <2>2, KeepKind, Zenon DEF Undisturbed, tableVars
  <2>3. ASSUME NEW id \in Nat, NEW b, Release(id, "reply", b)
        PROVE  StepKind
    BY <2>1, <2>3, ReleaseKind, Zenon
  <2>4. Undisturbed \/ \E id \in Nat, b \in Calls \cup {NoCall} : Release(id, "reply", b)
    <3>1. frag.id \in Nat /\ frag.call \in Calls \cup {NoCall}
      BY DEF TypeOK, Fragment, NoFrag
    <3>2. \A f \in wire : f.id \in Nat /\ f.call \in Calls
      BY Zenon DEF TypeOK, Frame
    <3> QED
      BY <1>3, <3>1, <3>2, Zenon DEF HandleRead, ReadResponse, ReadPart, ReadGarbled, ReadRest, ReadMore
  <2> QED
    BY <2>2, <2>3, <2>4, Zenon
<1> QED
  BY <1>1, <1>2, <1>3, Zenon

\* Every step of the channel is of one of the six kinds, or leaves all variables.
LEMMA StepKinds ==
    ASSUME TypeOK, [Next]_vars
    PROVE  StepKind
<1>1. CASE AppStep
  BY <1>1, AppKinds, Zenon DEF AppStep
<1>2. CASE Stop
  BY <1>2, KeepKind, Zenon DEF Stop, tableVars, callVars, connVars
<1>3. CASE LoopStep
  BY <1>3, FunctorKinds, LoopCallKinds, TimerKinds, SocketKinds, Zenon DEF LoopStep
<1>4. CASE UNCHANGED vars
  BY <1>4, KeepKind, Zenon DEF vars, tableVars, callVars, connVars
<1> QED
  BY <1>1, <1>2, <1>3, <1>4, Zenon DEF Next

-----------------------------------------------------------------------------
(* The operations on the table *)

LEMMA ZeroOrOne == (\A n \in Nat : n <= 1 => n = 0 \/ n = 1) /\ 0 + 1 = 1 /\ 0 # 1
OBVIOUS

LEMMA SameSuccessor == \A i, j \in Int : i + 1 = j + 1 => i = j
OBVIOUS

LEMMA OneMore ==
    \A n \in Nat : /\ n + 1 \in Nat /\ n + 1 \in 1..(n + 1) /\ n <= n + 1 /\ n + 1 \notin 1..n
                   /\ \A id \in 1..(n + 1) : id # n + 1 => id \in 1..n
OBVIOUS

LEMMA TableGrows ==
    ASSUME NEW tbl \in Seq(Calls \cup {NoCall}), NEW c \in Calls \cup {NoCall}
    PROVE  /\ Append(tbl, c) \in Seq(Calls \cup {NoCall}) /\ Len(Append(tbl, c)) = Len(tbl) + 1
           /\ \A id \in 1..Len(tbl) : Append(tbl, c)[id] = tbl[id]
           /\ Append(tbl, c)[Len(tbl) + 1] = c
BY AppendProperties

LEMMA Successors == \A n \in Nat : n + 1 \in Nat
OBVIOUS

\* The slot a new call gets is empty, and nothing else in the table changes.
LEMMA PlacedProperties ==
    ASSUME TableType, SlotAccounting, NEW c \in Calls
    PROVE  /\ NextId \in Nat
           /\ Placed(c) \in Seq(Calls \cup {NoCall})
           /\ FreeLeft \in Seq(Nat)
           /\ NextId \in 1..Len(Placed(c))
           /\ Len(pending) <= Len(Placed(c))
           /\ Placed(c)[NextId] = c
           /\ \A id \in 1..Len(Placed(c)) :
                id # NextId => id \in 1..Len(pending) /\ Placed(c)[id] = pending[id]
           /\ NextId \in 1..Len(pending) => pending[NextId] = NoCall
<1> Len(pending) \in Nat /\ Len(freeSlots) \in Nat
  BY LenProperties, Zenon DEF TableType
<1>1. CASE freeSlots = <<>>
  <2>1. NextId = Len(pending) + 1 /\ Placed(c) = Append(pending, c) /\ FreeLeft = <<>>
    BY <1>1, Zenon DEF NextId, Placed, FreeLeft
  <2>2. /\ Placed(c) \in Seq(Calls \cup {NoCall}) /\ Len(Placed(c)) = Len(pending) + 1
        /\ \A id \in 1..Len(pending) : Placed(c)[id] = pending[id]
        /\ Placed(c)[Len(pending) + 1] = c
    <3>1. pending \in Seq(Calls \cup {NoCall}) /\ c \in Calls \cup {NoCall}
      BY Zenon DEF TableType
    <3>2. /\ Append(pending, c) \in Seq(Calls \cup {NoCall})
          /\ Len(Append(pending, c)) = Len(pending) + 1
          /\ \A id \in 1..Len(pending) : Append(pending, c)[id] = pending[id]
          /\ Append(pending, c)[Len(pending) + 1] = c
      BY <3>1, TableGrows, Zenon
    <3> QED BY <2>1, <3>2, Zenon
  <2>3. FreeLeft \in Seq(Nat)
    BY <2>1, EmptySeq, Zenon
  <2>4. /\ NextId \in Nat /\ NextId \in 1..Len(Placed(c)) /\ Len(pending) <= Len(Placed(c))
        /\ NextId \notin 1..Len(pending)
        /\ \A id \in 1..Len(Placed(c)) : id # NextId => id \in 1..Len(pending)
    <3>1. PICK n \in Nat : n = Len(pending)
      BY Zenon
    <3>2. NextId = n + 1 /\ Len(Placed(c)) = n + 1
      BY <2>1, <2>2, <3>1, Zenon
    <3>3. /\ n + 1 \in Nat /\ n + 1 \in 1..(n + 1) /\ n <= n + 1 /\ n + 1 \notin 1..n
          /\ \A id \in 1..(n + 1) : id # n + 1 => id \in 1..n
      BY OneMore, Zenon
    <3> QED BY <3>1, <3>2, <3>3, Zenon
  <2> QED BY <2>1, <2>2, <2>3, <2>4, Zenon
<1>2. CASE freeSlots # <<>>
  <2>1. Head(freeSlots) = freeSlots[1] /\ 1 \in 1..Len(freeSlots)
    BY <1>2, EmptySeq DEF TableType
  <2>2. Head(freeSlots) \in 1..Len(pending) /\ pending[Head(freeSlots)] = NoCall
    BY <2>1 DEF SlotAccounting
  <2>3. Tail(freeSlots) \in Seq(Nat)
    BY <1>2, HeadTailProperties, Zenon DEF TableType
  <2> QED
    BY <1>2, <2>2, <2>3, ExceptSeq DEF TableType, NextId, Placed, FreeLeft
<1> QED
  BY <1>1, <1>2, Zenon

\* Emptying a slot changes nothing else.
LEMMA VacatedProperties ==
    ASSUME TableType, NEW id \in Nat, Occupied(id)
    PROVE  /\ id \in 1..Len(pending)
           /\ pending[id] \in Calls
           /\ Vacated(id) \in Seq(Calls \cup {NoCall})
           /\ Len(Vacated(id)) = Len(pending)
           /\ \A i \in 1..Len(pending) :
                Vacated(id)[i] = IF i = id THEN NoCall ELSE pending[i]
           /\ FreeWith(id) \in Seq(Nat)
           /\ Len(FreeWith(id)) = Len(freeSlots) + 1
           /\ \A i \in 1..Len(freeSlots) : FreeWith(id)[i] = freeSlots[i]
           /\ FreeWith(id)[Len(freeSlots) + 1] = id
<1>1. id \in 1..Len(pending) /\ pending[id] \in Calls
  BY ElementOfSeq DEF TableType, Occupied
<1>2. /\ Vacated(id) \in Seq(Calls \cup {NoCall})
      /\ Len(Vacated(id)) = Len(pending)
      /\ \A i \in 1..Len(pending) : Vacated(id)[i] = IF i = id THEN NoCall ELSE pending[i]
  BY <1>1, ExceptSeq DEF TableType, Vacated
<1>3. /\ FreeWith(id) \in Seq(Nat)
      /\ Len(FreeWith(id)) = Len(freeSlots) + 1
      /\ \A i \in 1..Len(freeSlots) : FreeWith(id)[i] = freeSlots[i]
      /\ FreeWith(id)[Len(freeSlots) + 1] = id
  BY AppendProperties DEF TableType, FreeWith
<1> QED
  BY <1>1, <1>2, <1>3, Zenon

-----------------------------------------------------------------------------
(* The table invariant, kind by kind *)

LEMMA KeepKeepsTable ==
    ASSUME TableInv, KindKeep, pc' \in [Calls -> Places]
    PROVE  TableInv'
<1>1. UNCHANGED <<pending, freeSlots, slot, doneCount>>
  BY Zenon DEF KindKeep
<1>2. TableType' /\ DoneAtMostOnce' /\ SlotAccounting'
  BY <1>1, Zenon DEF TableInv, TableType, DoneAtMostOnce, SlotAccounting
<1>3. \A c \in Calls : (pc'[c] = "new") <=> (pc[c] = "new")
  BY Zenon DEF KindKeep
<1>4. NewIsUndone' /\ ClosedIsEmpty'
  BY <1>1, <1>3, Zenon DEF TableInv, NewIsUndone, ClosedIsEmpty, KindKeep
<1>5. TableExact'
  <2>1. TableExact
    BY Zenon DEF TableInv
  <2>2. \A id \in 1..Len(pending) : pending[id] # NoCall => pending[id] \in Calls
    BY ElementOfSeq DEF TableInv, TableType
  <2> QED
    BY <1>1, <1>3, <2>1, <2>2, Zenon DEF TableExact, Issued
<1> QED
  BY <1>2, <1>4, <1>5, Zenon DEF TableInv

LEMMA ReleaseKeepsTable ==
    ASSUME TableInv, NEW id \in Nat, KindRelease(id)
    PROVE  TableInv'
<1> DEFINE c == pending[id]
<1> USE DEF TableInv
<1>1. /\ id \in 1..Len(pending) /\ c \in Calls
      /\ Len(pending') = Len(pending)
      /\ \A i \in 1..Len(pending) : pending'[i] = IF i = id THEN NoCall ELSE pending[i]
      /\ Len(freeSlots') = Len(freeSlots) + 1 /\ Len(freeSlots) \in Nat
      /\ \A i \in 1..Len(freeSlots) : freeSlots'[i] = freeSlots[i]
      /\ freeSlots'[Len(freeSlots) + 1] = id
  <2>1. /\ TableType /\ Occupied(id)
        /\ pending' = Vacated(id) /\ freeSlots' = FreeWith(id)
    BY Zenon DEF KindRelease
  <2>2. Len(freeSlots) \in Nat
    BY LenProperties, Zenon DEF TableType
  <2> HIDE DEF TableInv
  <2> QED
    BY <2>1, <2>2, VacatedProperties, SMTT(20)
<1>2. Issued(c) /\ doneCount[c] = 0 /\ slot[c] = id
  BY <1>1, CallsAssumption, Zenon DEF TableExact
<1>3. /\ \A d \in Calls : doneCount'[d] = IF d = c THEN 1 ELSE doneCount[d]
      /\ doneCount' \in [Calls -> Nat]
  BY <1>1, <1>2, SMTT(20) DEF KindRelease, Bump, TableType
<1>4. TableType'
  BY <1>3, VacatedProperties, Zenon DEF KindRelease, TableType
<1>5. DoneAtMostOnce'
  BY <1>3 DEF DoneAtMostOnce
<1>6. TableExact'
  <2>1. ASSUME NEW d \in Calls, pc'[d] # "new", doneCount'[d] = 0
        PROVE  slot'[d] \in 1..Len(pending') /\ pending'[slot'[d]] = d
    <3>1. d # c /\ doneCount[d] = 0 /\ Issued(d)
      BY <1>3, <2>1, SMTT(20) DEF KindRelease, Issued
    <3>2. slot[d] \in 1..Len(pending) /\ pending[slot[d]] = d
      BY <3>1, Zenon DEF TableExact
    <3> QED BY <1>1, <3>1, <3>2, Zenon DEF KindRelease
  <2>2. ASSUME NEW i \in 1..Len(pending'), pending'[i] # NoCall
        PROVE  pc'[pending'[i]] # "new" /\ doneCount'[pending'[i]] = 0 /\ slot'[pending'[i]] = i
    <3>1. i # id /\ pending'[i] = pending[i] /\ pending[i] \in Calls
      BY <1>1, <2>2, ElementOfSeq, SMTT(20) DEF TableType
    <3>2. Issued(pending[i]) /\ doneCount[pending[i]] = 0 /\ slot[pending[i]] = i
      BY <1>1, <2>2, <3>1, Zenon DEF TableExact
    <3>3. pending[i] # c
      BY <1>2, <3>1, <3>2, Zenon
    <3> QED BY <1>3, <3>1, <3>2, <3>3, Zenon DEF KindRelease, Issued
  <2> QED
    BY <2>1, <2>2, Zenon DEF TableExact, Issued
<1>7. SlotAccounting'
  <2>1. \A i \in 1..Len(freeSlots) : freeSlots[i] # id
    BY <1>1, CallsAssumption DEF SlotAccounting
  <2>2. \A i \in 1..Len(freeSlots') :
            freeSlots'[i] \in 1..Len(pending') /\ pending'[freeSlots'[i]] = NoCall
    <3> SUFFICES ASSUME NEW i \in 1..Len(freeSlots')
                 PROVE  freeSlots'[i] \in 1..Len(pending') /\ pending'[freeSlots'[i]] = NoCall
      BY Zenon
    <3>1. i \in 1..Len(freeSlots) \/ i = Len(freeSlots) + 1
      BY <1>1
    <3>2. CASE i \in 1..Len(freeSlots)
      BY <1>1, <3>2, ZenonT(30) DEF SlotAccounting
    <3>3. CASE i = Len(freeSlots) + 1
      BY <1>1, <3>3, Zenon
    <3> QED BY <3>1, <3>2, <3>3, Zenon
  <2>3. ASSUME NEW i \in 1..Len(freeSlots'), NEW j \in 1..Len(freeSlots'),
               freeSlots'[i] = freeSlots'[j]
        PROVE  i = j
    <3> DEFINE n == Len(freeSlots)
    <3>1. i \in 1..n \/ i = n + 1
      BY <1>1
    <3>2. j \in 1..n \/ j = n + 1
      BY <1>1
    <3>3. CASE i \in 1..n /\ j \in 1..n
      BY <1>1, <2>3, <3>3 DEF SlotAccounting
    <3>4. CASE i = n + 1 /\ j \in 1..n
      BY <1>1, <2>1, <2>3, <3>4, Zenon
    <3>5. CASE i \in 1..n /\ j = n + 1
      BY <1>1, <2>1, <2>3, <3>5, Zenon
    <3> QED
      BY <3>1, <3>2, <3>3, <3>4, <3>5, Zenon
  <2>4. ASSUME NEW k \in 1..Len(pending'), pending'[k] = NoCall
        PROVE  \E i \in 1..Len(freeSlots') : freeSlots'[i] = k
    <3>1. CASE k = id
      BY <1>1, <3>1
    <3>2. CASE k # id
      <4>1. PICK i \in 1..Len(freeSlots) : freeSlots[i] = k
        BY <1>1, <2>4, <3>2, Zenon DEF SlotAccounting
      <4> QED BY <1>1, <4>1
    <3> QED BY <3>1, <3>2, Zenon
  <2> QED
    BY <2>2, <2>3, <2>4, Zenon DEF SlotAccounting
<1>8. ClosedIsEmpty'
  BY <1>1, EmptySeq DEF ClosedIsEmpty, KindRelease
<1>9. NewIsUndone'
  BY <1>2, <1>3, Zenon DEF NewIsUndone, Issued, KindRelease
<1> QED
  BY <1>4, <1>5, <1>6, <1>7, <1>8, <1>9, Zenon

LEMMA CloseKeepsTable ==
    ASSUME TableInv, KindClose
    PROVE  TableInv'
<1> USE DEF TableInv
<1>1. Len(pending') = 0 /\ Len(freeSlots') = 0
  BY EmptySeq, Zenon DEF KindClose
<1>2. \A c \in Calls : c \in Occupants(pending) <=> Issued(c) /\ doneCount[c] = 0
  BY CallsAssumption, SMTT(20) DEF Occupants, TableExact
<1>3. /\ \A c \in Calls : doneCount'[c] = IF Issued(c) THEN 1 ELSE 0
      /\ doneCount' \in [Calls -> Nat]
  <2>1. doneCount' = [c \in Calls |-> IF c \in Occupants(pending) THEN doneCount[c] + 1 ELSE doneCount[c]]
    BY Zenon DEF KindClose, Bump
  <2>2. \A c \in Calls : doneCount[c] \in Nat /\ doneCount[c] <= 1
    BY Zenon DEF TableType, DoneAtMostOnce
  <2>3. ASSUME NEW c \in Calls PROVE doneCount'[c] = IF Issued(c) THEN 1 ELSE 0
    <3>1. doneCount[c] = 0 \/ doneCount[c] = 1
      BY <2>2, ZeroOrOne, Zenon
    <3>2. ~Issued(c) => doneCount[c] = 0
      BY Zenon DEF NewIsUndone, Issued
    <3>3. 0 + 1 = 1 /\ 0 # 1
      BY ZeroOrOne, Zenon
    <3> QED BY <1>2, <2>1, <3>1, <3>2, <3>3, Zenon
  <2> HIDE DEF TableInv
  <2>4. doneCount' \in [Calls -> Nat]
    BY <2>1, <2>2, Successors, Zenon
  <2> QED BY <2>3, <2>4, Zenon
<1>4. TableType'
  BY <1>3, EmptySeq, Zenon DEF KindClose, TableType
<1>5. DoneAtMostOnce' /\ NewIsUndone'
  BY <1>3, SMTT(20) DEF DoneAtMostOnce, NewIsUndone, Issued, KindClose
<1>6. TableExact' /\ SlotAccounting'
  BY <1>1, <1>3, SMTT(20) DEF TableExact, SlotAccounting, Issued, KindClose
<1>7. ClosedIsEmpty'
  BY Zenon DEF ClosedIsEmpty, KindClose
<1> QED
  BY <1>4, <1>5, <1>6, <1>7, Zenon

LEMMA PlaceKeepsTable ==
    ASSUME TableInv, NEW c \in Calls, KindPlace(c), pc' \in [Calls -> Places]
    PROVE  TableInv'
<1> USE DEF TableInv
<1> DEFINE n == NextId
<1>1. /\ n \in Nat
      /\ n \in 1..Len(pending') /\ pending'[n] = c
      /\ Len(pending) <= Len(pending') /\ Len(pending) \in Nat /\ Len(pending') \in Nat
      /\ \A id \in 1..Len(pending') :
            id # n => id \in 1..Len(pending) /\ pending'[id] = pending[id]
      /\ n \in 1..Len(pending) => pending[n] = NoCall
  BY PlacedProperties, LenProperties, SMTT(20) DEF KindPlace, TableType
<1>2. /\ pc[c] = "new" /\ pc'[c] # "new" /\ doneCount[c] = 0
      /\ \A d \in Calls : d # c => pc'[d] = pc[d]
  BY Zenon DEF KindPlace, Enters, NewIsUndone, TableType
<1>3. slot' \in [Calls -> Nat] /\ \A d \in Calls : slot'[d] = IF d = c THEN n ELSE slot[d]
  BY <1>1, Zenon DEF KindPlace, Enters, TableType
<1>4. TableType'
  BY <1>3, PlacedProperties, Zenon DEF KindPlace, TableType
<1>5. DoneAtMostOnce' /\ NewIsUndone'
  BY <1>2, Zenon DEF DoneAtMostOnce, NewIsUndone, KindPlace
<1>6. TableExact'
  <2> HIDE DEF n
  <2>1. ASSUME NEW d \in Calls, Issued(d)', doneCount'[d] = 0
        PROVE  slot'[d] \in 1..Len(pending') /\ pending'[slot'[d]] = d
    <3>1. CASE d = c
      BY <1>1, <1>3, <3>1, Zenon
    <3>2. CASE d # c
      <4>1. slot[d] \in 1..Len(pending) /\ pending[slot[d]] = d
        BY <1>2, <2>1, <3>2, Zenon DEF TableExact, Issued, KindPlace
      <4>2. slot[d] # n
        BY <1>1, <4>1, CallsAssumption, Zenon
      <4> QED BY <1>1, <1>3, <3>2, <4>1, <4>2, SMTT(20)
    <3> QED BY <3>1, <3>2, Zenon
  <2>2. ASSUME NEW id \in 1..Len(pending'), pending'[id] # NoCall
        PROVE  pc'[pending'[id]] # "new" /\ doneCount'[pending'[id]] = 0 /\ slot'[pending'[id]] = id
    <3>1. CASE id = n
      BY <1>1, <1>2, <1>3, <3>1, Zenon DEF Issued, KindPlace
    <3>2. CASE id # n
      <4>1. id \in 1..Len(pending) /\ pending'[id] = pending[id] /\ pending[id] \in Calls
        BY <1>1, <2>2, <3>2, ElementOfSeq, SMTT(20) DEF TableType
      <4>2. Issued(pending[id]) /\ doneCount[pending[id]] = 0 /\ slot[pending[id]] = id
        BY <2>2, <4>1, Zenon DEF TableExact
      <4>3. pending[id] # c
        BY <1>2, <4>2, Zenon DEF Issued
      <4> QED BY <1>2, <1>3, <4>1, <4>2, <4>3, Zenon DEF Issued, KindPlace
    <3> QED BY <3>1, <3>2, Zenon
  <2> QED
    BY <2>1, <2>2, Zenon DEF TableExact, Issued
<1>7. SlotAccounting'
  <2>1. CASE freeSlots = <<>>
    <3>1. Len(freeSlots) = 0 /\ Len(freeSlots') = 0
      BY <2>1, EmptySeq, Zenon DEF KindPlace, FreeLeft
    <3>2. \A id \in 1..Len(pending') : pending'[id] # NoCall
      BY <1>1, <3>1, CallsAssumption, SMTT(20) DEF SlotAccounting
    <3> QED
      BY <3>1, <3>2 DEF SlotAccounting
  <2>2. CASE freeSlots # <<>>
    <3>1. /\ Len(freeSlots) \in Nat /\ Len(freeSlots') = Len(freeSlots) - 1
          /\ \A i \in 1..Len(freeSlots') : freeSlots'[i] = freeSlots[i + 1]
          /\ n = freeSlots[1] /\ Len(freeSlots) > 0
      BY <2>2, HeadTailProperties, LenProperties, EmptySeq
         DEF KindPlace, FreeLeft, NextId, TableType
    <3> HIDE DEF n
    <3>2. \A i \in 1..Len(freeSlots') : freeSlots'[i] # n
      BY <3>1 DEF SlotAccounting
    <3>3. \A i \in 1..Len(freeSlots') :
              freeSlots'[i] \in 1..Len(pending') /\ pending'[freeSlots'[i]] = NoCall
      <4> SUFFICES ASSUME NEW i \in 1..Len(freeSlots')
                   PROVE  freeSlots'[i] \in 1..Len(pending') /\ pending'[freeSlots'[i]] = NoCall
        OBVIOUS
      <4>1. i + 1 \in 1..Len(freeSlots) /\ freeSlots'[i] = freeSlots[i + 1]
        BY <3>1
      <4>2. freeSlots[i + 1] \in 1..Len(pending) /\ pending[freeSlots[i + 1]] = NoCall
        BY <4>1, Zenon DEF SlotAccounting
      <4>3. 1..Len(pending) \subseteq 1..Len(pending')
        BY <1>1
      <4>4. freeSlots'[i] \in 1..Len(pending') /\ freeSlots'[i] # n
        BY <3>2, <4>1, <4>2, <4>3, Zenon
      <4>5. pending'[freeSlots'[i]] = pending[freeSlots'[i]]
        BY <1>1, <4>4, Zenon
      <4> QED BY <4>1, <4>2, <4>4, <4>5, Zenon
    <3>4. \A i, j \in 1..Len(freeSlots') : freeSlots'[i] = freeSlots'[j] => i = j
      <4> SUFFICES ASSUME NEW i \in 1..Len(freeSlots'), NEW j \in 1..Len(freeSlots'),
                          freeSlots'[i] = freeSlots'[j]
                   PROVE  i = j
        BY Zenon
      <4>1. i \in Int /\ j \in Int /\ i + 1 \in 1..Len(freeSlots) /\ j + 1 \in 1..Len(freeSlots)
        BY <3>1
      <4>2. i + 1 = j + 1
        <5>1. freeSlots[i + 1] = freeSlots[j + 1]
          BY <3>1, Zenon
        <5> QED BY <4>1, <5>1, Zenon DEF SlotAccounting
      <4> QED BY <4>1, <4>2, SameSuccessor, Zenon
    <3>5. ASSUME NEW k \in 1..Len(pending'), pending'[k] = NoCall
          PROVE  \E i \in 1..Len(freeSlots') : freeSlots'[i] = k
      <4>1. k # n /\ k \in 1..Len(pending) /\ pending[k] = NoCall
        BY <1>1, <3>5, CallsAssumption, Zenon
      <4>2. PICK i \in 1..Len(freeSlots) : freeSlots[i] = k
        BY <4>1, Zenon DEF SlotAccounting
      <4>3. i # 1 /\ i - 1 \in 1..Len(freeSlots') /\ freeSlots'[i - 1] = k
        BY <3>1, <4>1, <4>2
      <4> QED BY <4>3, Zenon
    <3> QED
      BY <3>3, <3>4, <3>5, Zenon DEF SlotAccounting
  <2> QED BY <2>1, <2>2, Zenon
<1>8. ClosedIsEmpty'
  BY Zenon DEF ClosedIsEmpty, KindPlace, Enters
<1> QED
  BY <1>4, <1>5, <1>6, <1>7, <1>8, Zenon

\* A new call joins the calls in the table.
LEMMA PlacedOccupants ==
    ASSUME TableType, SlotAccounting, NEW c \in Calls
    PROVE  Occupants(Placed(c)) = Occupants(pending) \cup {c}
<1> DEFINE n == NextId
<1>1. /\ n \in 1..Len(Placed(c)) /\ Placed(c)[n] = c
      /\ Len(pending) <= Len(Placed(c)) /\ Len(pending) \in Nat /\ Len(Placed(c)) \in Nat
      /\ \A id \in 1..Len(Placed(c)) :
            id # n => id \in 1..Len(pending) /\ Placed(c)[id] = pending[id]
      /\ n \in 1..Len(pending) => pending[n] = NoCall
  BY PlacedProperties, LenProperties, Zenon DEF TableType
<1> HIDE DEF n
<1>2. c \in Occupants(Placed(c))
  BY <1>1, CallsAssumption, Zenon DEF Occupants
<1>3. ASSUME NEW d \in Occupants(pending)
      PROVE  d \in Occupants(Placed(c))
  <2>1. PICK id \in 1..Len(pending) : pending[id] = d /\ d # NoCall
    BY Zenon DEF Occupants
  <2>2. id \in 1..Len(Placed(c)) /\ Placed(c)[id] = d
    BY <1>1, <2>1
  <2> QED BY <2>1, <2>2, Zenon DEF Occupants
<1>4. ASSUME NEW d \in Occupants(Placed(c)), d # c
      PROVE  d \in Occupants(pending)
  <2>1. PICK id \in 1..Len(Placed(c)) : Placed(c)[id] = d /\ d # NoCall
    BY Zenon DEF Occupants
  <2>2. id \in 1..Len(pending) /\ pending[id] = d
    BY <1>1, <1>4, <2>1, Zenon
  <2> QED BY <2>1, <2>2, Zenon DEF Occupants
<1> QED
  BY <1>2, <1>3, <1>4, Zenon

\* The calls in the table are the ones that are issued and not done.
LEMMA OccupantsAreOpen ==
    ASSUME TableType, TableExact
    PROVE  Occupants(pending) = {c \in Calls : Issued(c) /\ doneCount[c] = 0}
<1>1. \A c \in Calls : c \in Occupants(pending) <=> Issued(c) /\ doneCount[c] = 0
  BY CallsAssumption, SMTT(20) DEF Occupants, TableExact
<1>2. Occupants(pending) \subseteq Calls
  BY ElementOfSeq DEF Occupants, TableType
<1> QED
  BY <1>1, <1>2, Zenon

LEMMA PlaceAndCloseKeepsTable ==
    ASSUME TableInv, NEW c \in Calls, KindPlaceAndClose(c), pc' \in [Calls -> Places]
    PROVE  TableInv'
<1> USE DEF TableInv
<1>1. Len(pending') = 0 /\ Len(freeSlots') = 0
  BY EmptySeq, Zenon DEF KindPlaceAndClose
<1>2. /\ pc[c] = "new" /\ pc'[c] # "new" /\ doneCount[c] = 0
      /\ \A d \in Calls : d # c => pc'[d] = pc[d]
  BY Zenon DEF KindPlaceAndClose, Enters, NewIsUndone, TableType
<1>3. Occupants(Placed(c)) = {d \in Calls : Issued(d) /\ doneCount[d] = 0} \cup {c}
  BY PlacedOccupants, OccupantsAreOpen, Zenon
<1>4. /\ \A d \in Calls : doneCount'[d] = IF pc'[d] # "new" THEN 1 ELSE 0
      /\ doneCount' \in [Calls -> Nat]
  <2>1. doneCount' = [d \in Calls |-> IF d \in Occupants(Placed(c)) THEN doneCount[d] + 1 ELSE doneCount[d]]
    BY Zenon DEF KindPlaceAndClose, Bump
  <2>2. \A d \in Calls : doneCount[d] \in Nat /\ doneCount[d] <= 1
    BY Zenon DEF TableType, DoneAtMostOnce
  <2>3. ASSUME NEW d \in Calls PROVE doneCount'[d] = IF pc'[d] # "new" THEN 1 ELSE 0
    <3>1. doneCount[d] = 0 \/ doneCount[d] = 1
      BY <2>2, ZeroOrOne, Zenon
    <3>2. pc[d] = "new" => doneCount[d] = 0
      BY Zenon DEF NewIsUndone, Issued
    <3>3. 0 + 1 = 1 /\ 0 # 1
      BY ZeroOrOne, Zenon
    <3>4. d \in Occupants(Placed(c)) <=> pc'[d] # "new" /\ doneCount[d] = 0
      BY <1>2, <1>3, Zenon DEF Issued
    <3>5. pc'[d] = "new" => doneCount[d] = 0
      BY <1>2, <3>2, Zenon
    <3> QED BY <2>1, <3>1, <3>3, <3>4, <3>5, Zenon
  <2> HIDE DEF TableInv
  <2>4. doneCount' \in [Calls -> Nat]
    BY <2>1, <2>2, Successors, Zenon
  <2> QED BY <2>3, <2>4, Zenon
<1>5. TableType'
  BY <1>4, EmptySeq, PlacedProperties, Zenon DEF KindPlaceAndClose, Enters, TableType
<1>6. DoneAtMostOnce' /\ NewIsUndone'
  BY <1>4, SMTT(20) DEF DoneAtMostOnce, NewIsUndone
<1>7. TableExact'
  <2>1. \A d \in Calls : ~(pc'[d] # "new" /\ doneCount'[d] = 0)
    BY <1>4
  <2>2. 1..Len(pending') = {}
    BY <1>1
  <2> QED
    BY <2>1, <2>2, Zenon DEF TableExact, Issued
<1>8. SlotAccounting'
  <2>1. 1..Len(pending') = {} /\ 1..Len(freeSlots') = {}
    BY <1>1
  <2> QED
    BY <2>1, Zenon DEF SlotAccounting
<1>9. ClosedIsEmpty'
  BY Zenon DEF ClosedIsEmpty, KindPlaceAndClose
<1> QED
  BY <1>5, <1>6, <1>7, <1>8, <1>9, Zenon

LEMMA RefuseKeepsTable ==
    ASSUME TableInv, NEW c \in Calls, KindRefuse(c)
    PROVE  TableInv'
<1> USE DEF TableInv
<1>1. /\ pc[c] = "new" /\ pc'[c] = "returned" /\ doneCount[c] = 0
      /\ pc' \in [Calls -> Places]
      /\ \A d \in Calls : d # c => pc'[d] = pc[d]
  BY Zenon DEF KindRefuse, NewIsUndone, TableType, Places
<1>2. /\ \A d \in Calls : doneCount'[d] = IF d = c THEN 1 ELSE doneCount[d]
      /\ doneCount' \in [Calls -> Nat]
  BY <1>1, SMTT(20) DEF KindRefuse, Bump, TableType
<1>3. TableType'
  BY <1>1, <1>2, Zenon DEF KindRefuse, TableType
<1>4. DoneAtMostOnce' /\ NewIsUndone'
  BY <1>1, <1>2, SMTT(20) DEF DoneAtMostOnce, NewIsUndone
<1>5. TableExact'
  <2>1. TableExact /\ TableType /\ UNCHANGED <<pending, freeSlots, slot>>
    BY Zenon DEF KindRefuse
  <2> HIDE DEF TableInv
  <2>2. \A id \in 1..Len(pending) : pending[id] # c
    <3>1. SUFFICES ASSUME NEW id \in 1..Len(pending), pending[id] = c PROVE FALSE
      BY Zenon
    <3>2. Issued(c)
      BY <2>1, <3>1, CallsAssumption, Zenon DEF TableExact
    <3> QED
      BY <1>1, <3>2, Zenon DEF Issued
  <2>3. \A id \in 1..Len(pending) : pending[id] # NoCall => pending[id] \in Calls
    BY <2>1, ElementOfSeq DEF TableType
  <2>4. ASSUME NEW d \in Calls, pc'[d] # "new", doneCount'[d] = 0
        PROVE  slot[d] \in 1..Len(pending) /\ pending[slot[d]] = d
    <3>1. d # c /\ pc[d] # "new" /\ doneCount[d] = 0
      BY <1>1, <1>2, <2>4, SMTT(20)
    <3> QED
      BY <2>1, <3>1, Zenon DEF TableExact, Issued
  <2>5. ASSUME NEW id \in 1..Len(pending), pending[id] # NoCall
        PROVE  /\ pc'[pending[id]] # "new" /\ doneCount'[pending[id]] = 0
               /\ slot[pending[id]] = id
    <3>1. pending[id] \in Calls /\ pending[id] # c
      BY <2>2, <2>3, <2>5, Zenon
    <3>2. pc[pending[id]] # "new" /\ doneCount[pending[id]] = 0 /\ slot[pending[id]] = id
      BY <2>1, <2>5, Zenon DEF TableExact, Issued
    <3> QED
      BY <1>1, <1>2, <3>1, <3>2, Zenon
  <2> QED
    BY <2>1, <2>4, <2>5, Zenon DEF TableExact, Issued
<1>6. SlotAccounting' /\ ClosedIsEmpty'
  BY SMTT(20) DEF SlotAccounting, ClosedIsEmpty, KindRefuse
<1> QED
  BY <1>3, <1>4, <1>5, <1>6, Zenon

\* Every kind of step preserves the table invariant.
LEMMA TableStep ==
    ASSUME TableInv, StepKind, pc' \in [Calls -> Places]
    PROVE  TableInv'
BY KeepKeepsTable, ReleaseKeepsTable, CloseKeepsTable, PlaceKeepsTable,
   PlaceAndCloseKeepsTable, RefuseKeepsTable, Zenon DEF StepKind

-----------------------------------------------------------------------------
(* Type correctness.  The variables fall into those that closing or writing  *)
(* may change and the rest.                                                  *)

WriteTypes ==
    /\ pending \in Seq(Calls \cup {NoCall})
    /\ freeSlots \in Seq(Nat)
    /\ doneCount \in [Calls -> Nat]
    /\ how \in [Calls -> Outcomes]
    /\ by \in [Calls -> Calls \cup {NoCall}]
    /\ state \in States
    /\ reconnectTimer \in BOOLEAN
    /\ outQueue \in Seq(Frame \cup {Heartbeat})
    /\ torn \in {"none", "here", "stale"}
    /\ wire \subseteq Frame
    /\ frag \in Fragment \cup {NoFrag}

RestTypes ==
    /\ pc \in [Calls -> Places]
    /\ slot \in [Calls -> Nat]
    /\ ending \subseteq SyncCalls
    /\ reconnectEnabled \in BOOLEAN
    /\ connTimers \in Nat
    /\ connects \in Nat
    /\ heartbeating \in BOOLEAN
    /\ unanswered \in 0..2
    /\ functors \in Seq(Functor)
    /\ deadlines \subseteq Deadline
    /\ stopCalled \in BOOLEAN

LEMMA TypesSplit == TypeOK => WriteTypes /\ RestTypes
BY Zenon DEF TypeOK, WriteTypes, RestTypes

LEMMA TypesJoin == WriteTypes' /\ RestTypes' => TypeOK'
BY Zenon DEF TypeOK, WriteTypes, RestTypes

LEMMA FinishTypes ==
    ASSUME WriteTypes, NEW S, NEW h \in Outcomes, NEW b \in Calls \cup {NoCall},
           Finish(S, h, b)
    PROVE  /\ doneCount' \in [Calls -> Nat]
           /\ how' \in [Calls -> Outcomes]
           /\ by' \in [Calls -> Calls \cup {NoCall}]
BY DEF Finish, WriteTypes

LEMMA ReleaseTypes ==
    ASSUME WriteTypes, NEW id \in Nat, NEW h \in Outcomes, NEW b \in Calls \cup {NoCall},
           Release(id, h, b)
    PROVE  /\ pending' \in Seq(Calls \cup {NoCall})
           /\ freeSlots' \in Seq(Nat)
           /\ doneCount' \in [Calls -> Nat]
           /\ how' \in [Calls -> Outcomes]
           /\ by' \in [Calls -> Calls \cup {NoCall}]
<1>1. CASE Occupied(id)
  <2>1. Vacated(id) \in Seq(Calls \cup {NoCall})
    BY <1>1, ExceptSeq, Zenon DEF Vacated, Occupied, WriteTypes
  <2>2. FreeWith(id) \in Seq(Nat)
    BY AppendProperties, Zenon DEF FreeWith, WriteTypes
  <2> QED
    BY <1>1, <2>1, <2>2, FinishTypes, Zenon DEF Release
<1>2. CASE ~Occupied(id)
  BY <1>2, Zenon DEF Release, WriteTypes
<1> QED
  BY <1>1, <1>2, Zenon

LEMMA HandleCloseTypes ==
    ASSUME WriteTypes, RestTypes, NEW tbl, HandleClose(tbl),
           outQueue' \in Seq(Frame \cup {Heartbeat}),
           torn' \in {"none", "here", "stale"}
    PROVE  WriteTypes'
<1>1. "closed" \in Outcomes /\ "Closed" \in States
  BY Zenon DEF Outcomes, States
<1>2. /\ doneCount' \in [Calls -> Nat]
      /\ how' \in [Calls -> Outcomes]
      /\ by' \in [Calls -> Calls \cup {NoCall}]
  BY <1>1, FinishTypes, Zenon DEF HandleClose
<1>3. frag' \in Fragment \cup {NoFrag}
  <2>1. CASE frag \in Fragment
    BY <2>1, Zenon DEF HandleClose, Fragment
  <2>2. CASE frag = NoFrag
    BY <2>2, Zenon DEF HandleClose, NoFrag
  <2> QED BY <2>1, <2>2, Zenon DEF WriteTypes
<1>4. reconnectTimer' \in BOOLEAN
  BY Zenon DEF HandleClose, ScheduleReconnect
<1>5. wire' \subseteq Frame
  BY Zenon DEF HandleClose
<1> QED
  BY <1>1, <1>2, <1>3, <1>4, <1>5, EmptySeq, Zenon DEF HandleClose, WriteTypes

LEMMA KeepOutputTypes ==
    ASSUME WriteTypes, KeepOutput
    PROVE  outQueue' \in Seq(Frame \cup {Heartbeat}) /\ torn' \in {"none", "here", "stale"}
BY Zenon DEF WriteTypes, KeepOutput

LEMMA CloseAndKeepTypes ==
    ASSUME WriteTypes, RestTypes, NEW tbl, HandleClose(tbl), KeepOutput
    PROVE  WriteTypes'
BY KeepOutputTypes, HandleCloseTypes, Zenon

LEMMA StayOpenTypes ==
    ASSUME WriteTypes, NEW st \in States, NEW tbl \in Seq(Calls \cup {NoCall}),
           NEW free \in Seq(Nat), StayOpen(st, tbl, free),
           outQueue' \in Seq(Frame \cup {Heartbeat}),
           torn' \in {"none", "here", "stale"},
           wire' \subseteq Frame
    PROVE  WriteTypes'
BY Zenon DEF StayOpen, WriteTypes

LEMMA AcceptedTypes ==
    ASSUME WriteTypes, NEW q \in Seq(Frame \cup {Heartbeat}), NEW k \in 0..Len(q),
           NEW cut \in BOOLEAN, Accepted(q, k, cut)
    PROVE  /\ outQueue' \in Seq(Frame \cup {Heartbeat})
           /\ torn' \in {"none", "here", "stale"}
           /\ wire' \subseteq Frame
<1>1. Len(q) \in Nat /\ \A i \in 1..Len(q) : q[i] \in Frame \cup {Heartbeat}
  BY LenProperties, ElementOfSeq, Zenon
<1>2. SubSeq(q, k + 1, Len(q)) \in Seq(Frame \cup {Heartbeat})
  BY <1>1, SubSeqProperties, SMTT(20)
<1>3. Delivered(q, k) \subseteq Frame
  BY <1>1 DEF Delivered
<1> QED
  BY <1>2, <1>3, Zenon DEF Accepted, WriteTypes

LEMMA FlushOutputTypes ==
    ASSUME WriteTypes, RestTypes, NEW q \in Seq(Frame \cup {Heartbeat}), q # <<>>,
           NEW tbl \in Seq(Calls \cup {NoCall}), NEW free \in Seq(Nat),
           FlushOutput(q, tbl, free)
    PROVE  WriteTypes'
<1> "Ready" \in States
  BY Zenon DEF States
<1>1. ASSUME NEW k \in 0..Len(q), NEW cut \in BOOLEAN, Accepted(q, k, cut),
             StayOpen("Ready", tbl, free)
      PROVE  WriteTypes'
  BY <1>1, AcceptedTypes, StayOpenTypes, Zenon
<1>2. CASE Dropped(q) /\ StayOpen("Ready", tbl, free)
  <2>1. q[1] \in Frame \cup {Heartbeat}
    BY EmptySeq, ElementOfSeq
  <2>2. outQueue' \in Seq(Frame \cup {Heartbeat}) /\ torn' \in {"none", "here", "stale"}
    BY <1>2, EmptySeq, Zenon DEF Dropped
  <2>3. wire' \subseteq Frame
    BY <1>2, <2>1, SMTT(20) DEF Dropped, WriteTypes
  <2> QED BY <1>2, <2>2, <2>3, StayOpenTypes, Zenon
<1>3. CASE HandleClose(tbl) /\ outQueue' = <<>> /\ torn' = "none"
  BY <1>3, HandleCloseTypes, EmptySeq, Zenon
<1> QED
  BY <1>1, <1>2, <1>3, Zenon DEF FlushOutput

LEMMA WriteFrameTypes ==
    ASSUME WriteTypes, RestTypes, NEW f \in Frame \cup {Heartbeat},
           NEW tbl \in Seq(Calls \cup {NoCall}), NEW free \in Seq(Nat),
           WriteFrame(f, tbl, free)
    PROVE  WriteTypes'
<1>0. /\ Append(outQueue, f) \in Seq(Frame \cup {Heartbeat})
      /\ Append(outQueue, f) # <<>>
      /\ <<f>> \in Seq(Frame \cup {Heartbeat}) /\ Len(<<f>>) = 1
  <2>1. outQueue \in Seq(Frame \cup {Heartbeat})
    BY Zenon DEF WriteTypes
  <2>2. Append(outQueue, f) \in Seq(Frame \cup {Heartbeat}) /\ Append(outQueue, f) # <<>>
    BY <2>1, AppendProperties, ZenonT(30)
  <2> QED BY <2>2
<1>1. CASE state # "Ready"
  BY <1>0, <1>1, StayOpenTypes, Zenon DEF WriteFrame, WriteTypes
<1>2. CASE state = "Ready" /\ outQueue # <<>>
  BY <1>0, <1>2, FlushOutputTypes, Zenon DEF WriteFrame
<1>3. CASE state = "Ready" /\ outQueue = <<>>
  <2>1. ASSUME NEW k \in 0..1, NEW cut \in BOOLEAN, Accepted(<<f>>, k, cut),
               StayOpen(state, tbl, free)
        PROVE  WriteTypes'
    <3>1. k \in 0..Len(<<f>>)
      BY <1>0, Zenon
    <3> QED BY <1>0, <2>1, <3>1, AcceptedTypes, StayOpenTypes, Zenon DEF WriteTypes
  <2>2. CASE outQueue' = <<f>> /\ UNCHANGED <<torn, wire>> /\ StayOpen(state, tbl, free)
    BY <1>0, <2>2, StayOpenTypes, Zenon DEF WriteTypes
  <2>3. CASE HandleClose(tbl) /\ KeepOutput
    BY <2>3, CloseAndKeepTypes, Zenon
  <2> QED
    BY <1>3, <2>1, <2>2, <2>3, Zenon DEF WriteFrame
<1> QED
  BY <1>1, <1>2, <1>3, Zenon

\* Waking sets `ending` to some of the synchronous calls.
LEMMA WakingType ==
    ASSUME Waking
    PROVE  ending' \subseteq SyncCalls
BY Zenon DEF Waking

\* The steps of application threads and stop().
LEMMA AppTypes ==
    ASSUME TypeOK, SlotAccounting, AppStep \/ Stop
    PROVE  TypeOK'
<1> USE TypesSplit, TypesJoin
<1>1. ASSUME NEW c \in Calls, Register(c)
      PROVE  TypeOK'
  <2>1. CASE Refuse(c)
    <3>1. "refused" \in Outcomes /\ "returned" \in Places
      BY Zenon DEF Outcomes, Places
    <3> QED
      BY <2>1, <3>1, FinishTypes, Zenon
         DEF Refuse, WriteTypes, RestTypes, tableVars, connVars, ioVars, loopVars
  <2>2. CASE ~Refuse(c)
    <3>1. Placed(c) \in Seq(Calls \cup {NoCall}) /\ FreeLeft \in Seq(Nat) /\ NextId \in Nat
      BY PlacedProperties, Zenon DEF TypeOK, TableType
    <3>2. WriteTypes'
      BY <1>1, <2>2, <3>1, Zenon DEF Register, WriteTypes, connVars, ioVars
    <3>3. RestTypes'
      BY <1>1, <2>2, <3>1, Zenon DEF Register, RestTypes, Places, connVars, loopVars
    <3> QED BY <3>2, <3>3, Zenon
  <2> QED BY <2>1, <2>2, Zenon
<1>2. ASSUME NEW c \in Calls, QueueArm(c) \/ QueueSend(c) \/ SyncTimeout(c)
      PROVE  TypeOK'
  <2>1. ASSUME NEW o \in {"arm", "send", "cancel"}, Enqueue(o, c)
        PROVE  functors' \in Seq(Functor)
    <3>1. [op |-> o, call |-> c, id |-> slot[c]] \in Functor
      BY Zenon DEF Functor, CallFunctor, TypeOK
    <3> QED BY <2>1, <3>1, AppendProperties, Zenon DEF Enqueue, TypeOK
  <2>2. functors' \in Seq(Functor)
    BY <1>2, <2>1, Zenon DEF QueueArm, QueueSend, SyncTimeout
  <2>3. pc' \in [Calls -> Places]
    BY <1>2, Zenon DEF QueueArm, QueueSend, SyncTimeout, TypeOK, Places
  <2> QED
    BY <1>2, <2>2, <2>3, ZenonT(30) DEF QueueArm, QueueSend, SyncTimeout, Enqueue, WriteTypes, RestTypes,
                            tableVars, connVars, ioVars
<1>3. CASE Stop
  <2>1. StopFunctor \in Functor
    BY Zenon DEF Functor
  <2>2. functors' \in Seq(Functor)
    BY <1>3, <2>1, AppendProperties, Zenon DEF Stop, TypeOK
  <2> QED
    BY <1>3, <2>2, Zenon DEF Stop, WriteTypes, RestTypes, tableVars, callVars, connVars, ioVars
<1> QED
  BY <1>1, <1>2, <1>3, Zenon DEF AppStep

LEMMA DoConnectTypes ==
    ASSUME TypeOK, DoConnect
    PROVE  /\ WriteTypes'
           /\ connTimers' \in Nat /\ connects' \in Nat
           /\ UNCHANGED <<reconnectEnabled, heartbeating, unanswered>>
<1> USE TypesSplit, TypesJoin
<1>1. CASE HandleClose(pending) /\ KeepOutput /\ UNCHANGED connTimers
  BY <1>1, CloseAndKeepTypes, SMTT(20) DEF DoConnect, RestTypes
<1>2. CASE ~(HandleClose(pending) /\ KeepOutput /\ UNCHANGED connTimers)
  <2>1. WriteTypes'
    BY <1>2, Zenon DEF DoConnect, WriteTypes, States, tableVars, ioVars
  <2> QED BY <1>2, <2>1 DEF DoConnect, RestTypes
<1> QED BY <1>1, <1>2, Zenon

\* The functors of the loop thread.
LEMMA FunctorTypes ==
    ASSUME TypeOK, RunFunctor
    PROVE  TypeOK'
<1> USE TypesSplit, TypesJoin
<1> DEFINE f == Head(functors)
<1>1. f \in Functor /\ functors' \in Seq(Functor) /\ ending' \subseteq SyncCalls
  BY HeadTailProperties, WakingType, Zenon DEF TypeOK, RunFunctor
<1>2. f.op \in {"arm", "send", "cancel"} => f.call \in Calls /\ f.id \in Nat
  <2> HIDE DEF f
  <2>1. CASE f \in CallFunctor
    BY <2>1, Zenon DEF CallFunctor
  <2>2. CASE f = StartFunctor
    BY <2>2, Zenon DEF StartFunctor
  <2>3. CASE f = StopFunctor
    BY <2>3, Zenon DEF StopFunctor
  <2> QED
    BY <1>1, <2>1, <2>2, <2>3, Zenon DEF Functor
<1>3. CASE RunStart
  <2>1. CASE DoConnect
    BY <1>1, <1>3, <2>1, DoConnectTypes, Zenon DEF RunStart, RestTypes
  <2>2. CASE ~DoConnect
    BY <1>1, <1>3, <2>2, Zenon DEF RunStart, WriteTypes, RestTypes, tableVars, connVars, ioVars
  <2> QED BY <2>1, <2>2, Zenon
<1>4. CASE RunStop
  <2>1. "closed" \in Outcomes
    BY Zenon DEF Outcomes
  <2>2. frag' \in Fragment \cup {NoFrag}
    <3>1. CASE frag \in Fragment
      BY <1>4, <3>1, Zenon DEF RunStop, Fragment
    <3>2. CASE frag = NoFrag
      BY <1>4, <3>2, Zenon DEF RunStop, NoFrag
    <3> QED BY <3>1, <3>2, ZenonT(30) DEF TypeOK
  <2>3. /\ doneCount' \in [Calls -> Nat]
        /\ how' \in [Calls -> Outcomes]
        /\ by' \in [Calls -> Calls \cup {NoCall}]
    BY <1>4, <2>1, FinishTypes, ZenonT(30) DEF RunStop
  <2>4. WriteTypes'
    BY <1>4, <2>2, <2>3, KeepOutputTypes, EmptySeq, ZenonT(30) DEF RunStop, WriteTypes, States
  <2>5. RestTypes'
    BY <1>1, <1>4, ZenonT(30) DEF RunStop, RestTypes
  <2> QED BY <2>4, <2>5, Zenon
<1> HIDE DEF f
<1>5. CASE f.op = "arm" /\ RunArm(f)
  <2>1. deadlines' \subseteq Deadline
    <3>1. CASE Occupied(f.id) /\ pending[f.id] \in DeadlineCalls
      <4>1. [owner |-> f.call, for |-> pending[f.id], id |-> f.id] \in Deadline
        BY <1>2, <1>5, <3>1, CallsAssumption, Zenon DEF Deadline
      <4> QED BY <1>5, <3>1, <4>1, ZenonT(30) DEF RunArm, TypeOK
    <3>2. CASE ~(Occupied(f.id) /\ pending[f.id] \in DeadlineCalls)
      BY <1>5, <3>2, ZenonT(30) DEF RunArm, TypeOK
    <3> QED BY <3>1, <3>2, Zenon
  <2> QED
    BY <1>1, <1>5, <2>1, ZenonT(30) DEF RunArm, WriteTypes, RestTypes, tableVars, connVars, ioVars
<1>6. CASE f.op = "send" /\ RunSend(f)
  <2>1. RestTypes'
    BY <1>1, <1>6, ZenonT(30) DEF RunSend, RestTypes
  <2>2. CASE state = "Closed"
    <3>1. "closed" \in Outcomes
      BY Zenon DEF Outcomes
    <3>2. WriteTypes'
      BY <1>2, <1>6, <2>2, <3>1, ReleaseTypes, ZenonT(30) DEF RunSend, WriteTypes, ioVars
    <3> QED BY <2>1, <3>2, ZenonT(30)
  <2>3. CASE state # "Closed"
    <3>1. [call |-> f.call, id |-> f.id] \in Frame
      BY <1>2, <1>6, Zenon DEF Frame
    <3>2. WriteTypes'
      BY <1>6, <2>3, <3>1, WriteFrameTypes, ZenonT(30) DEF RunSend, WriteTypes
    <3> QED BY <2>1, <3>2, Zenon
  <2> QED BY <2>2, <2>3, Zenon
<1>7. CASE f.op = "cancel" /\ RunCancel(f)
  <2>1. "cancelled" \in Outcomes
    BY Zenon DEF Outcomes
  <2>2. WriteTypes'
    BY <1>2, <1>7, <2>1, ReleaseTypes, ZenonT(30) DEF RunCancel, WriteTypes, connVars, ioVars
  <2> QED
    BY <1>1, <1>7, <2>2, ZenonT(30) DEF RunCancel, RestTypes, connVars
<1> QED
  BY <1>3, <1>4, <1>5, <1>6, <1>7, Zenon DEF RunFunctor, f

\* A call on the loop thread.
LEMMA LoopCallTypes ==
    ASSUME TypeOK, SlotAccounting, NEW c \in Calls, LoopCall(c)
    PROVE  TypeOK'
<1> USE TypesSplit, TypesJoin
<1>1. CASE Refuse(c)
  <2>1. "refused" \in Outcomes /\ "returned" \in Places
    BY Zenon DEF Outcomes, Places
  <2> QED
    BY <1>1, <2>1, FinishTypes, Zenon
       DEF Refuse, WriteTypes, RestTypes, tableVars, connVars, ioVars, loopVars
<1>2. CASE ~Refuse(c)
  <2>1. Placed(c) \in Seq(Calls \cup {NoCall}) /\ FreeLeft \in Seq(Nat) /\ NextId \in Nat
    BY PlacedProperties, Zenon DEF TypeOK, TableType
  <2>2. [call |-> c, id |-> NextId] \in Frame
    BY <2>1, Zenon DEF Frame
  <2>3. WriteTypes'
    BY <1>2, <2>1, <2>2, WriteFrameTypes, ZenonT(30) DEF LoopCall
  <2>4. deadlines' \subseteq Deadline
    <3>1. [owner |-> c, for |-> c, id |-> NextId] \in Deadline
      BY <2>1, Zenon DEF Deadline
    <3>2. deadlines \subseteq Deadline
      BY Zenon DEF TypeOK
    <3>3. deadlines' \in {deadlines, deadlines \cup {[owner |-> c, for |-> c, id |-> NextId]}}
      BY <1>2, Zenon DEF LoopCall
    <3> QED
      BY <3>1, <3>2, <3>3, Zenon
  <2>5. pc' \in [Calls -> Places] /\ slot' \in [Calls -> Nat]
    BY <1>2, <2>1, ZenonT(30) DEF LoopCall, TypeOK, Places
  <2>6. RestTypes'
    BY <1>2, <2>4, <2>5, WakingType, Zenon DEF LoopCall, RestTypes
  <2> QED BY <2>3, <2>6, Zenon
<1> QED BY <1>1, <1>2, Zenon

\* Timers.
LEMMA TimerTypes ==
    ASSUME TypeOK,
           \/ \E t \in deadlines : FireDeadline(t)
           \/ FireConnectTimeout
           \/ FireReconnect
           \/ HeartbeatTick
    PROVE  TypeOK'
<1> USE TypesSplit, TypesJoin
<1>1. ASSUME NEW t \in deadlines, FireDeadline(t)
      PROVE  TypeOK'
  <2>1. t.id \in Nat /\ t.for \in Calls
    BY Zenon DEF TypeOK, Deadline
  <2>2. "deadline" \in Outcomes
    BY Zenon DEF Outcomes
  <2>3. WriteTypes'
    BY <1>1, <2>1, <2>2, ReleaseTypes, Zenon DEF FireDeadline, WriteTypes, connVars, ioVars
  <2>4. RestTypes'
    BY <1>1, WakingType, Zenon DEF FireDeadline, RestTypes, connVars
  <2> QED BY <2>3, <2>4, Zenon
<1>2. CASE FireConnectTimeout
  <2>1. RestTypes'
    BY <1>2, WakingType, SMTT(20) DEF FireConnectTimeout, RestTypes, loopVars
  <2>2. WriteTypes'
    <3>1. CASE state = "Connecting"
      BY <1>2, <3>1, CloseAndKeepTypes, ZenonT(30) DEF FireConnectTimeout
    <3>2. CASE state # "Connecting"
      BY <1>2, <3>2, ZenonT(30) DEF FireConnectTimeout, WriteTypes, tableVars, ioVars
    <3> QED BY <3>1, <3>2, Zenon
  <2> QED BY <2>1, <2>2, ZenonT(30)
<1>3. CASE FireReconnect
  <2>1. CASE DoConnect
    BY <1>3, <2>1, DoConnectTypes, WakingType, Zenon DEF FireReconnect, RestTypes, loopVars
  <2>2. CASE ~DoConnect
    <3>1. RestTypes'
      BY <1>3, <2>2, WakingType, ZenonT(30) DEF FireReconnect, RestTypes, loopVars
    <3>2. WriteTypes'
      BY <1>3, <2>2, Zenon DEF FireReconnect, WriteTypes, tableVars, ioVars
    <3> QED BY <3>1, <3>2, ZenonT(30)
  <2> QED BY <2>1, <2>2, Zenon
<1>4. CASE HeartbeatTick
  <2>1. RestTypes'
    BY <1>4, WakingType, SMTT(20) DEF HeartbeatTick, PeerDead, RestTypes, loopVars
  <2>2. WriteTypes'
    <3>1. CASE PeerDead
      BY <1>4, <3>1, CloseAndKeepTypes, Zenon DEF HeartbeatTick
    <3>2. CASE ~PeerDead
      BY <1>4, <3>2, WriteFrameTypes, Zenon DEF HeartbeatTick, WriteTypes
    <3> QED BY <3>1, <3>2, ZenonT(30)
  <2> QED BY <2>1, <2>2, ZenonT(30)
<1> QED
  BY <1>1, <1>2, <1>3, <1>4, Zenon

\* Socket events.
LEMMA SocketTypes ==
    ASSUME TypeOK, Connected \/ ConnectionLost \/ HandleRead
    PROVE  TypeOK'
<1> USE TypesSplit, TypesJoin
<1>1. CASE Connected
  <2>1. RestTypes'
    BY <1>1, WakingType, ConfigAssumption, SMTT(20) DEF Connected, RestTypes, loopVars
  <2>2. WriteTypes'
    <3>1. CASE outQueue = <<>>
      BY <1>1, <3>1, StayOpenTypes, Zenon DEF Connected, WriteTypes, States
    <3>2. CASE outQueue # <<>>
      BY <1>1, <3>2, FlushOutputTypes, Zenon DEF Connected, WriteTypes
    <3> QED BY <3>1, <3>2, Zenon
  <2> QED BY <2>1, <2>2, Zenon
<1>2. CASE ConnectionLost
  <2>1. RestTypes'
    BY <1>2, WakingType, Zenon DEF ConnectionLost, RestTypes, loopVars
  <2>2. WriteTypes'
    BY <1>2, CloseAndKeepTypes, Zenon DEF ConnectionLost
  <2> QED BY <2>1, <2>2, Zenon
<1>3. CASE HandleRead
  <2> USE DEF HandleRead, ReadResponse, ReadPart, ReadGarbled, ReadRest, ReadMore
  <2>1. RestTypes'
    <3>1. Reading /\ Waking
      BY <1>3, Zenon
    <3>2. ending' \subseteq SyncCalls
      BY <3>1, WakingType, ZenonT(30)
    <3>3. unanswered' \in 0..2
      BY <3>1, SMTT(20) DEF Reading
    <3> QED
      BY <3>1, <3>2, <3>3, Zenon DEF Reading, RestTypes, loopVars
  <2>2. frag.id \in Nat /\ frag.call \in Calls \cup {NoCall}
    <3>1. frag \in Fragment \cup {NoFrag}
      BY Zenon DEF TypeOK
    <3>2. CASE frag \in Fragment
      BY <3>2, Zenon DEF Fragment
    <3>3. CASE frag = NoFrag
      BY <3>3, Zenon DEF NoFrag
    <3> QED
      BY <3>1, <3>2, <3>3, Zenon
  <2>3. \A f \in wire : f.id \in Nat /\ f.call \in Calls
    <3>1. wire \subseteq Frame
      BY Zenon DEF TypeOK
    <3>2. \A f \in Frame : f.id \in Nat /\ f.call \in Calls
      BY Zenon DEF Frame
    <3> QED
      BY <3>1, <3>2, Zenon
  <2>4. Undisturbed \/ \E id \in Nat, b \in Calls \cup {NoCall} : Release(id, "reply", b)
    BY <1>3, <2>2, <2>3, Zenon
  <2>5. wire' \subseteq Frame
    BY <1>3, ZenonT(30) DEF TypeOK
  <2>6. frag' \in Fragment \cup {NoFrag}
    <3>1. \A f \in wire : [call |-> f.call, id |-> f.id, fresh |-> TRUE] \in Fragment
      BY <2>3, Zenon DEF Fragment
    <3>2. frag \in Fragment => [frag EXCEPT !.id = 0] \in Fragment
      BY Zenon DEF Fragment
    <3> QED
      BY <1>3, <3>1, <3>2, ZenonT(30) DEF TypeOK
  <2>7. UNCHANGED <<state, reconnectTimer, outQueue, torn>>
    BY <1>3, Zenon DEF Reading
  <2>8. WriteTypes'
    <3>1. CASE Undisturbed
      BY <2>5, <2>6, <2>7, <3>1, Zenon DEF Undisturbed, WriteTypes, tableVars
    <3>2. ASSUME NEW id \in Nat, NEW b \in Calls \cup {NoCall}, Release(id, "reply", b)
          PROVE  WriteTypes'
      <4>1. "reply" \in Outcomes
        BY Zenon DEF Outcomes
      <4> QED BY <2>5, <2>6, <2>7, <3>2, <4>1, ReleaseTypes, ZenonT(30) DEF WriteTypes
    <3> QED BY <2>4, <3>1, <3>2, Zenon
  <2> QED BY <2>1, <2>8, Zenon
<1> QED
  BY <1>1, <1>2, <1>3, Zenon

LEMMA TypeStep ==
    ASSUME TypeOK, SlotAccounting, [Next]_vars
    PROVE  TypeOK'
<1>1. CASE AppStep \/ Stop
  BY <1>1, AppTypes, Zenon
<1>2. CASE LoopStep
  BY <1>2, FunctorTypes, LoopCallTypes, TimerTypes, SocketTypes, ZenonT(30) DEF LoopStep
<1>3. CASE UNCHANGED vars
  BY <1>3, Zenon DEF TypeOK, vars, tableVars, callVars, connVars, ioVars, loopVars
<1> QED
  BY <1>1, <1>2, <1>3, Zenon DEF Next

-----------------------------------------------------------------------------
(* The theorems on the table *)

TypedTable == TypeOK /\ TableInv

\* The types and the table invariant together are inductive: an id handed out by
\* asyncCall stays with its call until exactly one event takes it away.
THEOREM TypedTableHolds == Spec => []TypedTable
<1>1. Init => TypedTable
  <2> SUFFICES ASSUME Init PROVE TypedTable
    BY Zenon
  <2>1. Len(pending) = 0 /\ Len(freeSlots) = 0
    BY EmptySeq, Zenon DEF Init
  <2>2. functors \in Seq(Functor)
    BY DEF Init, Functor
  <2>3. TypeOK
    <3>1. RestTypes
      <4>1. pc \in [Calls -> Places] /\ slot \in [Calls -> Nat]
        BY Zenon DEF Init, Places
      <4>2. reconnectEnabled \in BOOLEAN /\ heartbeating \in BOOLEAN /\ stopCalled \in BOOLEAN
        BY Zenon DEF Init
      <4>3. unanswered \in 0..2 /\ connTimers \in Nat /\ connects \in Nat
        BY DEF Init
      <4>4. ending \subseteq SyncCalls /\ deadlines \subseteq Deadline
        BY Zenon DEF Init
      <4> QED BY <2>2, <4>1, <4>2, <4>3, <4>4, ZenonT(30) DEF RestTypes
    <3>2. pending \in Seq(Calls \cup {NoCall}) /\ freeSlots \in Seq(Nat)
      BY EmptySeq, Zenon DEF Init
    <3>3. outQueue \in Seq(Frame \cup {Heartbeat})
      BY EmptySeq, Zenon DEF Init
    <3>4. how \in [Calls -> Outcomes] /\ state \in States
      BY Zenon DEF Init, Outcomes, States
    <3>5. WriteTypes
      BY <3>2, <3>3, <3>4, Zenon DEF Init, WriteTypes
    <3> QED BY <3>1, <3>5, Zenon DEF WriteTypes, RestTypes, TypeOK
  <2>4. TableType
    BY <2>3, Zenon DEF TypeOK, TableType
  <2> QED
    BY <2>1, <2>3, <2>4, SMTT(20)
       DEF Init, TypedTable, TableInv, DoneAtMostOnce, TableExact, SlotAccounting,
           ClosedIsEmpty, NewIsUndone, Issued
<1>2. TypedTable /\ [Next]_vars => TypedTable'
  <2> SUFFICES ASSUME TypedTable, [Next]_vars PROVE TypedTable'
    BY Zenon
  <2>1. TypeOK'
    BY TypeStep, Zenon DEF TypedTable, TableInv
  <2>2. TableInv'
    BY <2>1, StepKinds, TableStep, ZenonT(30) DEF TypedTable, TypeOK
  <2> QED BY <2>1, <2>2, Zenon DEF TypedTable
<1> QED
  BY <1>1, <1>2, PTL DEF Spec

\* Every variable keeps its type.
THEOREM TypeCorrect == Spec => []TypeOK
<1>1. TypedTable => TypeOK
  BY Zenon DEF TypedTable
<1> QED BY <1>1, TypedTableHolds, PTL

\* done() never runs twice for a call, however responses, deadlines,
\* cancellations, closes and stops interleave.
THEOREM DoneOnce == Spec => []DoneAtMostOnce
<1>1. TypedTable => DoneAtMostOnce
  BY Zenon DEF TypedTable, TableInv
<1> QED BY <1>1, TypedTableHolds, PTL

\* An issued call is in its slot of the table until it is done.
THEOREM NoCallIsLost == Spec => []TableExact
<1>1. TypedTable => TableExact
  BY Zenon DEF TypedTable, TableInv
<1> QED BY <1>1, TypedTableHolds, PTL

\* The free list is exactly the set of empty slots, each once.
THEOREM SlotsAccounted == Spec => []SlotAccounting
<1>1. TypedTable => SlotAccounting
  BY Zenon DEF TypedTable, TableInv
<1> QED BY <1>1, TypedTableHolds, PTL

\* A closed channel has completed every call issued on it.
THEOREM ClosedCompletes == Spec => []ClosedMeansDone
<1>1. TypedTable => ClosedMeansDone
  <2> SUFFICES ASSUME TypedTable, state = "Closed", NEW c \in Calls, Issued(c)
               PROVE  doneCount[c] = 1
    BY Zenon DEF ClosedMeansDone
  <2>1. Len(pending) = 0
    BY EmptySeq, ZenonT(30) DEF TypedTable, TableInv, ClosedIsEmpty
  <2>2. doneCount[c] # 0
    BY <2>1, SMTT(20) DEF TypedTable, TableInv, TableExact
  <2>3. doneCount[c] \in Nat /\ doneCount[c] <= 1
    BY Zenon DEF TypedTable, TableInv, TypeOK, DoneAtMostOnce
  <2> QED BY <2>2, <2>3, ZeroOrOne, Zenon
<1> QED BY <1>1, TypedTableHolds, PTL

-----------------------------------------------------------------------------
(* Refinement of CallContract *)

\* Bump is what CallContract's Completed says.
LEMMA BumpIsCompleted ==
    ASSUME NEW S, Bump(S)
    PROVE  doneCount' = Contract!Completed(S)
BY Zenon DEF Bump, Contract!Completed

\* The in-flight calls of the contract are the occupants of the table.
LEMMA InFlightIsTable ==
    ASSUME TableInv
    PROVE  Contract!InFlight = Occupants(pending)
BY OccupantsAreOpen, Zenon DEF TableInv, Contract!InFlight

\* A call that leaves "new" joins the issued calls.
LEMMA IssuedGrows ==
    ASSUME TableType, NEW c \in Calls, pc[c] = "new", pc'[c] # "new",
           \A d \in Calls : d # c => pc'[d] = pc[d]
    PROVE  /\ c \notin {d \in Calls : Issued(d)}
           /\ {d \in Calls : Issued(d)'} = {d \in Calls : Issued(d)} \cup {c}
BY Zenon DEF Issued

\* Every kind of step is a step of the contract or leaves its variables.
LEMMA ContractStep ==
    ASSUME TypedTable, StepKind
    PROVE  [Contract!Next]_(Contract!contractVars)
<1> DEFINE issued == {c \in Calls : Issued(c)}
<1> USE DEF Contract!contractVars
<1>0. TableInv /\ TableType
  BY Zenon DEF TypedTable, TableInv
<1>1. CASE KindKeep
  BY <1>1, Zenon DEF KindKeep, Issued
<1>2. ASSUME NEW id \in Nat, KindRelease(id)
      PROVE  Contract!Next
  <2>1. pending[id] \in Occupants(pending) /\ pending[id] \in Calls
    BY <1>0, <1>2, VacatedProperties, Zenon DEF KindRelease, Occupied, Occupants
  <2>2. Contract!Complete({pending[id]})
    BY <1>0, <1>2, <2>1, InFlightIsTable, BumpIsCompleted, ZenonT(30)
       DEF KindRelease, Contract!Complete, Issued
  <2> QED BY <2>1, <2>2, ZenonT(30) DEF Contract!Next
<1>3. CASE KindClose
  <2>1. Occupants(pending) \subseteq Calls
    BY <1>0, OccupantsAreOpen, Zenon DEF TableInv
  <2>2. issued' = issued
    BY <1>3, Zenon DEF KindClose, Issued
  <2>3. CASE Occupants(pending) = {}
    <3>1. doneCount' = doneCount
      BY <1>0, <1>3, <2>3, Zenon DEF KindClose, Bump, TableType
    <3> QED BY <2>2, <3>1, Zenon
  <2>4. CASE Occupants(pending) # {}
    <3>1. Contract!Complete(Occupants(pending))
      BY <1>0, <1>3, <2>2, <2>4, InFlightIsTable, BumpIsCompleted, ZenonT(30) DEF KindClose, Contract!Complete
    <3> QED BY <2>1, <3>1, Zenon DEF Contract!Next
  <2> QED BY <2>3, <2>4, Zenon
<1>4. ASSUME NEW c \in Calls, KindPlace(c)
      PROVE  Contract!Next
  <2>1. c \notin issued /\ issued' = issued \cup {c}
    BY <1>0, <1>4, IssuedGrows, ZenonT(30) DEF KindPlace, Enters, TableType
  <2>2. Contract!Issue(c)
    BY <1>4, <2>1, ZenonT(30) DEF KindPlace, Contract!Issue
  <2> QED BY <2>2, Zenon DEF Contract!Next
<1>5. ASSUME NEW c \in Calls, KindPlaceAndClose(c)
      PROVE  Contract!Next
  <2>1. c \notin issued /\ issued' = issued \cup {c}
    BY <1>0, <1>5, IssuedGrows, ZenonT(30) DEF KindPlaceAndClose, Enters, TableType
  <2>2. Bump(Occupants(pending) \cup {c})
    BY <1>0, <1>5, PlacedOccupants, Zenon DEF KindPlaceAndClose, TableInv
  <2>3. Contract!Refuse(c, Occupants(pending))
    BY <1>0, <2>1, <2>2, InFlightIsTable, BumpIsCompleted, ZenonT(30) DEF Contract!Refuse
  <2>4. Occupants(pending) \subseteq Calls
    BY <1>0, OccupantsAreOpen, Zenon DEF TableInv
  <2> QED BY <2>3, <2>4, ZenonT(30) DEF Contract!Next
<1>6. ASSUME NEW c \in Calls, KindRefuse(c)
      PROVE  Contract!Next
  <2>1. c \notin issued /\ issued' = issued \cup {c}
    BY <1>0, <1>6, IssuedGrows, Zenon DEF KindRefuse, TableType
  <2>2. Contract!Refuse(c, {})
    BY <1>6, <2>1, BumpIsCompleted, ZenonT(30) DEF KindRefuse, Contract!Refuse
  <2> QED BY <2>2, Zenon DEF Contract!Next
<1> QED
  BY <1>1, <1>2, <1>3, <1>4, <1>5, <1>6, ZenonT(30) DEF StepKind

\* The channel implements CallContract: calls are issued once, and every
\* completion is the completion of calls in flight.
THEOREM ImplementsContract == Spec => HonoursContract
<1>1. Init => Contract!Init
  BY DEF Init, Contract!Init, Issued
<1>2. TypedTable /\ [Next]_vars => [Contract!Next]_(Contract!contractVars)
  BY StepKinds, ContractStep, ZenonT(30) DEF TypedTable
<1> QED
  BY <1>1, <1>2, TypedTableHolds, PTL DEF Spec, HonoursContract, Contract!Spec

-----------------------------------------------------------------------------
(* The reconnect timer *)

StopQueued == \E i \in 1..Len(functors) : functors[i] = StopFunctor

\* ConnectionFate is not inductive: that the channel stays closed after stop()
\* rests on reconnectEnabled_ having been cleared.
FateInv ==
    /\ functors \in Seq(Functor)
    /\ state = "Closed" /\ reconnectEnabled => reconnectTimer
    /\ ~reconnectEnabled => state = "Closed" /\ ~reconnectTimer
    /\ stopCalled /\ ~StopQueued => ~reconnectEnabled

\* What a step that does not stop the channel must leave true.
LEMMA FateKept ==
    ASSUME FateInv, UNCHANGED <<reconnectEnabled, stopCalled>>,
           functors' \in Seq(Functor), StopQueued => StopQueued',
           state' = "Closed" /\ reconnectEnabled => reconnectTimer',
           ~reconnectEnabled => UNCHANGED <<state, reconnectTimer>>
    PROVE  FateInv'
BY DEF FateInv

LEMMA CloseFate ==
    ASSUME NEW tbl, HandleClose(tbl)
    PROVE  reconnectEnabled => reconnectTimer'
BY Zenon DEF HandleClose, ScheduleReconnect

\* A write closes the connection or leaves state and timer.
LEMMA WriteFate ==
    ASSUME FateInv, NEW f, NEW tbl, NEW free, WriteFrame(f, tbl, free), state # "Closed"
    PROVE  /\ reconnectEnabled
           /\ state' = "Closed" => reconnectTimer'
<1>1. reconnectEnabled
  BY Zenon DEF FateInv
<1>2. CASE HandleClose(tbl)
  BY <1>1, <1>2, CloseFate, ZenonT(30)
<1>3. CASE StayOpen(state, tbl, free)
  BY <1>1, <1>3, ZenonT(30) DEF StayOpen
<1> QED
  BY <1>1, <1>2, <1>3, WriteFrameEffect, ZenonT(30)

LEMMA ConnectFate ==
    ASSUME FateInv, DoConnect
    PROVE  state' = "Closed" /\ reconnectEnabled => reconnectTimer'
BY CloseFate, Zenon DEF DoConnect

\* A functor that leaves the queue was not the stop functor, or is running.
LEMMA TailKeepsStop ==
    ASSUME functors \in Seq(Functor), functors # <<>>, functors' = Tail(functors),
           Head(functors) # StopFunctor, StopQueued
    PROVE  StopQueued'
<1>1. PICK i \in 1..Len(functors) : functors[i] = StopFunctor
  BY Zenon DEF StopQueued
<1>2. /\ Len(functors) \in Nat /\ Len(functors') = Len(functors) - 1
      /\ \A j \in 1..Len(functors') : functors'[j] = functors[j + 1]
      /\ Head(functors) = functors[1]
  BY HeadTailProperties, LenProperties, SMTT(20)
<1>3. i # 1 /\ i - 1 \in 1..Len(functors') /\ functors'[i - 1] = StopFunctor
  BY <1>1, <1>2, SMTT(20)
<1> QED
  BY <1>3, Zenon DEF StopQueued

\* Appending keeps what is queued.
LEMMA AppendKeeps ==
    ASSUME functors \in Seq(Functor), NEW g \in Functor, functors' = Append(functors, g)
    PROVE  /\ functors' \in Seq(Functor)
           /\ Len(functors') = Len(functors) + 1 /\ Len(functors) \in Nat
           /\ functors'[Len(functors')] = g
           /\ \A i \in 1..Len(functors) : functors'[i] = functors[i]
BY AppendProperties, LenProperties, SMTT(20)

LEMMA AppendKeepsStop ==
    ASSUME functors \in Seq(Functor), NEW g \in Functor, functors' = Append(functors, g)
    PROVE  /\ StopQueued => StopQueued'
           /\ g = StopFunctor => StopQueued'
BY AppendKeeps DEF StopQueued

LEMMA FunctorFate ==
    ASSUME TypeOK, FateInv, RunFunctor
    PROVE  FateInv'
<1> DEFINE f == Head(functors)
<1>1. functors' \in Seq(Functor) /\ functors # <<>> /\ functors' = Tail(functors)
  BY HeadTailProperties, Zenon DEF RunFunctor, TypeOK
<1>2. CASE f.op = "stop" /\ RunStop
  BY <1>1, <1>2, Zenon DEF RunStop, FateInv
<1>3. CASE f.op # "stop"
  <2>1. f # StopFunctor
    BY <1>3, SMTT(20) DEF StopFunctor
  <2>2. StopQueued => StopQueued'
    BY <1>1, <2>1, TailKeepsStop, ZenonT(30) DEF TypeOK
  <2>3. CASE RunStart
    <3>1. CASE state = "Idle"
      <4>1. DoConnect /\ reconnectEnabled
        BY <2>3, <3>1, ZenonT(30) DEF RunStart, FateInv
      <4> QED
        BY <1>1, <2>2, <2>3, <4>1, ConnectFate, FateKept, ZenonT(30) DEF RunStart, DoConnect
    <3>2. CASE state # "Idle"
      BY <1>1, <2>2, <2>3, <3>2, FateKept, ZenonT(30) DEF RunStart, connVars, FateInv
    <3> QED BY <3>1, <3>2, Zenon
  <2> HIDE DEF f
  <2>4. CASE RunArm(f) \/ RunCancel(f)
    BY <1>1, <2>2, <2>4, FateKept, ZenonT(30) DEF RunArm, RunCancel, connVars, FateInv
  <2>5. CASE RunSend(f)
    <3>1. CASE state = "Closed"
      BY <1>1, <2>2, <2>5, <3>1, FateKept, SMTT(20) DEF RunSend, FateInv
    <3>2. CASE state # "Closed"
      <4>1. reconnectEnabled /\ (state' = "Closed" => reconnectTimer')
        BY <2>5, <3>2, WriteFate, ZenonT(30) DEF RunSend
      <4> QED BY <1>1, <2>2, <2>5, <4>1, FateKept, ZenonT(30) DEF RunSend
    <3> QED BY <3>1, <3>2, ZenonT(30)
  <2> QED
    BY <1>3, <2>3, <2>4, <2>5, ZenonT(30) DEF RunFunctor, f
<1> QED
  BY <1>2, <1>3, Zenon DEF RunFunctor

LEMMA AppFate ==
    ASSUME TypeOK, FateInv, AppStep \/ Stop
    PROVE  FateInv'
<1>1. ASSUME NEW c \in Calls, Register(c)
      PROVE  FateInv'
  BY <1>1, SMTT(20) DEF Register, Refuse, FateInv, StopQueued, connVars, loopVars
<1>2. ASSUME NEW c \in Calls, QueueArm(c) \/ QueueSend(c) \/ SyncTimeout(c)
      PROVE  FateInv'
  <2>1. PICK o \in {"arm", "send", "cancel"} : Enqueue(o, c)
    BY <1>2, Zenon DEF QueueArm, QueueSend, SyncTimeout
  <2>2. [op |-> o, call |-> c, id |-> slot[c]] \in Functor
    BY ZenonT(30) DEF Functor, CallFunctor, TypeOK
  <2>3. functors' \in Seq(Functor) /\ (StopQueued => StopQueued')
    BY <2>1, <2>2, AppendKeeps, AppendKeepsStop, ZenonT(30) DEF Enqueue, TypeOK
  <2> QED
    BY <2>1, <2>3, FateKept, Zenon DEF Enqueue, connVars, FateInv
<1>3. CASE Stop
  <2>1. functors' \in Seq(Functor) /\ StopQueued'
    BY <1>3, AppendKeeps, AppendKeepsStop, SMTT(20) DEF Stop, TypeOK, Functor
  <2> QED
    BY <1>3, <2>1, ZenonT(30) DEF Stop, connVars, FateInv
<1> QED
  BY <1>1, <1>2, <1>3, ZenonT(30) DEF AppStep

LEMMA LoopFate ==
    ASSUME TypeOK, FateInv, LoopStep
    PROVE  FateInv'
<1>1. CASE RunFunctor
  BY <1>1, FunctorFate, ZenonT(30)
<1>2. ASSUME NEW c \in Calls, LoopCall(c)
      PROVE  FateInv'
  <2>1. UNCHANGED <<reconnectEnabled, functors, stopCalled>>
    BY <1>2, ZenonT(30) DEF LoopCall, Refuse, connVars, loopVars
  <2>2. CASE Refuse(c)
    BY <2>1, <2>2, SMTT(20) DEF Refuse, FateInv, StopQueued, connVars
  <2>3. CASE ~Refuse(c)
    <3>1. reconnectEnabled /\ (state' = "Closed" => reconnectTimer')
      BY <1>2, <2>3, WriteFate, ZenonT(30) DEF LoopCall
    <3> QED BY <2>1, <3>1, FateKept, ZenonT(30) DEF FateInv, StopQueued
  <2> QED BY <2>2, <2>3, ZenonT(30)
<1>3. ASSUME NEW t \in deadlines, FireDeadline(t)
      PROVE  FateInv'
  BY <1>3, Zenon DEF FireDeadline, FateInv, StopQueued, connVars
<1>4. ASSUME UNCHANGED <<reconnectEnabled, functors, stopCalled>>,
             state' = "Closed" /\ reconnectEnabled => reconnectTimer',
             ~reconnectEnabled => UNCHANGED <<state, reconnectTimer>>
      PROVE  FateInv'
  BY <1>4, FateKept, Zenon DEF FateInv, StopQueued
<1>5. CASE FireConnectTimeout
  BY <1>4, <1>5, CloseFate, SMTT(20) DEF FireConnectTimeout, FateInv, loopVars
<1>6. CASE FireReconnect
  <2>1. reconnectEnabled
    BY <1>6, ZenonT(30) DEF FireReconnect, FateInv
  <2> QED
    BY <1>4, <1>6, <2>1, ConnectFate, ZenonT(30) DEF FireReconnect, DoConnect, FateInv, loopVars
<1>7. CASE HeartbeatTick
  BY <1>4, <1>7, CloseFate, WriteFate, ZenonT(30) DEF HeartbeatTick, FateInv, loopVars
<1>8. CASE Connected
  BY <1>4, <1>8, CloseFate, FlushOutputEffect, ZenonT(30) DEF Connected, StayOpen, FateInv, loopVars
<1>9. CASE ConnectionLost
  BY <1>4, <1>9, CloseFate, ZenonT(30) DEF ConnectionLost, FateInv, loopVars
<1>10. CASE HandleRead
  BY <1>4, <1>10, ZenonT(30) DEF HandleRead, ReadResponse, ReadPart, ReadGarbled, ReadRest, ReadMore,
                     Reading, FateInv, loopVars
<1> QED
  BY <1>1, <1>2, <1>3, <1>5, <1>6, <1>7, <1>8, <1>9, <1>10, ZenonT(30) DEF LoopStep

\* A closed channel reconnects unless it was stopped, and a stopped one stays
\* closed without a timer.
THEOREM FateDecided == Spec => []ConnectionFate
<1>1. Init => FateInv
  BY DEF Init, FateInv, Functor
<1>2. TypedTable /\ FateInv /\ [Next]_vars => FateInv'
  <2> SUFFICES ASSUME TypedTable, FateInv, [Next]_vars PROVE FateInv'
    BY Zenon
  <2>1. CASE AppStep \/ Stop
    BY <2>1, AppFate, Zenon DEF TypedTable
  <2>2. CASE LoopStep
    BY <2>2, LoopFate, ZenonT(30) DEF TypedTable
  <2>3. CASE UNCHANGED vars
    BY <2>3, Zenon DEF FateInv, StopQueued, vars, connVars, loopVars
  <2> QED BY <2>1, <2>2, <2>3, Zenon DEF Next
<1>3. FateInv => ConnectionFate
  BY Zenon DEF FateInv, ConnectionFate, StopQueued
<1> QED
  BY <1>1, <1>2, <1>3, TypedTableHolds, PTL DEF Spec

-----------------------------------------------------------------------------
(* The deadline timers *)

ArmQueued(c) ==
    \E i \in 1..Len(functors) : functors[i] = [op |-> "arm", call |-> c, id |-> slot[c]]

TimerArmed(c) == \E t \in deadlines : t.owner = c /\ t.id = slot[c]

Waits(c) == doneCount[c] = 0 /\ pc[c] \in {"armed", "returned", "cancelling"}

\* The queue loses no functor.
FunctorsStay == \A i \in 1..Len(functors) : \E j \in 1..Len(functors') : functors'[j] = functors[i]

\* A call stays undone only if it was, and keeps its slot once it has one.
LEMMA UndoneBefore ==
    ASSUME TypedTable, StepKind, NEW c \in Calls, doneCount'[c] = 0
    PROVE  /\ doneCount[c] = 0
           /\ pc[c] # "new" => slot'[c] = slot[c] /\ pc'[c] # "new"
<1>1. ASSUME NEW S, Bump(S)
      PROVE  doneCount[c] = 0
  BY <1>1, SMTT(20) DEF Bump, TypedTable, TypeOK
<1> QED
  BY <1>1, ZenonT(30) DEF StepKind, KindKeep, KindRelease, KindClose, KindPlace, KindPlaceAndClose,
              KindRefuse, Enters, TypedTable, TypeOK

\* A call that waits is in the table under its id.
LEMMA WaiterFound ==
    ASSUME TypedTable, NEW c \in Calls, Waits(c)
    PROVE  Occupied(slot[c]) /\ pending[slot[c]] = c
BY CallsAssumption, SMTT(20) DEF Waits, TypedTable, TableInv, TableExact, Issued, Occupied

LEMMA ArmedPersists ==
    ASSUME NEW c \in Calls, slot'[c] = slot[c], FunctorsStay, deadlines \subseteq deadlines',
           ArmQueued(c) \/ TimerArmed(c)
    PROVE  (ArmQueued(c) \/ TimerArmed(c))'
<1>1. CASE ArmQueued(c)
  BY <1>1, Zenon DEF ArmQueued, FunctorsStay
<1>2. CASE TimerArmed(c)
  BY <1>2, Zenon DEF TimerArmed
<1> QED BY <1>1, <1>2, ZenonT(30)

\* The steps that leave functors and timers queued: whoever waited before is fine.
LEMMA DeadlineKept ==
    ASSUME TypedTable, StepKind, DeadlineArmed, NEW c \in DeadlineCalls, Waits(c)',
           FunctorsStay, deadlines \subseteq deadlines', pc[c] = pc'[c] \/ Waits(c)
    PROVE  (ArmQueued(c) \/ TimerArmed(c))'
<1>1. c \in Calls
  BY CallsAssumption, Zenon
<1>2. Waits(c) /\ slot'[c] = slot[c]
  BY <1>1, UndoneBefore, ZenonT(30) DEF Waits
<1>3. ArmQueued(c) \/ TimerArmed(c)
  BY <1>2, Zenon DEF DeadlineArmed, Waits, ArmQueued, TimerArmed
<1> QED
  BY <1>1, <1>2, <1>3, ArmedPersists, ZenonT(30)

\* Nothing happens to the queue.
LEMMA SameFunctors == functors' = functors => FunctorsStay
BY Zenon DEF FunctorsStay

LEMMA AppendStays ==
    ASSUME functors \in Seq(Functor), NEW g \in Functor, functors' = Append(functors, g)
    PROVE  FunctorsStay
BY AppendKeeps DEF FunctorsStay

\* The application threads: the functor is queued before asyncCall returns.
LEMMA AppDeadline ==
    ASSUME TypedTable, StepKind, DeadlineArmed, AppStep \/ Stop,
           NEW c \in DeadlineCalls, Waits(c)'
    PROVE  (ArmQueued(c) \/ TimerArmed(c))'
<1>0. c \in Calls /\ TypeOK
  BY CallsAssumption, ZenonT(30) DEF TypedTable
<1>1. ASSUME NEW d \in Calls, Register(d)
      PROVE  (ArmQueued(c) \/ TimerArmed(c))'
  <2>1. d # c
    <3> SUFFICES ASSUME d = c PROVE FALSE
      BY ZenonT(30)
    <3>1. CASE Refuse(d)
      BY <1>0, <3>1, UndoneBefore, SMTT(20) DEF Refuse, Finish, Waits, TypeOK
    <3>2. CASE ~Refuse(d)
      BY <1>0, <1>1, <3>2, ZenonT(30) DEF Register, Waits, TypeOK
    <3> QED BY <3>1, <3>2, ZenonT(30)
  <2>2. pc'[c] = pc[c] /\ UNCHANGED <<functors, deadlines>>
    BY <1>0, <1>1, <2>1, SMTT(20) DEF Register, Refuse, TypeOK, loopVars
  <2> QED
    BY <2>2, SameFunctors, DeadlineKept, ZenonT(30)
<1>2. ASSUME NEW d \in Calls, QueueArm(d) \/ QueueSend(d) \/ SyncTimeout(d)
      PROVE  (ArmQueued(c) \/ TimerArmed(c))'
  <2>1. PICK o \in {"arm", "send", "cancel"} : Enqueue(o, d)
    BY <1>2, ZenonT(30) DEF QueueArm, QueueSend, SyncTimeout
  <2> DEFINE g == [op |-> o, call |-> d, id |-> slot[d]]
  <2>2. g \in Functor
    BY <1>0, ZenonT(30) DEF Functor, CallFunctor, TypeOK
  <2>3. FunctorsStay /\ deadlines' = deadlines /\ slot' = slot
    BY <1>0, <2>1, <2>2, AppendStays, SMTT(20) DEF Enqueue, TypeOK
  <2>4. CASE d = c /\ QueueArm(d)
    <3>1. Enqueue("arm", c)
      BY <2>4, Zenon DEF QueueArm
    <3>2. [op |-> "arm", call |-> c, id |-> slot[c]] \in Functor
      BY <1>0, ZenonT(30) DEF Functor, CallFunctor, TypeOK
    <3>3. /\ Len(functors') = Len(functors) + 1 /\ Len(functors) \in Nat
          /\ functors'[Len(functors')] = [op |-> "arm", call |-> c, id |-> slot[c]]
      BY <1>0, <3>1, <3>2, AppendKeeps, ZenonT(30) DEF Enqueue, TypeOK
    <3>4. Len(functors') \in 1..Len(functors')
      BY <3>3
    <3> QED BY <2>3, <3>3, <3>4, ZenonT(30) DEF ArmQueued
  <2>5. CASE d = c /\ ~QueueArm(d)
    <3>1. pc[c] \in {"armed", "returned"}
      BY <1>2, <2>5, ZenonT(30) DEF QueueSend, SyncTimeout
    <3>2. Waits(c)
      BY <1>0, <3>1, UndoneBefore, Zenon DEF Waits
    <3> QED BY <2>3, <3>2, DeadlineKept, ZenonT(30)
  <2>6. CASE d # c
    <3>1. pc'[c] = pc[c]
      BY <1>0, <1>2, <2>6, SMTT(20) DEF QueueArm, QueueSend, SyncTimeout, TypeOK
    <3> QED BY <2>3, <3>1, DeadlineKept, ZenonT(30)
  <2> QED BY <2>4, <2>5, <2>6, Zenon
<1>3. CASE Stop
  <2>1. FunctorsStay
    BY <1>0, <1>3, AppendStays, SMTT(20) DEF Stop, TypeOK, Functor
  <2> QED
    BY <1>3, <2>1, DeadlineKept, ZenonT(30) DEF Stop, callVars
<1> QED
  BY <1>1, <1>2, <1>3, ZenonT(30) DEF AppStep

\* A functor of call c finds c in its slot as long as c is not done, and arms.
LEMMA FunctorDeadline ==
    ASSUME TypedTable, StepKind, DeadlineArmed, RunFunctor,
           NEW c \in DeadlineCalls, Waits(c)'
    PROVE  (ArmQueued(c) \/ TimerArmed(c))'
<1> DEFINE f == Head(functors)
<1> DEFINE g == [op |-> "arm", call |-> c, id |-> slot[c]]
<1>0. c \in Calls /\ TypeOK /\ UNCHANGED <<pc, slot>>
  BY CallsAssumption, ZenonT(30)
     DEF TypedTable, RunFunctor, RunStart, RunStop, RunArm, RunSend, RunCancel
<1>1. /\ Len(functors) \in Nat /\ Len(functors') = Len(functors) - 1
      /\ \A j \in 1..Len(functors') : functors'[j] = functors[j + 1]
      /\ f = functors[1]
  BY <1>0, HeadTailProperties, LenProperties, SMTT(20) DEF TypeOK, RunFunctor
<1>2. Waits(c)
  BY <1>0, UndoneBefore, Zenon DEF Waits
<1>3. deadlines \subseteq deadlines'
  BY Zenon DEF RunFunctor, RunStart, RunStop, RunArm, RunSend, RunCancel
<1>4. CASE f = g
  <2>1. RunArm(g)
    BY <1>4, SMTT(20) DEF RunFunctor
  <2>2. Occupied(slot[c]) /\ pending[slot[c]] = c
    BY <1>0, <1>2, WaiterFound, Zenon
  <2>3. [owner |-> c, for |-> c, id |-> slot[c]] \in deadlines'
    BY <2>1, <2>2, ZenonT(30) DEF RunArm
  <2> QED
    BY <1>0, <2>3, ZenonT(30) DEF TimerArmed
<1>5. CASE TimerArmed(c)
  BY <1>0, <1>3, <1>5, ZenonT(30) DEF TimerArmed
<1>6. CASE ArmQueued(c) /\ f # g
  <2>1. PICK i \in 1..Len(functors) : functors[i] = g
    BY <1>6, ZenonT(30) DEF ArmQueued
  <2>2. i # 1 /\ i - 1 \in 1..Len(functors') /\ functors'[i - 1] = g
    <3>1. i # 1
      BY <1>1, <1>6, <2>1, ZenonT(30)
    <3>2. i - 1 \in 1..Len(functors') /\ (i - 1) + 1 = i
      BY <1>1, <2>1, <3>1, SMTT(20)
    <3> QED BY <1>1, <2>1, <3>1, <3>2, ZenonT(30)
  <2> QED
    BY <1>0, <2>2, ZenonT(30) DEF ArmQueued
<1> QED
  BY <1>2, <1>4, <1>5, <1>6, ZenonT(30) DEF DeadlineArmed, Waits, ArmQueued, TimerArmed

\* A timer that fires for the slot of c completes c.
LEMMA FireDeadlineDeadline ==
    ASSUME TypedTable, StepKind, DeadlineArmed, NEW t \in deadlines, FireDeadline(t),
           NEW c \in DeadlineCalls, Waits(c)'
    PROVE  (ArmQueued(c) \/ TimerArmed(c))'
<1>0. c \in Calls /\ TypeOK /\ UNCHANGED <<pc, slot, functors>>
  BY CallsAssumption, Zenon DEF TypedTable, FireDeadline
<1>1. Waits(c)
  BY <1>0, UndoneBefore, ZenonT(30) DEF Waits
<1>2. CASE t.id = slot[c]
  <2>1. Occupied(t.id) /\ pending[t.id] = c
    BY <1>0, <1>1, <1>2, WaiterFound, ZenonT(30)
  <2>2. doneCount'[c] = doneCount[c] + 1
    BY <1>0, <2>1, ZenonT(30) DEF FireDeadline, Release, Finish
  <2> QED BY <1>0, <1>1, <2>2, SMTT(20) DEF Waits, TypeOK
<1>3. CASE t.id # slot[c]
  <2>1. ArmQueued(c) \/ TimerArmed(c)
    BY <1>1, Zenon DEF DeadlineArmed, Waits, ArmQueued, TimerArmed
  <2>2. \A u \in deadlines : u.id = slot[c] => u \in deadlines'
    BY <1>3, Zenon DEF FireDeadline
  <2> QED
    BY <1>0, <2>1, <2>2, Zenon DEF ArmQueued, TimerArmed
<1> QED BY <1>2, <1>3, ZenonT(30)

LEMMA LoopDeadline ==
    ASSUME TypedTable, StepKind, DeadlineArmed, LoopStep,
           NEW c \in DeadlineCalls, Waits(c)'
    PROVE  (ArmQueued(c) \/ TimerArmed(c))'
<1>0. c \in Calls /\ TypeOK
  BY CallsAssumption, Zenon DEF TypedTable
<1>1. ASSUME NEW d \in Calls, LoopCall(d)
      PROVE  (ArmQueued(c) \/ TimerArmed(c))'
  <2>1. FunctorsStay /\ deadlines \subseteq deadlines'
    BY <1>1, SameFunctors, Zenon DEF LoopCall, Refuse, loopVars
  <2>2. CASE d # c
    <3>1. pc'[c] = pc[c]
      BY <1>0, <1>1, <2>2, ZenonT(30) DEF LoopCall, Refuse, TypeOK
    <3> QED BY <2>1, <3>1, DeadlineKept, Zenon
  <2>3. CASE d = c /\ Refuse(d)
    <3>1. doneCount'[c] = doneCount[c] + 1
      BY <1>0, <2>3, ZenonT(30) DEF Refuse, Finish
    <3>2. doneCount[c] \in Nat
      BY <1>0, Zenon DEF TypeOK
    <3>3. doneCount'[c] = 0
      BY Zenon DEF Waits
    <3>4. doneCount[c] + 1 # 0
      BY <3>2, SMTT(20)
    <3> QED BY <3>1, <3>3, <3>4, ZenonT(30)
  <2>4. CASE d = c /\ ~Refuse(d)
    <3>1. slot'[c] = NextId /\ [owner |-> c, for |-> c, id |-> NextId] \in deadlines'
      BY <1>0, <1>1, <2>4, ZenonT(30) DEF LoopCall, TypeOK
    <3> QED BY <3>1, ZenonT(30) DEF TimerArmed
  <2> QED BY <2>2, <2>3, <2>4, ZenonT(30)
<1>2. CASE \/ FireConnectTimeout \/ FireReconnect \/ HeartbeatTick
           \/ Connected \/ ConnectionLost \/ HandleRead
  <2>1. UNCHANGED <<pc, functors, deadlines>>
    BY <1>2, Zenon DEF FireConnectTimeout, FireReconnect, HeartbeatTick, Connected, ConnectionLost,
                HandleRead, ReadResponse, ReadPart, ReadGarbled, ReadRest, ReadMore, Reading,
                loopVars
  <2> QED
    BY <2>1, SameFunctors, DeadlineKept, Zenon
<1> QED
  BY <1>1, <1>2, FunctorDeadline, FireDeadlineDeadline, ZenonT(30) DEF LoopStep

\* An unfinished call with a deadline always has its functor queued or its timer
\* armed.
THEOREM DeadlinesArmed == Spec => []DeadlineArmed
<1>1. Init => DeadlineArmed
  BY CallsAssumption, Zenon DEF Init, DeadlineArmed
<1>2. TypedTable /\ DeadlineArmed /\ [Next]_vars => DeadlineArmed'
  <2> SUFFICES ASSUME TypedTable, DeadlineArmed, [Next]_vars,
                      NEW c \in DeadlineCalls, Waits(c)'
               PROVE  (ArmQueued(c) \/ TimerArmed(c))'
    BY Zenon DEF DeadlineArmed, Waits, ArmQueued, TimerArmed
  <2>1. StepKind
    BY StepKinds, Zenon DEF TypedTable
  <2>2. CASE AppStep \/ Stop
    BY <2>1, <2>2, AppDeadline, ZenonT(30)
  <2>3. CASE LoopStep
    BY <2>1, <2>3, LoopDeadline, ZenonT(30)
  <2>4. CASE UNCHANGED vars
    BY <2>1, <2>4, SameFunctors, DeadlineKept, ZenonT(30) DEF vars, callVars, loopVars
  <2> QED BY <2>2, <2>3, <2>4, Zenon DEF Next
<1> QED
  BY <1>1, <1>2, TypedTableHolds, PTL DEF Spec
=============================================================================
