------------------------ MODULE RpcChannelRouteProofs ------------------------
(***************************************************************************)
(* The way of a request of RpcChannel, for every value of the constants:   *)
(* through the functors of the loop, the output queue and the wire to the  *)
(* response that ends its call (MatchedById).  It rests on the table       *)
(* invariant of RpcChannelProofs.                                          *)
(***************************************************************************)
EXTENDS RpcChannelProofs

-----------------------------------------------------------------------------
(* The way of a request *)

Sends(f, c) == f.op = "send" /\ f.call = c

InFunctors(fs, c) == \E i \in 1..Len(fs) : Sends(fs[i], c)
InQueue(q, c)     == \E i \in 1..Len(q) : q[i].call = c
OnWire(w, c)      == \E f \in w : f.call = c

\* The calls whose request waits in a send functor of fs or in the queue q, is on
\* the wire w, or is answered by the fragment g.
Under(fs, q, w, g) == {c \in Calls : InFunctors(fs, c) \/ InQueue(q, c) \/ OnWire(w, c) \/ g.call = c}

WayType(fs, q, w, g) ==
    /\ fs \in Seq(Functor) /\ q \in Seq(Frame \cup {Heartbeat})
    /\ w \subseteq Frame /\ g \in Fragment \cup {NoFrag}

\* The request of c is in one place, and there once.
OnceOf(fs, q, w, g, c) ==
    /\ \A i, j \in 1..Len(fs) : Sends(fs[i], c) /\ Sends(fs[j], c) => i = j
    /\ \A i, j \in 1..Len(q) : q[i].call = c /\ q[j].call = c => i = j
    /\ InFunctors(fs, c) => ~InQueue(q, c) /\ ~OnWire(w, c) /\ g.call # c
    /\ InQueue(q, c) => ~OnWire(w, c) /\ g.call # c
    /\ OnWire(w, c) => g.call # c

\* Each carries the id of its call; a fragment does as long as it is fresh.
Named(fs, q, w, g, sl) ==
    /\ \A i \in 1..Len(fs) : fs[i].op = "send" => fs[i].id = sl[fs[i].call]
    /\ \A i \in 1..Len(q) : q[i].call # NoCall => q[i].id = sl[q[i].call]
    /\ \A f \in w : f.id = sl[f.call]
    /\ g.fresh => g.id = sl[g.call]

Way(fs, q, w, g, sl) ==
    /\ WayType(fs, q, w, g)
    /\ \A c \in Calls : OnceOf(fs, q, w, g, c)
    /\ Named(fs, q, w, g, sl)

LEMMA Records ==
    /\ \A f \in Frame : f.call \in Calls /\ f.call # NoCall /\ f = [call |-> f.call, id |-> f.id]
    /\ \A f \in Frame \cup {Heartbeat} : f.call # NoCall => f \in Frame
    /\ \A f \in Functor : f.op = "send" => f.call \in Calls /\ f.id \in Nat
    /\ \A g \in Fragment \cup {NoFrag} : g.fresh => g.call \in Calls /\ g # NoFrag
    /\ NoFrag.call \notin Calls /\ ~NoFrag.fresh /\ Heartbeat.call = NoCall
BY CallsAssumption DEF Frame, Heartbeat, Functor, CallFunctor, StartFunctor, StopFunctor,
                       Fragment, NoFrag

\* The first functor, f, leaves the queue.
First(fs, f, ft) == fs # <<>> /\ f = Head(fs) /\ ft = Tail(fs)

LEMMA WayTail ==
    ASSUME NEW fs, NEW q, NEW w, NEW g, NEW sl, Way(fs, q, w, g, sl),
           NEW f, NEW ft, First(fs, f, ft)
    PROVE  /\ Way(ft, q, w, g, sl)
           /\ Under(ft, q, w, g) \subseteq Under(fs, q, w, g)
           /\ f.op = "send" => /\ f.call \in Under(fs, q, w, g)
                               /\ f.call \notin Under(ft, q, w, g)
                               /\ f.id = sl[f.call]
<1>1. fs \in Seq(Functor)
  BY Zenon DEF Way, WayType
<1>2. PICK n \in Nat : Len(fs) = n + 1
  <2>1. Len(fs) \in Nat /\ Len(fs) # 0
    BY <1>1 DEF First
  <2>2. Len(fs) - 1 \in Nat /\ Len(fs) = (Len(fs) - 1) + 1
    BY <2>1
  <2> QED BY <2>2, Zenon
<1>3. /\ ft \in Seq(Functor) /\ Len(ft) = n /\ f = fs[1] /\ f \in Functor
      /\ \A i \in 1..n : ft[i] = fs[i + 1] /\ i + 1 \in 1..(n + 1) /\ i + 1 # 1
      /\ 1 \in 1..(n + 1)
  BY <1>1, <1>2, SMTT(20) DEF First
<1>4. ASSUME NEW c PROVE InFunctors(ft, c) => InFunctors(fs, c)
  BY <1>2, <1>3, Zenon DEF InFunctors
<1>5. ASSUME NEW c \in Calls PROVE OnceOf(ft, q, w, g, c)
  <2>1. OnceOf(fs, q, w, g, c)
    BY Zenon DEF Way
  <2>2. ASSUME NEW i \in 1..n, NEW j \in 1..n, Sends(ft[i], c), Sends(ft[j], c) PROVE i = j
    <3>1. i + 1 = j + 1
      BY <1>2, <1>3, <2>1, <2>2, ZenonT(30) DEF OnceOf
    <3> QED BY <3>1
  <2> QED BY <1>3, <1>4, <2>1, <2>2, Zenon DEF OnceOf
<1>6. Named(ft, q, w, g, sl)
  BY <1>2, <1>3, SMTT(20) DEF Way, Named
<1>7. ASSUME f.op = "send"
      PROVE  /\ f.call \in Under(fs, q, w, g)
             /\ f.call \notin Under(ft, q, w, g)
             /\ f.id = sl[f.call]
  <2>1. PICK c \in Calls : c = f.call
    BY <1>3, <1>7, Records, SMTT(20)
  <2>2. Sends(fs[1], c)
    BY <1>3, <1>7, <2>1, SMTT(20) DEF Sends
  <2>3. InFunctors(fs, c)
    BY <1>2, <1>3, <2>2, Zenon DEF InFunctors
  <2>4. OnceOf(fs, q, w, g, c)
    BY Zenon DEF Way
  <2>5. ~InFunctors(ft, c)
    <3> SUFFICES ASSUME NEW i \in 1..n, Sends(ft[i], c) PROVE FALSE
      BY <1>3, Zenon DEF InFunctors
    <3>1. i + 1 = 1
      <4>1. Sends(fs[i + 1], c) /\ i + 1 \in 1..Len(fs) /\ 1 \in 1..Len(fs)
        BY <1>2, <1>3, Zenon
      <4> QED BY <2>2, <2>4, <4>1, Zenon DEF OnceOf
    <3> QED BY <1>3, <3>1, Zenon
  <2>6. f.id = sl[f.call]
    BY <1>2, <1>3, <1>7, ZenonT(30) DEF Way, Named
  <2> QED BY <2>1, <2>3, <2>4, <2>5, <2>6, ZenonT(30) DEF OnceOf, Under
<1> QED BY <1>3, <1>4, <1>5, <1>6, <1>7, ZenonT(30) DEF Way, WayType, Under

\* A functor is queued; if it sends, the request was nowhere.
LEMMA WayFunctor ==
    ASSUME NEW fs, NEW q, NEW w, NEW g, NEW sl, Way(fs, q, w, g, sl), NEW f \in Functor,
           f.op = "send" => f.call \notin Under(fs, q, w, g) /\ f.id = sl[f.call],
           NEW fa, fa = Append(fs, f)
    PROVE  /\ Way(fa, q, w, g, sl)
           /\ Under(fa, q, w, g) \subseteq
                Under(fs, q, w, g) \cup (IF f.op = "send" THEN {f.call} ELSE {})
<1>1. PICK n \in Nat : n = Len(fs) /\ fs \in Seq(Functor)
  BY DEF Way, WayType
<1>2. /\ fa \in Seq(Functor) /\ Len(fa) = n + 1 /\ fa[n + 1] = f
      /\ \A i \in 1..n : fa[i] = fs[i] /\ i # n + 1
      /\ \A i \in 1..(n + 1) : i \in 1..n \/ i = n + 1
  BY <1>1
<1>3. ASSUME NEW c PROVE InFunctors(fa, c) => InFunctors(fs, c) \/ Sends(f, c)
  BY <1>1, <1>2, Zenon DEF InFunctors
<1>4. ASSUME NEW c \in Calls PROVE OnceOf(fa, q, w, g, c)
  <2>1. OnceOf(fs, q, w, g, c)
    BY Zenon DEF Way
  <2>2. Sends(f, c) => ~InFunctors(fs, c) /\ ~InQueue(q, c) /\ ~OnWire(w, c) /\ g.call # c
    BY Zenon DEF Sends, Under
  <2>3. ASSUME NEW i \in 1..(n + 1), NEW j \in 1..(n + 1), Sends(fa[i], c), Sends(fa[j], c) PROVE i = j
    BY <1>1, <1>2, <2>1, <2>2, <2>3, ZenonT(30) DEF OnceOf, InFunctors
  <2> QED BY <1>2, <1>3, <2>1, <2>2, <2>3, ZenonT(30) DEF OnceOf
<1>5. Named(fa, q, w, g, sl)
  BY <1>1, <1>2 DEF Way, Named
<1> QED BY <1>2, <1>3, <1>4, <1>5, SMTT(20) DEF Way, WayType, Under, Sends

\* A frame is queued; if it is a request, it was nowhere.
LEMMA WayFrame ==
    ASSUME NEW fs, NEW q, NEW w, NEW g, NEW sl, Way(fs, q, w, g, sl), NEW f \in Frame \cup {Heartbeat},
           f.call # NoCall => f.call \notin Under(fs, q, w, g) /\ f.id = sl[f.call],
           NEW qa, qa = Append(q, f)
    PROVE  /\ Way(fs, qa, w, g, sl)
           /\ Under(fs, qa, w, g) \subseteq Under(fs, q, w, g) \cup {f.call}
<1>1. PICK n \in Nat : n = Len(q) /\ q \in Seq(Frame \cup {Heartbeat})
  BY DEF Way, WayType
<1>2. /\ qa \in Seq(Frame \cup {Heartbeat}) /\ Len(qa) = n + 1 /\ qa[n + 1] = f
      /\ \A i \in 1..n : qa[i] = q[i] /\ i # n + 1
      /\ \A i \in 1..(n + 1) : i \in 1..n \/ i = n + 1
  BY <1>1, SMTT(20)
<1>3. ASSUME NEW c PROVE InQueue(qa, c) => InQueue(q, c) \/ f.call = c
  BY <1>1, <1>2, SMTT(20) DEF InQueue
<1>4. ASSUME NEW c \in Calls PROVE OnceOf(fs, qa, w, g, c)
  <2>1. OnceOf(fs, q, w, g, c)
    BY Zenon DEF Way
  <2>2. f.call = c => ~InFunctors(fs, c) /\ ~InQueue(q, c) /\ ~OnWire(w, c) /\ g.call # c
    BY CallsAssumption, ZenonT(30) DEF Under
  <2>3. ASSUME NEW i \in 1..(n + 1), NEW j \in 1..(n + 1), qa[i].call = c, qa[j].call = c PROVE i = j
    BY <1>1, <1>2, <2>1, <2>2, <2>3, SMTT(20) DEF OnceOf, InQueue
  <2> QED BY <1>2, <1>3, <2>1, <2>2, <2>3, SMTT(20) DEF OnceOf
<1>5. Named(fs, qa, w, g, sl)
  BY <1>1, <1>2, SMTT(20) DEF Way, Named
<1> QED BY <1>2, <1>3, <1>4, <1>5, ZenonT(30) DEF Way, WayType, Under

\* Of the queue q, the first k frames were written, and the rest kept or dropped.
Passed(q, w, q2, w2) ==
    \E k \in 0..Len(q) : /\ q2 = SubSeq(q, k + 1, Len(q)) \/ q2 = <<>>
                         /\ w2 \subseteq w \cup ({q[i] : i \in 1..k} \ {Heartbeat})

\* q2 holds the m frames of q that follow the first k.
Kept(q2, q, k, m) ==
    Len(q2) = m /\ q2 \in Seq(Frame \cup {Heartbeat}) /\ \A i \in 1..m : q2[i] = q[k + i]

LEMMA RestKept ==
    ASSUME NEW q \in Seq(Frame \cup {Heartbeat}), NEW k \in Nat, NEW n \in Nat, NEW m \in Nat,
           n = Len(q), m = n - k
    PROVE  Kept(SubSeq(q, k + 1, n), q, k, m)
BY DEF Kept

LEMMA WayPasses ==
    ASSUME NEW fs, NEW q, NEW w, NEW g, NEW sl, Way(fs, q, w, g, sl), NEW q2, NEW w2, Passed(q, w, q2, w2)
    PROVE  Way(fs, q2, w2, g, sl) /\ Under(fs, q2, w2, g) \subseteq Under(fs, q, w, g)
<1>1. PICK k \in 0..Len(q) : /\ q2 = SubSeq(q, k + 1, Len(q)) \/ q2 = <<>>
                             /\ w2 \subseteq w \cup ({q[i] : i \in 1..k} \ {Heartbeat})
  BY Zenon DEF Passed
<1>2. PICK n \in Nat : n = Len(q) /\ q \in Seq(Frame \cup {Heartbeat}) /\ k \in 0..n
  BY DEF Way, WayType
<1>3. PICK m \in Nat : /\ m = Len(q2) /\ q2 \in Seq(Frame \cup {Heartbeat})
                       /\ \A i \in 1..m : q2[i] = q[k + i] /\ k + i \in 1..n /\ ~(k + i \in 1..k)
  <2>1. CASE q2 = <<>>
    <3>1. Len(q2) = 0 /\ q2 \in Seq(Frame \cup {Heartbeat}) /\ 1..0 = {}
      BY <2>1
    <3> QED BY <3>1, SMTT(20)
  <2>2. CASE q2 = SubSeq(q, k + 1, n)
    <3>1. PICK m \in Nat : m = n - k
      <4>1. n - k \in Nat
        BY <1>2
      <4> QED BY <4>1, Zenon
    <3>2. Len(q2) = m /\ q2 \in Seq(Frame \cup {Heartbeat}) /\ \A i \in 1..m : q2[i] = q[k + i]
      <4>1. k \in Nat
        BY <1>2, SMTT(20)
      <4>2. Kept(SubSeq(q, k + 1, n), q, k, m)
        BY <1>2, <3>1, <4>1, RestKept, ZenonT(30)
      <4> QED BY <2>2, <4>2, ZenonT(30) DEF Kept
    <3>3. \A i \in 1..m : k + i \in 1..n /\ ~(k + i \in 1..k)
      BY <1>2, <3>1, SMTT(20)
    <3> QED BY <3>2, <3>3, Zenon
  <2> QED BY <1>1, <1>2, <2>1, <2>2, ZenonT(30)
<1>4. ASSUME NEW f \in w2, f \notin w
      PROVE  f \in Frame /\ \E i \in 1..k : i \in 1..n /\ f = q[i]
  <2>1. PICK i \in 1..k : f = q[i] /\ f # Heartbeat
    BY <1>1, <1>4, SMTT(20)
  <2>2. i \in 1..n
    BY <1>2, SMTT(20)
  <2>3. q[i] \in Frame \cup {Heartbeat}
    BY <1>2, <2>2, SMTT(20)
  <2> QED BY <2>1, <2>2, <2>3, SMTT(20)
<1>5. WayType(fs, q2, w2, g)
  BY <1>3, <1>4, SMTT(20) DEF Way, WayType
<1>6. ASSUME NEW c PROVE InQueue(q2, c) => InQueue(q, c)
  BY <1>2, <1>3, SMTT(20) DEF InQueue
<1>7. ASSUME NEW c PROVE OnWire(w2, c) => OnWire(w, c) \/ InQueue(q, c)
  BY <1>2, <1>4, SMTT(20) DEF OnWire, InQueue
<1>8. ASSUME NEW c \in Calls PROVE OnceOf(fs, q2, w2, g, c)
  <2>1. OnceOf(fs, q, w, g, c)
    BY Zenon DEF Way
  <2>2. ASSUME NEW i \in 1..m, NEW j \in 1..m, q2[i].call = c, q2[j].call = c PROVE i = j
    <3>1. k + i = k + j
      BY <1>2, <1>3, <2>1, <2>2, ZenonT(30) DEF OnceOf
    <3> QED BY <1>2, <3>1, SMTT(20)
  <2>3. ASSUME NEW i \in 1..m, q2[i].call = c, NEW f \in w2, f.call = c PROVE FALSE
    <3>1. InQueue(q, c) /\ q[k + i].call = c /\ k + i \in 1..n
      <4>1. k + i \in 1..n /\ q2[i] = q[k + i]
        BY <1>2, <1>3, ZenonT(30)
      <4> QED BY <1>2, <2>3, <4>1, ZenonT(30) DEF InQueue
    <3>2. CASE f \in w
      BY <2>1, <2>3, <3>1, <3>2, SMTT(20) DEF OnceOf, OnWire
    <3>3. CASE f \notin w
      <4>1. PICK j \in 1..k : j \in 1..n /\ f = q[j]
        BY <1>4, <3>3, Zenon
      <4>2. j = k + i
        BY <1>2, <2>1, <2>3, <3>1, <4>1, ZenonT(30) DEF OnceOf
      <4> QED BY <1>3, <4>1, <4>2, SMTT(20)
    <3> QED BY <3>2, <3>3, Zenon
  <2>4. InQueue(q2, c) => ~OnWire(w2, c)
    BY <1>3, <2>3, ZenonT(30) DEF InQueue, OnWire
  <2> QED BY <1>3, <1>6, <1>7, <2>1, <2>2, <2>4, SMTT(20) DEF OnceOf
<1>9. Named(fs, q2, w2, g, sl)
  <2>1. Named(fs, q, w, g, sl)
    BY Zenon DEF Way
  <2>2. ASSUME NEW f \in w2 PROVE f.id = sl[f.call]
    BY <1>2, <1>4, <2>1, Records, SMTT(20) DEF Named
  <2>3. ASSUME NEW i \in 1..m, q2[i].call # NoCall PROVE q2[i].id = sl[q2[i].call]
    BY <1>2, <1>3, <2>1, <2>3, SMTT(20) DEF Named
  <2> QED BY <1>3, <2>1, <2>2, <2>3, SMTT(20) DEF Named
<1> QED BY <1>5, <1>6, <1>7, <1>8, <1>9, ZenonT(30) DEF Way, Under

\* The fragment goes, or goes stale.
LEMMA WayFragment ==
    ASSUME NEW fs, NEW q, NEW w, NEW g, NEW sl, Way(fs, q, w, g, sl), NEW g2 \in Fragment \cup {NoFrag},
           g2.call = g.call \/ g2.call = NoCall, g2.fresh => g2 = g
    PROVE  Way(fs, q, w, g2, sl) /\ Under(fs, q, w, g2) \subseteq Under(fs, q, w, g)
<1>1. ASSUME NEW c \in Calls PROVE g2.call = c => g.call = c
  BY CallsAssumption, Zenon
<1>2. ASSUME NEW c \in Calls PROVE OnceOf(fs, q, w, g2, c)
  BY <1>1, Zenon DEF Way, OnceOf
<1>3. Named(fs, q, w, g2, sl)
  BY Zenon DEF Way, Named
<1>4. WayType(fs, q, w, g2)
  BY Zenon DEF Way, WayType
<1> QED BY <1>1, <1>2, <1>3, <1>4, ZenonT(30) DEF Way, Under

\* The frame f leaves the wire.
Taken(w, f, w2) == f \in w /\ w2 = w \ {f}

\* The answer f to a request on the wire arrives: no other copy of it is left.
LastCopy(fs, q, w, sl, f, w2) ==
    /\ Way(fs, q, w2, NoFrag, sl)
    /\ Under(fs, q, w2, NoFrag) \subseteq Under(fs, q, w, NoFrag)
    /\ f.call \in Under(fs, q, w, NoFrag)
    /\ f.call \notin Under(fs, q, w2, NoFrag)
    /\ f.id = sl[f.call]

LEMMA WayRead ==
    ASSUME NEW fs, NEW q, NEW w, NEW sl, Way(fs, q, w, NoFrag, sl), NEW f, NEW w2, Taken(w, f, w2)
    PROVE  LastCopy(fs, q, w, sl, f, w2)
<1>0. f \in w /\ w2 = w \ {f}
  BY Zenon DEF Taken
<1>1. PICK c \in Calls : c = f.call /\ f \in Frame /\ w \subseteq Frame
  BY <1>0, Records, ZenonT(30) DEF Way, WayType
<1>2. Passed(q, w, q, w2)
  <2>1. q \in Seq(Frame \cup {Heartbeat}) /\ Len(q) \in Nat
    BY DEF Way, WayType
  <2>2. q = SubSeq(q, 0 + 1, Len(q)) /\ 0 \in 0..Len(q)
    BY <2>1, SMTT(20)
  <2> QED BY <1>0, <2>2, SMTT(20) DEF Passed
<1>3. Way(fs, q, w2, NoFrag, sl) /\ Under(fs, q, w2, NoFrag) \subseteq Under(fs, q, w, NoFrag)
  BY <1>2, WayPasses, SMTT(20)
<1>4. OnWire(w, c) /\ OnceOf(fs, q, w, NoFrag, c) /\ f.id = sl[c]
  BY <1>0, <1>1, Zenon DEF OnWire, Way, Named
<1>5. ~OnWire(w2, c)
  <2> SUFFICES ASSUME NEW e \in w, e.call = c PROVE e = f
    BY <1>0, Zenon DEF OnWire
  <2>1. e.id = f.id
    BY <1>4, Zenon DEF Way, Named
  <2>2. e = [call |-> c, id |-> e.id] /\ f = [call |-> c, id |-> f.id]
    BY <1>1, Records, ZenonT(30)
  <2> QED BY <2>1, <2>2, Zenon
<1>6. ~InFunctors(fs, c) /\ ~InQueue(q, c) /\ NoFrag.call # c
  BY <1>4, Records, SMTT(20) DEF OnceOf
<1>7. c \in Under(fs, q, w, NoFrag) /\ c \notin Under(fs, q, w2, NoFrag)
  BY <1>1, <1>4, <1>5, <1>6, SMTT(20) DEF Under
<1> QED BY <1>1, <1>3, <1>4, <1>7, SMTT(20) DEF LastCopy

\* Its beginning is kept in the input buffer.
LEMMA WayPart ==
    ASSUME NEW fs, NEW q, NEW w, NEW sl, Way(fs, q, w, NoFrag, sl), NEW f, NEW w2, Taken(w, f, w2),
           NEW g, g = [call |-> f.call, id |-> f.id, fresh |-> TRUE]
    PROVE  Way(fs, q, w2, g, sl) /\ Under(fs, q, w2, g) \subseteq Under(fs, q, w, NoFrag)
<1>1. /\ Way(fs, q, w2, NoFrag, sl)
      /\ Under(fs, q, w2, NoFrag) \subseteq Under(fs, q, w, NoFrag)
      /\ f.call \in Under(fs, q, w, NoFrag)
      /\ f.call \notin Under(fs, q, w2, NoFrag)
      /\ f.id = sl[f.call]
  <2>1. LastCopy(fs, q, w, sl, f, w2)
    BY WayRead, Zenon
  <2> QED BY <2>1, Zenon DEF LastCopy
<1>2. g \in Fragment /\ g.call = f.call /\ g.id = f.id
  BY ZenonT(30) DEF Way, WayType, Frame, Fragment, Taken
<1>3. ASSUME NEW c \in Calls PROVE OnceOf(fs, q, w2, g, c)
  <2>1. OnceOf(fs, q, w2, NoFrag, c)
    BY <1>1, Zenon DEF Way
  <2>2. c = f.call => ~InFunctors(fs, c) /\ ~InQueue(q, c) /\ ~OnWire(w2, c)
    BY <1>1, Zenon DEF Under
  <2> QED BY <1>2, <2>1, <2>2, SMTT(20) DEF OnceOf
<1>4. Named(fs, q, w2, g, sl)
  BY <1>1, <1>2, Zenon DEF Way, Named
<1>5. WayType(fs, q, w2, g)
  BY <1>1, <1>2, Zenon DEF Way, WayType
<1> QED BY <1>1, <1>2, <1>3, <1>4, <1>5, ZenonT(30) DEF Way, Under

\* Only calls whose request is nowhere get a new id.
LEMMA WaySlot ==
    ASSUME NEW fs, NEW q, NEW w, NEW g, NEW sl, Way(fs, q, w, g, sl), NEW sl2,
           \A c \in Under(fs, q, w, g) : sl2[c] = sl[c]
    PROVE  Way(fs, q, w, g, sl2)
<1>1. WayType(fs, q, w, g) /\ Named(fs, q, w, g, sl)
  BY Zenon DEF Way
<1>2. ASSUME NEW i \in 1..Len(fs), fs[i].op = "send" PROVE fs[i].id = sl2[fs[i].call]
  <2>1. fs[i].call \in Calls
    BY <1>1, <1>2, Records, SMTT(20) DEF WayType
  <2>2. fs[i].call \in Under(fs, q, w, g)
    BY <1>2, <2>1, Zenon DEF Under, InFunctors, Sends
  <2> QED BY <1>1, <1>2, <2>2, ZenonT(30) DEF Named
<1>3. ASSUME NEW i \in 1..Len(q), q[i].call # NoCall PROVE q[i].id = sl2[q[i].call]
  <2>1. q[i].call \in Calls
    BY <1>1, <1>3, Records, SMTT(20) DEF WayType
  <2>2. q[i].call \in Under(fs, q, w, g)
    BY <2>1, Zenon DEF Under, InQueue
  <2> QED BY <1>1, <1>3, <2>2, ZenonT(30) DEF Named
<1>4. ASSUME NEW f \in w PROVE f.id = sl2[f.call]
  <2>1. f.call \in Calls
    BY <1>1, Records, ZenonT(30) DEF WayType
  <2>2. f.call \in Under(fs, q, w, g)
    BY <2>1, ZenonT(30) DEF Under, OnWire
  <2> QED BY <1>1, <2>2, Zenon DEF Named
<1>5. ASSUME g.fresh PROVE g.id = sl2[g.call]
  <2>1. g.call \in Calls
    BY <1>1, <1>5, Records, ZenonT(30) DEF WayType
  <2> QED BY <1>1, <1>5, <2>1, SMTT(20) DEF Named, Under
<1>6. Named(fs, q, w, g, sl2)
  BY <1>2, <1>3, <1>4, <1>5, SMTT(20) DEF Named
<1> QED BY <1>6, Zenon DEF Way

-----------------------------------------------------------------------------
(* Responses *)

Underway == Under(functors, outQueue, wire, frag)

\* asyncCall has queued or written the request of c.
Sent(c) == pc[c] \in {"returned", "cancelling"}

Undone == {c \in Calls : doneCount[c] = 0}

HowDone == \A c \in Calls : how[c] = "none" <=> doneCount[c] = 0

\* So far calls ended by a response only.
Quiet == \A c \in Calls : how[c] \in {"none", "reply"}

Settled ==
    /\ Underway \subseteq Undone
    /\ frag = NoFrag \/ frag.fresh
    /\ \A c \in Calls : doneCount[c] # 0 => Sent(c)
    /\ \A c \in Calls : how[c] = "reply" => by[c] = c

\* The inductive invariant: a request is in one place, under the id of its call; and
\* while calls end by a response only, a request under way belongs to an unfinished
\* call, and nothing of an earlier connection is in the input buffer.
RouteInv ==
    /\ Way(functors, outQueue, wire, frag, slot)
    /\ \A c \in Underway : Sent(c)
    /\ HowDone
    /\ Quiet => Settled

\* What a step has to show, when done() runs for the calls in S.
LEMMA Settles ==
    ASSUME TypedTable, RouteInv, NEW S, S \subseteq Undone, NEW h, h # "none", NEW b, Finish(S, h, b),
           Way(functors', outQueue', wire', frag', slot'),
           \A c \in Under(functors', outQueue', wire', frag') : Sent(c)',
           \A c \in Calls : Sent(c) => Sent(c)',
           Quiet /\ (S = {} \/ h = "reply") =>
               /\ Under(functors', outQueue', wire', frag') \subseteq Undone \ S
               /\ frag' = NoFrag \/ frag'.fresh
               /\ \A c \in S : b = c /\ Sent(c)'
    PROVE  RouteInv'
<1>1. /\ doneCount \in [Calls -> Nat] /\ how \in [Calls -> Outcomes]
      /\ by \in [Calls -> Calls \cup {NoCall}]
  BY Zenon DEF TypedTable, TypeOK
<1>2. ASSUME NEW c \in Calls
      PROVE  /\ c \in S => doneCount[c] = 0 /\ doneCount'[c] = 1 /\ how'[c] = h /\ by'[c] = b
             /\ c \notin S => doneCount'[c] = doneCount[c] /\ how'[c] = how[c] /\ by'[c] = by[c]
  BY <1>1, SMTT(20) DEF Finish, Undone
<1>3. HowDone'
  BY <1>2, SMTT(20) DEF RouteInv, HowDone
<1>4. ASSUME Quiet' PROVE Quiet /\ (S = {} \/ h = "reply")
  <2>1. ASSUME NEW c \in Calls PROVE how[c] \in {"none", "reply"}
    <3>1. CASE c \in S
      BY <1>2, <3>1, ZenonT(30) DEF RouteInv, HowDone
    <3>2. CASE c \notin S
      BY <1>2, <1>4, <3>2, ZenonT(30) DEF Quiet
    <3> QED BY <3>1, <3>2, ZenonT(30)
  <2>2. ASSUME NEW c \in S PROVE h = "reply"
    BY <1>2, <1>4, <2>2, SMTT(20) DEF Quiet, Undone
  <2> QED BY <2>1, <2>2, ZenonT(30) DEF Quiet
<1>5. ASSUME Quiet' PROVE Settled'
  <2>1. Settled
    BY <1>4, <1>5, ZenonT(30) DEF RouteInv
  <2>2. /\ Under(functors', outQueue', wire', frag') \subseteq Undone \ S
        /\ frag' = NoFrag \/ frag'.fresh
        /\ \A c \in S : b = c /\ Sent(c)'
    BY <1>4, <1>5, ZenonT(30)
  <2>3. Underway' \subseteq Undone'
    BY <1>2, <2>2, ZenonT(30) DEF Underway, Undone
  <2>4. ASSUME NEW c \in Calls, doneCount'[c] # 0 PROVE Sent(c)'
    BY <1>2, <2>1, <2>2, <2>4, ZenonT(30) DEF Settled
  <2>5. ASSUME NEW c \in Calls, how'[c] = "reply" PROVE by'[c] = c
    BY <1>2, <2>1, <2>2, <2>5, SMTT(20) DEF Settled
  <2> QED BY <2>2, <2>3, <2>4, <2>5, ZenonT(30) DEF Settled
<1> QED BY <1>3, <1>5, SMTT(20) DEF RouteInv, Underway

\* done() ran for nobody.
LEMMA NobodyDone ==
    ASSUME TypeOK, UNCHANGED <<doneCount, how, by>>, NEW h, NEW b
    PROVE  Finish({}, h, b)
BY Zenon DEF TypeOK, Finish

\* A step that ends the calls in S otherwise than by a response, and at most adds
\* requests of calls that are not done.
LEMMA OthersSettle ==
    ASSUME TypedTable, RouteInv, NEW S, S \subseteq Undone, NEW h, h \notin {"none", "reply"},
           NEW b, Finish(S, h, b), frag' = frag,
           Way(functors', outQueue', wire', frag, slot'),
           \A c \in Under(functors', outQueue', wire', frag) :
               /\ Sent(c)'
               /\ c \in Underway \/ (Quiet => doneCount[c] = 0),
           \A c \in Calls : Sent(c) => Sent(c)'
    PROVE  RouteInv'
<1>1. ASSUME Quiet, S = {}
      PROVE  /\ Under(functors', outQueue', wire', frag') \subseteq Undone \ S
             /\ frag' = NoFrag \/ frag'.fresh
             /\ \A c \in S : b = c /\ Sent(c)'
  <2>1. Settled
    BY <1>1, ZenonT(30) DEF RouteInv
  <2>2. Under(functors', outQueue', wire', frag') \subseteq Undone
    BY <1>1, <2>1, ZenonT(30) DEF Settled, Under, Undone
  <2> QED BY <1>1, <2>1, <2>2, ZenonT(30) DEF Settled
<1> QED BY <1>1, Settles, Zenon

\* A step that ends every call in the table, and makes the fragment stale.
LEMMA CloseSettles ==
    ASSUME TypedTable, RouteInv, NEW S, S \subseteq Undone, Occupants(pending) \subseteq S,
           Finish(S, "closed", NoCall), frag' = [frag EXCEPT !.fresh = FALSE],
           Way(functors', outQueue', wire', frag, slot'),
           \A c \in Under(functors', outQueue', wire', frag) :
               /\ Sent(c)'
               /\ c \in Underway \/ (Quiet => doneCount[c] = 0),
           \A c \in Calls : Sent(c) => Sent(c)'
    PROVE  RouteInv'
<1>1. frag \in Fragment \cup {NoFrag}
  BY Zenon DEF TypedTable, TypeOK
<1>2. /\ frag' \in Fragment \cup {NoFrag} /\ frag'.call = frag.call /\ ~frag'.fresh
      /\ frag = NoFrag => frag' = NoFrag
  <2>1. CASE frag \in Fragment
    <3>1. frag' \in Fragment /\ frag'.call = frag.call /\ frag'.fresh = FALSE
      BY <2>1, Zenon DEF Fragment
    <3>2. frag.call \in Calls
      BY <2>1, Zenon DEF Fragment
    <3>3. frag # NoFrag
      BY <3>2, Records, ZenonT(30)
    <3> QED BY <3>1, <3>3, ZenonT(30)
  <2>2. CASE frag = NoFrag
    BY <2>2, Zenon DEF NoFrag
  <2> QED BY <1>1, <2>1, <2>2, ZenonT(30)
<1>3. /\ Way(functors', outQueue', wire', frag', slot')
      /\ Under(functors', outQueue', wire', frag') \subseteq Under(functors', outQueue', wire', frag)
  BY <1>2, WayFragment, ZenonT(30)
<1>4. ASSUME Quiet, S = {}
      PROVE  /\ Under(functors', outQueue', wire', frag') \subseteq Undone \ S
             /\ frag' = NoFrag \/ frag'.fresh
             /\ \A c \in S : NoCall = c /\ Sent(c)'
  <2>1. Settled
    BY <1>4, Zenon DEF RouteInv
  <2>2. Under(functors', outQueue', wire', frag') \subseteq Undone
    BY <1>3, <1>4, <2>1, ZenonT(30) DEF Settled, Under, Undone
  <2>3. ~frag.fresh
    <3> SUFFICES ASSUME frag.fresh PROVE FALSE
      BY Zenon
    <3>1. PICK c \in Calls : c = frag.call
      BY <1>1, Records, ZenonT(30)
    <3>2. c \in Underway
      BY <3>1, Zenon DEF Underway, Under
    <3>3. Issued(c) /\ doneCount[c] = 0
      BY <2>1, <3>2, ZenonT(30) DEF RouteInv, Sent, Issued, Settled, Undone
    <3>4. c \in Occupants(pending)
      BY <3>3, OccupantsAreOpen, ZenonT(30) DEF TypedTable, TableInv
    <3> QED BY <1>4, <3>4, ZenonT(30)
  <2> QED BY <1>2, <1>4, <2>1, <2>2, <2>3, ZenonT(30) DEF Settled
<1> QED BY <1>3, <1>4, Settles, ZenonT(30)

\* The call in a slot is not done.
LEMMA ReleaseFinishes ==
    ASSUME TypedTable, NEW id \in Nat, NEW h, NEW b, Release(id, h, b)
    PROVE  \E S : S \subseteq Undone /\ Finish(S, h, b)
<1>1. CASE Occupied(id)
  <2>1. {pending[id]} \subseteq Undone
    BY <1>1, VacatedProperties, SMTT(20) DEF TypedTable, TableInv, TableExact, Occupied, Undone
  <2> QED BY <1>1, <2>1, ZenonT(30) DEF Release
<1>2. CASE ~Occupied(id)
  <2>1. Finish({}, h, b)
    BY <1>2, NobodyDone, ZenonT(30) DEF Release, TypedTable
  <2> QED BY <2>1, Zenon
<1> QED BY <1>1, <1>2, ZenonT(30)

LEMMA TableIsUndone == TypedTable => Occupants(pending) \subseteq Undone
BY OccupantsAreOpen, Zenon DEF TypedTable, TableInv, Undone

\* Nothing was written.
LEMMA PassedNothing ==
    ASSUME NEW q \in Seq(Frame \cup {Heartbeat}), NEW w, NEW w2, w2 \subseteq w
    PROVE  Passed(q, w, q, w2) /\ Passed(q, w, <<>>, w2)
<1>1. Len(q) \in Nat /\ q = SubSeq(q, 0 + 1, Len(q)) /\ 0 \in 0..Len(q)
  OBVIOUS
<1> QED BY <1>1, Zenon DEF Passed

LEMMA FlushPasses ==
    ASSUME NEW q \in Seq(Frame \cup {Heartbeat}), q # <<>>, NEW tbl, NEW free, FlushOutput(q, tbl, free)
    PROVE  /\ Passed(q, wire, outQueue', wire')
           /\ HandleClose(tbl) \/ UNCHANGED <<doneCount, how, by, frag>>
<1>1. ASSUME NEW k \in 0..Len(q), NEW cut \in BOOLEAN, Accepted(q, k, cut)
      PROVE  Passed(q, wire, outQueue', wire')
  <2>1. outQueue' = SubSeq(q, k + 1, Len(q))
    BY <1>1, Zenon DEF Accepted
  <2>2. wire' \subseteq wire \cup ({q[i] : i \in 1..k} \ {Heartbeat})
    BY <1>1, Zenon DEF Accepted, Delivered
  <2> QED BY <2>1, <2>2, ZenonT(30) DEF Passed
<1>2. ASSUME Dropped(q) PROVE Passed(q, wire, outQueue', wire')
  <2>1. 1 \in 0..Len(q) /\ 1 \in 1..1
    <3>1. Len(q) \in Nat /\ Len(q) # 0
      BY SMTT(20)
    <3> QED BY <3>1, SMTT(20)
  <2>2. wire' \subseteq wire \cup ({q[i] : i \in 1..1} \ {Heartbeat})
    BY <1>2, <2>1, ZenonT(30) DEF Dropped
  <2> QED BY <1>2, <2>1, <2>2, ZenonT(30) DEF Passed, Dropped
<1>3. ASSUME HandleClose(tbl), outQueue' = <<>> PROVE Passed(q, wire, outQueue', wire')
  BY <1>3, PassedNothing, ZenonT(30) DEF HandleClose
<1> QED BY <1>1, <1>2, <1>3, ZenonT(30) DEF FlushOutput, StayOpen

LEMMA WritePasses ==
    ASSUME outQueue \in Seq(Frame \cup {Heartbeat}), NEW f \in Frame \cup {Heartbeat},
           NEW tbl, NEW free, WriteFrame(f, tbl, free)
    PROVE  /\ Passed(Append(outQueue, f), wire, outQueue', wire')
           /\ HandleClose(tbl) \/ UNCHANGED <<doneCount, how, by, frag>>
<1>1. PICK q : q = Append(outQueue, f)
  BY Zenon
<1>2. q \in Seq(Frame \cup {Heartbeat}) /\ q # <<>> /\ (outQueue = <<>> => q = <<f>> /\ Len(q) = 1)
  <2>1. q \in Seq(Frame \cup {Heartbeat}) /\ Len(q) = Len(outQueue) + 1 /\ Len(outQueue) \in Nat
    BY <1>1, SMTT(20)
  <2>2. q # <<>>
    BY <2>1, SMTT(20)
  <2>3. ASSUME outQueue = <<>> PROVE q = <<f>> /\ Len(q) = 1
    BY <1>1, <2>1, <2>3, SMTT(20)
  <2> QED BY <2>1, <2>2, <2>3, ZenonT(30)
<1>3. CASE state # "Ready"
  <2>1. outQueue' = q /\ wire' = wire /\ UNCHANGED <<doneCount, how, by, frag>>
    BY <1>1, <1>3, ZenonT(30) DEF WriteFrame, StayOpen
  <2> QED BY <1>1, <1>2, <2>1, PassedNothing, ZenonT(30)
<1>4. CASE state = "Ready" /\ outQueue # <<>>
  BY <1>1, <1>2, <1>4, FlushPasses, ZenonT(30) DEF WriteFrame
<1>5. CASE state = "Ready" /\ outQueue = <<>>
  <2>1. ASSUME NEW k \in 0..1, NEW cut \in BOOLEAN, Accepted(<<f>>, k, cut)
        PROVE  Passed(q, wire, outQueue', wire')
    <3>1. k \in 0..Len(q) /\ Accepted(q, k, cut)
      BY <1>2, <1>5, <2>1, ZenonT(30)
    <3>2. outQueue' = SubSeq(q, k + 1, Len(q))
      BY <3>1, ZenonT(30) DEF Accepted
    <3>3. wire' \subseteq wire \cup ({q[i] : i \in 1..k} \ {Heartbeat})
      BY <3>1, Zenon DEF Accepted, Delivered
    <3> QED BY <3>1, <3>2, <3>3, ZenonT(30) DEF Passed
  <2>2. ASSUME outQueue' = <<f>>, wire' = wire PROVE Passed(q, wire, outQueue', wire')
    BY <1>2, <1>5, <2>2, PassedNothing, ZenonT(30)
  <2>3. ASSUME HandleClose(tbl), KeepOutput PROVE Passed(q, wire, outQueue', wire')
    <3>1. outQueue' = <<>> /\ wire' = {}
      BY <1>5, <2>3, SMTT(20) DEF HandleClose, KeepOutput
    <3> QED BY <1>2, <3>1, PassedNothing, ZenonT(30)
  <2> QED BY <1>1, <1>5, <2>1, <2>2, <2>3, ZenonT(30) DEF WriteFrame, StayOpen
<1> QED BY <1>3, <1>4, <1>5, ZenonT(30)

-----------------------------------------------------------------------------
\* The application threads.
LEMMA AppRoute ==
    ASSUME TypedTable, RouteInv, AppStep \/ Stop
    PROVE  RouteInv'
<1>0. TypeOK /\ Way(functors, outQueue, wire, frag, slot)
  BY Zenon DEF TypedTable, RouteInv
<1>1. ASSUME NEW c \in Calls, Register(c) PROVE RouteInv'
  <2>1. pc[c] = "new" /\ c \in Undone /\ c \notin Underway /\ UNCHANGED <<functors, outQueue, wire, frag>>
    BY <1>1, ZenonT(30) DEF Register, Refuse, TypedTable, TableInv, NewIsUndone, Undone, RouteInv, Sent, ioVars, loopVars
  <2>2. ASSUME NEW d \in Calls PROVE Sent(d) => Sent(d)'
    <3>1. d # c => pc'[d] = pc[d]
      BY <1>0, <1>1, SMTT(20) DEF Register, Refuse, TypeOK
    <3> QED BY <2>1, <3>1, SMTT(20) DEF Sent
  <2>3. ASSUME NEW d \in Underway PROVE Sent(d)'
    BY <2>2, Zenon DEF RouteInv, Underway, Under
  <2>4. CASE Refuse(c)
    <3>1. Finish({c}, "refused", c) /\ slot' = slot
      BY <2>4, Zenon DEF Refuse
    <3> QED BY <1>0, <2>1, <2>2, <2>3, <3>1, OthersSettle, ZenonT(30) DEF Underway
  <2>5. CASE ~Refuse(c)
    <3>1. slot' = [slot EXCEPT ![c] = NextId] /\ UNCHANGED <<doneCount, how, by>>
      BY <1>1, <2>5, ZenonT(30) DEF Register
    <3>2. \A d \in Underway : slot'[d] = slot[d]
      BY <1>0, <2>1, <3>1, ZenonT(30) DEF TypeOK, Underway, Under
    <3>3. Way(functors, outQueue, wire, frag, slot')
      BY <1>0, <3>2, WaySlot, SMTT(20) DEF Underway
    <3>4. Finish({}, "closed", NoCall)
      BY <1>0, <3>1, NobodyDone, ZenonT(30)
    <3> QED BY <2>1, <2>2, <2>3, <3>3, <3>4, OthersSettle, ZenonT(30) DEF Underway
  <2> QED BY <2>4, <2>5, SMTT(20)
<1>2. ASSUME NEW f \in Functor, functors' = Append(functors, f),
             f.op = "send" => /\ f.call \notin Underway /\ f.id = slot[f.call]
                              /\ Sent(f.call)' /\ (Quiet => doneCount[f.call] = 0),
             UNCHANGED <<slot, doneCount, how, by, outQueue, wire, frag>>,
             \A c \in Calls : Sent(c) => Sent(c)'
      PROVE  RouteInv'
  <2>1. /\ Way(functors', outQueue', wire', frag, slot')
        /\ Under(functors', outQueue', wire', frag) \subseteq
             Underway \cup (IF f.op = "send" THEN {f.call} ELSE {})
    BY <1>0, <1>2, WayFunctor, ZenonT(30) DEF Underway
  <2>2. ASSUME NEW d \in Under(functors', outQueue', wire', frag)
        PROVE  Sent(d)' /\ (d \in Underway \/ (Quiet => doneCount[d] = 0))
    <3>1. CASE d \in Underway
      BY <1>2, <3>1, ZenonT(30) DEF RouteInv, Underway, Under
    <3>2. CASE f.op = "send" /\ d = f.call
      BY <1>2, <3>2, ZenonT(30)
    <3> QED BY <2>1, <3>1, <3>2, SMTT(20)
  <2>3. Finish({}, "closed", NoCall)
    BY <1>0, <1>2, NobodyDone, ZenonT(30)
  <2> QED BY <1>2, <2>1, <2>2, <2>3, OthersSettle, SMTT(20)
<1>3. ASSUME NEW c \in Calls, QueueArm(c) \/ QueueSend(c) \/ SyncTimeout(c) PROVE RouteInv'
  <2>1. PICK o \in {"arm", "send", "cancel"} : Enqueue(o, c) /\ (o = "send" => QueueSend(c))
    BY <1>3, Zenon DEF QueueArm, QueueSend, SyncTimeout
  <2>2. PICK f : f = [op |-> o, call |-> c, id |-> slot[c]]
    BY Zenon
  <2>3. f \in Functor /\ f.op = o /\ f.call = c /\ f.id = slot[c] /\ functors' = Append(functors, f)
    BY <1>0, <2>1, <2>2, ZenonT(30) DEF Functor, CallFunctor, TypeOK, Enqueue
  <2>4. UNCHANGED <<slot, doneCount, how, by, outQueue, wire, frag>>
    BY <2>1, ZenonT(30) DEF Enqueue, ioVars
  <2>5. ASSUME NEW d \in Calls PROVE Sent(d) => Sent(d)'
    BY <1>0, <1>3, ZenonT(30) DEF QueueArm, QueueSend, SyncTimeout, TypeOK, Sent
  <2>6. ASSUME o = "send"
        PROVE  c \notin Underway /\ Sent(c)' /\ (Quiet => doneCount[c] = 0)
    <3>1. ~Sent(c)
      BY <2>1, <2>6, ZenonT(30) DEF QueueSend, Sent
    <3>2. pc'[c] = "returned"
      BY <1>0, <2>1, <2>6, ZenonT(30) DEF QueueSend, TypeOK
    <3> QED BY <3>1, <3>2, ZenonT(30) DEF RouteInv, Settled, Sent
  <2> QED BY <1>2, <2>3, <2>4, <2>5, <2>6, SMTT(20)
<1>4. CASE Stop
  <2>1. /\ StopFunctor \in Functor /\ StopFunctor.op # "send" /\ functors' = Append(functors, StopFunctor)
        /\ UNCHANGED <<slot, doneCount, how, by, outQueue, wire, frag>>
        /\ \A c \in Calls : Sent(c) => Sent(c)'
    BY <1>4, Zenon DEF Stop, StopFunctor, Functor, callVars, ioVars, Sent
  <2> QED BY <1>2, <2>1, ZenonT(30)
<1> QED BY <1>1, <1>3, <1>4, SMTT(20) DEF AppStep

-----------------------------------------------------------------------------
\* The steps of the loop thread end every call in the table and make the fragment
\* stale, or end some call otherwise than by a response, or read.
Closes == Finish(Occupants(pending), "closed", NoCall) /\ frag' = [frag EXCEPT !.fresh = FALSE]

Ends ==
    /\ frag' = frag
    /\ \E S, h, b : S \subseteq Undone /\ h \notin {"none", "reply"} /\ Finish(S, h, b)

LEMMA LoopSettles ==
    ASSUME TypedTable, RouteInv, UNCHANGED <<pc, slot>>, NEW q,
           Way(functors', q, wire, frag, slot), Under(functors', q, wire, frag) \subseteq Underway,
           Passed(q, wire, outQueue', wire'), Closes \/ Ends
    PROVE  RouteInv'
<1>1. /\ Way(functors', outQueue', wire', frag, slot')
      /\ Under(functors', outQueue', wire', frag) \subseteq Underway
  BY WayPasses, Zenon
<1>2. \A c \in Calls : Sent(c) => Sent(c)'
  BY Zenon DEF Sent
<1>3. \A c \in Under(functors', outQueue', wire', frag) : Sent(c)' /\ c \in Underway
  BY <1>1, ZenonT(30) DEF RouteInv, Sent
<1>4. CASE Closes
  BY <1>1, <1>2, <1>3, <1>4, CloseSettles, TableIsUndone, ZenonT(30) DEF Closes
<1>5. CASE Ends
  <2>1. PICK S, h, b : S \subseteq Undone /\ h \notin {"none", "reply"} /\ Finish(S, h, b)
    BY <1>5, ZenonT(30) DEF Ends
  <2>2. frag' = frag
    BY <1>5, Zenon DEF Ends
  <2> QED BY <1>1, <1>2, <1>3, <2>1, <2>2, OthersSettle, ZenonT(30)
<1> QED BY <1>4, <1>5, Zenon

LEMMA KeepEnds ==
    ASSUME TypeOK, UNCHANGED <<doneCount, how, by, frag>>
    PROVE  Ends
<1>1. Finish({}, "closed", NoCall)
  BY NobodyDone, Zenon
<1>2. {} \subseteq Undone /\ "closed" \notin {"none", "reply"}
  BY Zenon
<1> QED BY <1>1, <1>2, ZenonT(30) DEF Ends

LEMMA ReleaseEnds ==
    ASSUME TypedTable, NEW id \in Nat, NEW h, h \notin {"none", "reply"}, NEW b,
           Release(id, h, b), frag' = frag
    PROVE  Ends
BY ReleaseFinishes, ZenonT(30) DEF Ends

LEMMA CloseCloses ==
    ASSUME TypeOK, HandleClose(pending), KeepOutput
    PROVE  Closes /\ Passed(outQueue, wire, outQueue', wire')
BY PassedNothing, ZenonT(30) DEF HandleClose, KeepOutput, Closes, TypeOK

LEMMA KeepPasses ==
    ASSUME TypeOK, UNCHANGED <<outQueue, wire>>
    PROVE  Passed(outQueue, wire, outQueue', wire')
BY PassedNothing, ZenonT(30) DEF TypeOK

LEMMA ConnectRoute ==
    ASSUME TypeOK, DoConnect
    PROVE  (Closes \/ Ends) /\ Passed(outQueue, wire, outQueue', wire')
BY CloseCloses, KeepEnds, KeepPasses, SMTT(20) DEF DoConnect, ioVars

LEMMA WriteRoute ==
    ASSUME TypeOK, NEW f \in Frame \cup {Heartbeat}, WriteFrame(f, pending, freeSlots)
    PROVE  (Closes \/ Ends) /\ Passed(Append(outQueue, f), wire, outQueue', wire')
<1>1. outQueue \in Seq(Frame \cup {Heartbeat})
  BY Zenon DEF TypeOK
<1>2. /\ Passed(Append(outQueue, f), wire, outQueue', wire')
      /\ HandleClose(pending) \/ UNCHANGED <<doneCount, how, by, frag>>
  BY <1>1, WritePasses, ZenonT(30)
<1>3. HandleClose(pending) => Closes
  BY ZenonT(30) DEF HandleClose, Closes
<1> QED BY <1>2, <1>3, KeepEnds, SMTT(20)

LEMMA FunctorRoute ==
    ASSUME TypedTable, RouteInv, RunFunctor
    PROVE  RouteInv'
<1>0. TypeOK /\ Way(functors, outQueue, wire, frag, slot) /\ functors # <<>> /\ functors' = Tail(functors)
  BY Zenon DEF TypedTable, RouteInv, RunFunctor
<1>1. PICK f : f = Head(functors)
  BY ZenonT(30)
<1>2. /\ Way(functors', outQueue, wire, frag, slot)
      /\ Under(functors', outQueue, wire, frag) \subseteq Underway
      /\ f.op = "send" => /\ f.call \in Underway
                          /\ f.call \notin Under(functors', outQueue, wire, frag)
                          /\ f.id = slot[f.call]
  <2>1. PICK ft : ft = functors'
    BY Zenon
  <2>2. First(functors, f, ft)
    BY <1>0, <1>1, <2>1, SMTT(20) DEF First
  <2>3. /\ Way(ft, outQueue, wire, frag, slot)
        /\ Under(ft, outQueue, wire, frag) \subseteq Under(functors, outQueue, wire, frag)
        /\ f.op = "send" =>
              /\ f.call \in Under(functors, outQueue, wire, frag)
              /\ f.call \notin Under(ft, outQueue, wire, frag)
              /\ f.id = slot[f.call]
    <3>1. Way(functors, outQueue, wire, frag, slot)
      BY <1>0, ZenonT(30)
    <3> QED BY <2>2, <3>1, WayTail, SMTT(20)
  <2> QED BY <1>1, <2>1, <2>3, SMTT(20) DEF Underway
<1>3. f \in Functor
  BY <1>0, <1>1, SMTT(20) DEF TypeOK
<1>4. f.op \in {"arm", "send", "cancel"} => f.call \in Calls /\ f.id \in Nat
  BY <1>3, SMTT(20) DEF Functor, CallFunctor, StartFunctor, StopFunctor
<1>5. CASE RunStart
  <2>1. UNCHANGED <<pc, slot>>
    BY <1>5, Zenon DEF RunStart
  <2>2. (Closes \/ Ends) /\ Passed(outQueue, wire, outQueue', wire')
    BY <1>0, <1>5, ConnectRoute, KeepEnds, KeepPasses, ZenonT(30) DEF RunStart, ioVars
  <2> QED BY <1>2, <2>1, <2>2, LoopSettles, SMTT(20)
<1>6. CASE RunStop
  <2>1. UNCHANGED <<pc, slot>> /\ Closes /\ outQueue' = outQueue /\ wire' = {}
    BY <1>6, SMTT(20) DEF RunStop, Closes, KeepOutput
  <2>2. Passed(outQueue, wire, outQueue', wire')
    BY <1>0, <2>1, PassedNothing, ZenonT(30) DEF TypeOK
  <2> QED BY <1>2, <2>1, <2>2, LoopSettles, SMTT(20)
<1>7. CASE RunArm(f)
  <2>1. UNCHANGED <<pc, slot>> /\ Ends /\ Passed(outQueue, wire, outQueue', wire')
    BY <1>0, <1>7, KeepEnds, KeepPasses, SMTT(20) DEF RunArm, ioVars
  <2> QED BY <1>2, <2>1, LoopSettles, ZenonT(30)
<1>8. CASE f.op = "send" /\ RunSend(f)
  <2>1. UNCHANGED <<pc, slot>>
    BY <1>8, SMTT(20) DEF RunSend
  <2>2. CASE state = "Closed"
    <3>1. Release(f.id, "closed", f.call) /\ frag' = frag /\ UNCHANGED <<outQueue, wire>>
      BY <1>8, <2>2, ZenonT(30) DEF RunSend, ioVars
    <3>2. Ends
      BY <1>4, <1>8, <3>1, ReleaseEnds, SMTT(20)
    <3>3. Passed(outQueue, wire, outQueue', wire')
      BY <1>0, <3>1, KeepPasses, ZenonT(30)
    <3> QED BY <1>2, <2>1, <3>2, <3>3, LoopSettles, ZenonT(30)
  <2>3. CASE state # "Closed"
    <3>1. PICK e : e = [call |-> f.call, id |-> f.id]
      BY Zenon
    <3>2. e \in Frame /\ e.call = f.call /\ e.id = f.id
      BY <1>4, <1>8, <3>1, SMTT(20) DEF Frame
    <3>3. WriteFrame(e, pending, freeSlots)
      BY <1>8, <2>3, <3>1, ZenonT(30) DEF RunSend
    <3>4. (Closes \/ Ends) /\ Passed(Append(outQueue, e), wire, outQueue', wire')
      BY <1>0, <3>2, <3>3, WriteRoute, ZenonT(30)
    <3>5. /\ Way(functors', Append(outQueue, e), wire, frag, slot)
          /\ Under(functors', Append(outQueue, e), wire, frag) \subseteq
               Under(functors', outQueue, wire, frag) \cup {e.call}
      <4>1. PICK fs : fs = functors'
        BY ZenonT(30)
      <4>2. Way(fs, outQueue, wire, frag, slot)
        BY <1>2, <4>1, SMTT(20)
      <4>3. e.call \notin Under(fs, outQueue, wire, frag) /\ e.id = slot[e.call]
        BY <1>2, <1>8, <3>2, <4>1, ZenonT(30)
      <4>4. /\ Way(fs, Append(outQueue, e), wire, frag, slot)
            /\ Under(fs, Append(outQueue, e), wire, frag) \subseteq
                 Under(fs, outQueue, wire, frag) \cup {e.call}
        BY <3>2, <4>2, <4>3, WayFrame, ZenonT(30)
      <4> QED BY <4>1, <4>4, SMTT(20)
    <3>6. Under(functors', Append(outQueue, e), wire, frag) \subseteq Underway
      BY <1>2, <1>8, <3>2, <3>5, ZenonT(30)
    <3> QED BY <2>1, <3>4, <3>5, <3>6, LoopSettles, ZenonT(30)
  <2> QED BY <2>2, <2>3, ZenonT(30)
<1>9. CASE f.op = "cancel" /\ RunCancel(f)
  <2>1. /\ Release(f.id, "cancelled", f.call) /\ frag' = frag
        /\ UNCHANGED <<pc, slot>> /\ UNCHANGED <<outQueue, wire>>
    BY <1>9, SMTT(20) DEF RunCancel, ioVars
  <2>2. Ends /\ Passed(outQueue, wire, outQueue', wire')
    BY <1>0, <1>4, <1>9, <2>1, ReleaseEnds, KeepPasses, ZenonT(30)
  <2> QED BY <1>2, <2>1, <2>2, LoopSettles, ZenonT(30)
<1> QED BY <1>1, <1>5, <1>6, <1>7, <1>8, <1>9, SMTT(20) DEF RunFunctor

\* Timers, and socket events other than reading, leave the functors alone.
LEMMA SameFunctorsSettle ==
    ASSUME TypedTable, RouteInv, UNCHANGED <<pc, slot, functors>>,
           Passed(outQueue, wire, outQueue', wire'), Closes \/ Ends
    PROVE  RouteInv'
BY LoopSettles, ZenonT(30) DEF RouteInv, Underway

LEMMA TimerRoute ==
    ASSUME TypedTable, RouteInv,
           \/ \E t \in deadlines : FireDeadline(t)
           \/ FireConnectTimeout
           \/ FireReconnect
           \/ HeartbeatTick
    PROVE  RouteInv'
<1>0. TypeOK
  BY Zenon DEF TypedTable
<1>1. ASSUME NEW t \in deadlines, FireDeadline(t) PROVE RouteInv'
  <2>1. t.id \in Nat
    BY <1>0, ZenonT(30) DEF TypeOK, Deadline
  <2>2. /\ Release(t.id, "deadline", t.for) /\ frag' = frag
        /\ UNCHANGED <<pc, slot, functors>> /\ UNCHANGED <<outQueue, wire>>
    BY <1>1, ZenonT(30) DEF FireDeadline, ioVars
  <2>3. Ends /\ Passed(outQueue, wire, outQueue', wire')
    BY <1>0, <2>1, <2>2, ReleaseEnds, KeepPasses, ZenonT(30)
  <2> QED BY <2>2, <2>3, SameFunctorsSettle, ZenonT(30)
<1>2. CASE FireConnectTimeout
  <2>1. UNCHANGED <<pc, slot, functors>>
    BY <1>2, Zenon DEF FireConnectTimeout, loopVars
  <2>2. (Closes \/ Ends) /\ Passed(outQueue, wire, outQueue', wire')
    BY <1>0, <1>2, CloseCloses, KeepEnds, KeepPasses, ZenonT(30) DEF FireConnectTimeout, ioVars
  <2> QED BY <2>1, <2>2, SameFunctorsSettle, ZenonT(30)
<1>3. CASE FireReconnect
  <2>1. UNCHANGED <<pc, slot, functors>>
    BY <1>3, ZenonT(30) DEF FireReconnect, loopVars
  <2>2. (Closes \/ Ends) /\ Passed(outQueue, wire, outQueue', wire')
    BY <1>0, <1>3, ConnectRoute, KeepEnds, KeepPasses, ZenonT(30) DEF FireReconnect, ioVars
  <2> QED BY <2>1, <2>2, SameFunctorsSettle, ZenonT(30)
<1>4. CASE HeartbeatTick
  <2>1. UNCHANGED <<pc, slot, functors>>
    BY <1>4, ZenonT(30) DEF HeartbeatTick, loopVars
  <2>2. CASE PeerDead
    <3>1. Closes /\ Passed(outQueue, wire, outQueue', wire')
      BY <1>0, <1>4, <2>2, CloseCloses, ZenonT(30) DEF HeartbeatTick
    <3> QED BY <2>1, <3>1, SameFunctorsSettle, ZenonT(30)
  <2>3. CASE ~PeerDead
    <3>1. WriteFrame(Heartbeat, pending, freeSlots)
      BY <1>4, <2>3, ZenonT(30) DEF HeartbeatTick
    <3>2. (Closes \/ Ends) /\ Passed(Append(outQueue, Heartbeat), wire, outQueue', wire')
      BY <1>0, <3>1, WriteRoute, ZenonT(30)
    <3>3. /\ Way(functors, Append(outQueue, Heartbeat), wire, frag, slot)
          /\ Under(functors, Append(outQueue, Heartbeat), wire, frag) \subseteq Underway \cup {NoCall}
      BY WayFrame, Records, ZenonT(30) DEF RouteInv, Underway
    <3>4. Under(functors, Append(outQueue, Heartbeat), wire, frag) \subseteq Underway
      BY <3>3, CallsAssumption, ZenonT(30) DEF Under
    <3> QED BY <2>1, <3>2, <3>3, <3>4, LoopSettles, ZenonT(30)
  <2> QED BY <2>2, <2>3, ZenonT(30)
<1> QED BY <1>1, <1>2, <1>3, <1>4, SMTT(20)

\* A call issued on the loop thread is written, or queued, at once.
LEMMA LoopCallRoute ==
    ASSUME TypedTable, RouteInv, NEW c \in Calls, LoopCall(c)
    PROVE  RouteInv'
<1>0. TypeOK /\ Way(functors, outQueue, wire, frag, slot)
  BY Zenon DEF TypedTable, RouteInv
<1>1. pc[c] = "new" /\ pc' = [pc EXCEPT ![c] = "returned"] /\ functors' = functors
  BY ZenonT(30) DEF LoopCall, Refuse, loopVars
<1>2. c \in Undone /\ c \notin Underway /\ pc'[c] = "returned"
  BY <1>0, <1>1, ZenonT(30) DEF TypedTable, TableInv, NewIsUndone, Undone, RouteInv, Sent, TypeOK
<1>3. ASSUME NEW d \in Calls PROVE (Sent(d) => Sent(d)') /\ Sent(c)'
  BY <1>0, <1>1, <1>2, ZenonT(30) DEF Sent, TypeOK
<1>4. ASSUME NEW d \in Underway \cup {c}
      PROVE  Sent(d)' /\ (d \in Underway \/ (Quiet => doneCount[d] = 0))
  BY <1>2, <1>3, ZenonT(30) DEF RouteInv, Underway, Under, Undone
<1>5. CASE Refuse(c)
  <2>1. Finish({c}, "refused", c) /\ UNCHANGED <<slot, outQueue, wire, frag>>
    BY <1>5, Zenon DEF Refuse, ioVars
  <2> QED BY <1>0, <1>1, <1>2, <1>3, <1>4, <2>1, OthersSettle, SMTT(20) DEF Underway
<1>6. CASE ~Refuse(c)
  <2>1. PICK e : e = [call |-> c, id |-> NextId]
    BY Zenon
  <2>2. NextId \in Nat
    BY <1>0, PlacedProperties, ZenonT(30) DEF TypeOK, TableType, TypedTable, TableInv
  <2>3. e \in Frame /\ e.call = c /\ e.id = NextId
    BY <2>1, <2>2, Zenon DEF Frame
  <2>4. slot' = [slot EXCEPT ![c] = NextId] /\ WriteFrame(e, Placed(c), FreeLeft)
    BY <1>6, <2>1, ZenonT(30) DEF LoopCall
  <2>5. PICK sl : sl = slot' /\ sl[c] = NextId /\ \A d \in Underway : sl[d] = slot[d]
    <3>1. slot'[c] = NextId
      BY <1>0, <2>4, SMTT(20) DEF TypeOK
    <3>2. ASSUME NEW d \in Underway PROVE slot'[d] = slot[d]
      BY <1>0, <1>2, <2>4, <3>2, ZenonT(30) DEF TypeOK, Underway, Under
    <3> QED BY <3>1, <3>2, ZenonT(30)
  <2>6. Way(functors, outQueue, wire, frag, sl)
    BY <1>0, <2>5, WaySlot, ZenonT(30) DEF Underway
  <2>7. PICK q : q = Append(outQueue, e)
    BY Zenon
  <2>8. /\ Way(functors, q, wire, frag, sl)
        /\ Under(functors, q, wire, frag) \subseteq Underway \cup {c}
    <3>1. e.call \notin Under(functors, outQueue, wire, frag) /\ e.id = sl[e.call]
      BY <1>2, <2>3, <2>5, ZenonT(30) DEF Underway
    <3>2. /\ Way(functors, q, wire, frag, sl)
          /\ Under(functors, q, wire, frag) \subseteq Under(functors, outQueue, wire, frag) \cup {e.call}
      BY <2>3, <2>6, <2>7, <3>1, WayFrame, ZenonT(30)
    <3> QED BY <2>3, <3>2, ZenonT(30) DEF Underway
  <2>9. /\ Passed(q, wire, outQueue', wire')
        /\ HandleClose(Placed(c)) \/ UNCHANGED <<doneCount, how, by, frag>>
    BY <1>0, <2>3, <2>4, <2>7, WritePasses, SMTT(20) DEF TypeOK
  <2>10. /\ Way(functors', outQueue', wire', frag, slot')
         /\ Under(functors', outQueue', wire', frag) \subseteq Underway \cup {c}
    <3>1. PICK q2, w2 : q2 = outQueue' /\ w2 = wire'
      BY Zenon
    <3>2. /\ Way(functors, q2, w2, frag, sl)
          /\ Under(functors, q2, w2, frag) \subseteq Under(functors, q, wire, frag)
      BY <2>8, <2>9, <3>1, WayPasses, ZenonT(30)
    <3> QED BY <1>1, <2>5, <2>8, <3>1, <3>2, ZenonT(30)
  <2>11. CASE HandleClose(Placed(c))
    <3>1. Occupants(Placed(c)) = Occupants(pending) \cup {c}
      BY PlacedOccupants, ZenonT(30) DEF TypedTable, TableInv
    <3>2. Occupants(Placed(c)) \subseteq Undone /\ Occupants(pending) \subseteq Occupants(Placed(c))
      BY <1>2, <3>1, TableIsUndone, ZenonT(30)
    <3>3. Finish(Occupants(Placed(c)), "closed", NoCall) /\ frag' = [frag EXCEPT !.fresh = FALSE]
      BY <2>11, ZenonT(30) DEF HandleClose
    <3> QED BY <1>3, <1>4, <2>10, <3>2, <3>3, CloseSettles, SMTT(20)
  <2>12. CASE UNCHANGED <<doneCount, how, by, frag>>
    <3>1. Finish({}, "closed", NoCall)
      BY <1>0, <2>12, NobodyDone, ZenonT(30)
    <3> QED BY <1>3, <1>4, <2>10, <2>12, <3>1, OthersSettle, ZenonT(30)
  <2> QED BY <2>9, <2>11, <2>12, ZenonT(30)
<1> QED BY <1>5, <1>6, ZenonT(30)

\* A response to a request under way ends the call whose request it answers, as
\* long as calls end by a response only.
LEMMA AnswerSettles ==
    ASSUME TypedTable, RouteInv, NEW c \in Underway, Release(slot[c], "reply", c),
           UNCHANGED <<pc, slot>>, frag' = NoFrag,
           Way(functors', outQueue', wire', frag', slot'),
           Under(functors', outQueue', wire', frag') \subseteq Underway \ {c}
    PROVE  RouteInv'
<1>1. c \in Calls /\ slot[c] \in Nat /\ Sent(c)
  BY Zenon DEF Underway, Under, TypedTable, TypeOK, RouteInv
<1>2. \A d \in Calls : Sent(d) => Sent(d)'
  BY Zenon DEF Sent
<1>3. \A d \in Under(functors', outQueue', wire', frag') : Sent(d)'
  BY Zenon DEF RouteInv, Sent
<1>4. CASE Quiet
  <2>1. Settled
    BY <1>4, Zenon DEF RouteInv
  <2>2. doneCount[c] = 0 /\ Issued(c)
    BY <1>1, <2>1, ZenonT(30) DEF Settled, Undone, Sent, Issued
  <2>3. Occupied(slot[c]) /\ pending[slot[c]] = c
    BY <1>1, <2>2, CallsAssumption, ZenonT(30) DEF TypedTable, TableInv, TableExact, Occupied
  <2>4. Finish({c}, "reply", c)
    BY <2>3, Zenon DEF Release
  <2>5. {c} \subseteq Undone
    BY <1>1, <2>2, ZenonT(30) DEF Undone
  <2>6. Under(functors', outQueue', wire', frag') \subseteq Undone \ {c}
    BY <2>1, Zenon DEF Settled
  <2>7. \A d \in {c} : c = d /\ Sent(d)'
    BY <1>1, <1>2, ZenonT(30)
  <2> QED BY <1>2, <1>3, <2>4, <2>5, <2>6, <2>7, Settles, ZenonT(30)
<1>5. CASE ~Quiet
  <2>1. PICK S : S \subseteq Undone /\ Finish(S, "reply", c)
    BY <1>1, ReleaseFinishes, ZenonT(30)
  <2> QED BY <1>2, <1>3, <1>5, <2>1, Settles, ZenonT(30)
<1> QED BY <1>4, <1>5, ZenonT(30)

\* Socket events.
LEMMA SocketRoute ==
    ASSUME TypedTable, RouteInv, Connected \/ ConnectionLost
    PROVE  RouteInv'
<1>0. TypeOK
  BY Zenon DEF TypedTable
<1>1. UNCHANGED <<pc, slot, functors>>
  BY Zenon DEF Connected, ConnectionLost, loopVars
<1>2. CASE ConnectionLost
  <2>1. Closes /\ Passed(outQueue, wire, outQueue', wire')
    BY <1>0, <1>2, CloseCloses, ZenonT(30) DEF ConnectionLost
  <2> QED BY <1>1, <2>1, SameFunctorsSettle, ZenonT(30)
<1>3. CASE Connected /\ outQueue = <<>>
  <2>1. UNCHANGED <<outQueue, wire>> /\ UNCHANGED <<doneCount, how, by, frag>>
    BY <1>3, ZenonT(30) DEF Connected, StayOpen
  <2>2. Ends /\ Passed(outQueue, wire, outQueue', wire')
    BY <1>0, <2>1, KeepEnds, KeepPasses, ZenonT(30)
  <2> QED BY <1>1, <2>2, SameFunctorsSettle, ZenonT(30)
<1>4. CASE Connected /\ outQueue # <<>>
  <2>1. outQueue \in Seq(Frame \cup {Heartbeat}) /\ FlushOutput(outQueue, pending, freeSlots)
    BY <1>0, <1>4, SMTT(20) DEF Connected, TypeOK
  <2>2. /\ Passed(outQueue, wire, outQueue', wire')
        /\ HandleClose(pending) \/ UNCHANGED <<doneCount, how, by, frag>>
    BY <1>4, <2>1, FlushPasses, ZenonT(30)
  <2>3. HandleClose(pending) => Closes
    BY Zenon DEF HandleClose, Closes
  <2> QED BY <1>0, <1>1, <2>2, <2>3, KeepEnds, SameFunctorsSettle, SMTT(20)
<1> QED BY <1>2, <1>3, <1>4, ZenonT(30)

LEMMA ReadRoute ==
    ASSUME TypedTable, RouteInv, HandleRead
    PROVE  RouteInv'
<1>0. TypeOK /\ Way(functors, outQueue, wire, frag, slot) /\ frag \in Fragment \cup {NoFrag}
  BY Zenon DEF TypedTable, RouteInv, TypeOK
<1>1. UNCHANGED <<pc, slot, functors, outQueue>>
  BY Zenon DEF HandleRead, ReadResponse, ReadPart, ReadGarbled, ReadRest, ReadMore, Reading, loopVars
<1>2. PICK w, g : w = wire' /\ g = frag'
  BY Zenon
<1>3. ASSUME NEW f \in wire, ReadResponse(f) PROVE RouteInv'
  <2>1. frag = NoFrag /\ g = NoFrag /\ w = wire \ {f} /\ Release(f.id, "reply", f.call)
    BY <1>2, <1>3, ZenonT(30) DEF ReadResponse
  <2>2. /\ Way(functors, outQueue, w, NoFrag, slot)
        /\ Under(functors, outQueue, w, NoFrag) \subseteq Under(functors, outQueue, wire, NoFrag)
        /\ f.call \in Under(functors, outQueue, wire, NoFrag)
        /\ f.call \notin Under(functors, outQueue, w, NoFrag)
        /\ f.id = slot[f.call]
    <3>1. Way(functors, outQueue, wire, NoFrag, slot)
      BY <1>0, <2>1, Zenon
    <3>2. Taken(wire, f, w)
      BY <1>3, <2>1, Zenon DEF Taken
    <3>3. LastCopy(functors, outQueue, wire, slot, f, w)
      BY <3>1, <3>2, WayRead, ZenonT(30)
    <3> QED BY <3>3, Zenon DEF LastCopy
  <2>3. PICK c : c = f.call
    BY Zenon
  <2>4. c \in Underway /\ Release(slot[c], "reply", c)
    BY <2>1, <2>2, <2>3, ZenonT(30) DEF Underway
  <2>5. Under(functors', outQueue', wire', frag') \subseteq Underway \ {c}
    BY <1>1, <1>2, <2>1, <2>2, <2>3, ZenonT(30) DEF Underway
  <2>6. Way(functors', outQueue', wire', frag', slot') /\ frag' = NoFrag
    BY <1>1, <1>2, <2>1, <2>2, ZenonT(30)
  <2> QED BY <1>1, <2>4, <2>5, <2>6, AnswerSettles, ZenonT(30)
<1>4. CASE ReadRest
  <2>1. frag.fresh /\ g = NoFrag /\ w = wire /\ Release(frag.id, "reply", frag.call)
    BY <1>2, <1>4, ZenonT(30) DEF ReadRest
  <2>2. PICK c \in Calls : c = frag.call
    BY <1>0, <2>1, Records, ZenonT(30)
  <2>3. frag.id = slot[c] /\ OnceOf(functors, outQueue, wire, frag, c)
    BY <1>0, <2>1, <2>2, ZenonT(30) DEF Way, Named
  <2>4. c \in Underway
    BY <2>2, Zenon DEF Underway, Under
  <2>5. /\ Way(functors, outQueue, wire, g, slot)
        /\ Under(functors, outQueue, wire, g) \subseteq Under(functors, outQueue, wire, frag)
    <3>1. g \in Fragment \cup {NoFrag} /\ g.call = NoCall /\ ~g.fresh
      BY <2>1, Zenon DEF NoFrag
    <3> QED BY <1>0, <3>1, WayFragment, ZenonT(30)
  <2>6. c \notin Under(functors, outQueue, wire, g)
    BY <2>1, <2>2, <2>3, Records, ZenonT(30) DEF OnceOf, Under
  <2>7. Under(functors', outQueue', wire', frag') \subseteq Underway \ {c}
    BY <1>1, <1>2, <2>1, <2>5, <2>6, ZenonT(30) DEF Underway
  <2>8. Way(functors', outQueue', wire', frag', slot') /\ frag' = NoFrag
    BY <1>1, <1>2, <2>1, <2>5, ZenonT(30)
  <2> QED BY <1>1, <2>1, <2>2, <2>3, <2>4, <2>7, <2>8, AnswerSettles, ZenonT(30)
<1>5. ASSUME NEW f \in wire, ReadPart(f) PROVE RouteInv'
  <2>1. /\ frag = NoFrag /\ w = wire \ {f} /\ g = [call |-> f.call, id |-> f.id, fresh |-> TRUE]
        /\ UNCHANGED <<doneCount, how, by>>
    BY <1>2, <1>5, ZenonT(30) DEF ReadPart, Undisturbed
  <2>2. /\ Way(functors, outQueue, w, g, slot)
        /\ Under(functors, outQueue, w, g) \subseteq Under(functors, outQueue, wire, NoFrag)
    <3>1. Way(functors, outQueue, wire, NoFrag, slot)
      BY <1>0, <2>1, ZenonT(30)
    <3>2. Taken(wire, f, w)
      BY <1>5, <2>1, ZenonT(30) DEF Taken
    <3> QED BY <2>1, <3>1, <3>2, WayPart, SMTT(20)
  <2>3. Way(functors', outQueue', wire', frag', slot')
    BY <1>1, <1>2, <2>2, ZenonT(30)
  <2>4. Under(functors', outQueue', wire', frag') \subseteq Underway /\ frag'.fresh
    <3>1. Under(functors', outQueue', wire', frag') \subseteq Underway
      BY <1>1, <1>2, <2>1, <2>2, ZenonT(30) DEF Underway
    <3>2. frag'.fresh
      BY <1>2, <2>1, SMTT(20)
    <3> QED BY <3>1, <3>2, ZenonT(30)
  <2>5. (\A d \in Calls : Sent(d) => Sent(d)') /\ (\A d \in Underway : Sent(d)')
    BY <1>1, ZenonT(30) DEF Sent, RouteInv
  <2>6. Finish({}, "closed", NoCall)
    BY <1>0, <2>1, NobodyDone, ZenonT(30)
  <2>7. Quiet => Under(functors', outQueue', wire', frag') \subseteq Undone \ {}
    BY <2>4, ZenonT(30) DEF RouteInv, Settled
  <2> QED BY <2>3, <2>4, <2>5, <2>6, <2>7, Settles, SMTT(20)
<1>6. ASSUME NEW lost, ReadGarbled(lost) PROVE RouteInv'
  <2>1. ~Quiet
    BY <1>6, Zenon DEF ReadGarbled, RouteInv, Settled
  <2>2. w \subseteq wire /\ frag # NoFrag /\ ~frag.fresh /\ g \in {frag, NoFrag, [frag EXCEPT !.id = 0]}
    BY <1>2, <1>6, ZenonT(30) DEF ReadGarbled
  <2>3. frag \in Fragment /\ frag.id \in Nat
    BY <1>0, <2>2, ZenonT(30) DEF Fragment
  <2>4. g \in Fragment \cup {NoFrag} /\ g.call \in {frag.call, NoCall} /\ ~g.fresh
    <3>1. CASE g = frag
      BY <2>2, <2>3, <3>1, ZenonT(30)
    <3>2. CASE g = NoFrag
      BY <3>2, ZenonT(30) DEF NoFrag
    <3>3. CASE g = [frag EXCEPT !.id = 0]
      BY <2>2, <2>3, <3>3, ZenonT(30) DEF Fragment
    <3> QED BY <2>2, <3>1, <3>2, <3>3, ZenonT(30)
  <2>5. /\ Way(functors, outQueue, w, frag, slot)
        /\ Under(functors, outQueue, w, frag) \subseteq Under(functors, outQueue, wire, frag)
    <3>1. Passed(outQueue, wire, outQueue, w)
      BY <1>0, <2>2, PassedNothing, ZenonT(30) DEF TypeOK
    <3> QED BY <1>0, <3>1, WayPasses, ZenonT(30)
  <2>6. /\ Way(functors, outQueue, w, g, slot)
        /\ Under(functors, outQueue, w, g) \subseteq Under(functors, outQueue, w, frag)
    BY <2>4, <2>5, WayFragment, ZenonT(30)
  <2>7. Way(functors', outQueue', wire', frag', slot')
    BY <1>1, <1>2, <2>6, ZenonT(30)
  <2>8. Under(functors', outQueue', wire', frag') \subseteq Underway
    BY <1>1, <1>2, <2>5, <2>6, ZenonT(30) DEF Underway
  <2>9. (\A d \in Calls : Sent(d) => Sent(d)') /\ (\A d \in Underway : Sent(d)')
    BY <1>1, Zenon DEF Sent, RouteInv
  <2>10. \E S, b : S \subseteq Undone /\ Finish(S, "reply", b)
    <3>1. CASE UNCHANGED <<doneCount, how, by>>
      <4>1. Finish({}, "reply", NoCall) /\ {} \subseteq Undone
        BY <1>0, <3>1, NobodyDone, ZenonT(30)
      <4> QED BY <4>1, Zenon
    <3>2. CASE Release(frag.id, "reply", frag.call)
      BY <2>3, <3>2, ReleaseFinishes, ZenonT(30)
    <3> QED BY <1>6, <3>1, <3>2, ZenonT(30) DEF ReadGarbled, Undisturbed
  <2> QED BY <2>1, <2>7, <2>8, <2>9, <2>10, Settles, ZenonT(30)
<1>7. CASE ReadMore
  <2>1. UNCHANGED <<outQueue, wire>> /\ UNCHANGED <<doneCount, how, by, frag>>
    BY <1>1, <1>7, Zenon DEF ReadMore, Undisturbed
  <2>2. Ends /\ Passed(outQueue, wire, outQueue', wire')
    BY <1>0, <2>1, KeepEnds, KeepPasses, ZenonT(30)
  <2> QED BY <1>1, <2>2, SameFunctorsSettle, Zenon
<1> QED BY <1>3, <1>4, <1>5, <1>6, <1>7, ZenonT(30) DEF HandleRead

\* RpcChannel.h says that responses are matched by request_id (dispatchResponse
\* looks the call up by it): for any number of calls, and in whatever order they are
\* sent, answered and their slots reused, as long as calls end by a response only,
\* each response ends the call whose request it answers.
THEOREM ResponsesMatched == Spec => []MatchedById
<1>1. Init => RouteInv
  <2> SUFFICES ASSUME Init PROVE RouteInv
    BY Zenon
  <2>1. /\ functors = <<StartFunctor>> /\ outQueue = <<>> /\ wire = {} /\ frag = NoFrag
        /\ functors \in Seq(Functor) /\ outQueue \in Seq(Frame \cup {Heartbeat})
    BY DEF Init, Functor
  <2>2. Len(functors) = 1 /\ Len(outQueue) = 0 /\ functors[1].op = "start"
    BY <2>1, Zenon DEF StartFunctor
  <2>3. \A i \in 1..Len(functors) : functors[i].op # "send"
    BY <2>2, SMTT(20)
  <2>4. \A i \in 1..Len(outQueue) : FALSE
    BY <2>2, SMTT(20)
  <2>5. Way(functors, outQueue, wire, frag, slot)
    BY <2>1, <2>3, <2>4, Records, ZenonT(30)
       DEF Way, WayType, OnceOf, Named, Sends, InFunctors, InQueue, OnWire
  <2>6. Underway = {}
    BY <2>1, <2>3, <2>4, Records, ZenonT(30) DEF Underway, Under, InFunctors, Sends, InQueue, OnWire
  <2>7. \A c \in Calls : doneCount[c] = 0 /\ how[c] = "none"
    BY Zenon DEF Init
  <2> QED BY <2>1, <2>5, <2>6, <2>7, ZenonT(30) DEF RouteInv, HowDone, Settled
<1>2. TypedTable /\ RouteInv /\ [Next]_vars => RouteInv'
  <2> SUFFICES ASSUME TypedTable, RouteInv, [Next]_vars PROVE RouteInv'
    BY Zenon
  <2>1. CASE AppStep \/ Stop
    BY <2>1, AppRoute, Zenon
  <2>2. CASE LoopStep
    BY <2>2, FunctorRoute, LoopCallRoute, TimerRoute, SocketRoute, ReadRoute, SMTT(20) DEF LoopStep
  <2>3. CASE UNCHANGED vars
    <3>1. UNCHANGED <<pc, slot, functors>> /\ UNCHANGED <<outQueue, wire>>
          /\ UNCHANGED <<doneCount, how, by, frag>>
      BY <2>3, Zenon DEF vars, callVars, ioVars, loopVars
    <3>2. Ends /\ Passed(outQueue, wire, outQueue', wire')
      BY <3>1, KeepEnds, KeepPasses, ZenonT(30) DEF TypedTable
    <3> QED BY <3>1, <3>2, SameFunctorsSettle, Zenon
  <2> QED BY <2>1, <2>2, <2>3, Zenon DEF Next
<1>3. RouteInv => MatchedById
  BY Zenon DEF RouteInv, Settled, Quiet, MatchedById
<1> QED BY <1>1, <1>2, <1>3, TypedTableHolds, PTL DEF Spec
==============================================================================
