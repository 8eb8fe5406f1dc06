------------------------- MODULE TcpConnectionProofs -------------------------
(***************************************************************************)
(* The byte stream of a connection, for every sequence of messages, every  *)
(* size of the kernel's buffers and every way of cutting the stream into   *)
(* writes and reads.                                                       *)
(*                                                                         *)
(* The argument names the stream: S holds the units of every frame that    *)
(* sendInLoop took, and E[k] is the place in S where the k-th frame ends.  *)
(* The receiver's input, the kernel's buffer and the output of the sender  *)
(* are three consecutive parts of S, and the first begins where the last   *)
(* message that was delivered ends.                                        *)
(***************************************************************************)
EXTENDS TcpConnection, SequenceTheorems, WellFoundedInduction, TLAPS

-----------------------------------------------------------------------------
(* Naturals *)

Below == {p \in Nat \X Nat : p[1] < p[2]}

\* Induction over the naturals, with a set in the place of a predicate.
LEMMA Induction ==
    ASSUME NEW T, 0 \in T, \A n \in Nat : n \in T => n + 1 \in T
    PROVE  Nat \subseteq T
<1> SUFFICES ASSUME Nat \ T # {} PROVE FALSE
  BY Zenon
<1>1. IsWellFoundedOn(Below, Nat)
  BY NatLessThanWellFounded, Zenon DEF OpToRel, Below
<1>2. PICK x \in Nat \ T : \A y \in Nat \ T : <<y, x>> \notin Below
  BY <1>1, WFMin, Zenon
<1>3. x # 0 /\ x - 1 \in Nat /\ (x - 1) + 1 = x
  BY <1>2
<1>4. x - 1 \notin T
  BY <1>2, <1>3, Zenon
<1>5. <<x - 1, x>> \in Nat \X Nat /\ <<x - 1, x>>[1] < <<x - 1, x>>[2]
  BY <1>2, <1>3
<1>6. <<x - 1, x>> \in Below
  BY <1>5, Zenon DEF Below
<1> QED BY <1>2, <1>3, <1>4, <1>6, Zenon

-----------------------------------------------------------------------------
(* Parts of a stream *)

\* q holds the units x + 1 to y of S.
Part(q, S, x, y) ==
    /\ q \in Seq(Int) /\ Len(q) = y - x
    /\ \A i \in 1..Len(q) : q[i] = S[x + i]

\* Facts of arithmetic.
LEMMA AtTheEnd == \A n \in Nat : \A k \in 0..n : ~(k < n) => k = n
OBVIOUS

LEMMA FirstThree == \A l \in Nat : l >= 3 => 1 \in 1..l /\ 2 \in 1..l /\ 3 \in 1..l
OBVIOUS

LEMMA OneFurther ==
    \A e, n, j, m, l \in Nat : e + (n - j) <= m /\ l > 0 => e + ((n + 1) - j) <= m + l
OBVIOUS

LEMMA EndsAfter == \A x, y, L \in Nat : y - x = 3 + L => y = x + (3 + L)
OBVIOUS

LEMMA BeforeNext ==
    \A e, x, l, y, z \in Nat : e = x + l /\ x + l <= y /\ y + 1 <= z => e < z
OBVIOUS

LEMMA PartLength ==
    ASSUME NEW S, NEW x, NEW y, NEW q, Part(q, S, x, y)
    PROVE  q \in Seq(Int) /\ Len(q) \in Nat
BY DEF Part

LEMMA PartsJoin ==
    ASSUME NEW S, NEW x \in Nat, NEW y \in Nat, NEW z \in Nat,
           NEW p, NEW q, Part(p, S, x, y), Part(q, S, y, z)
    PROVE  Part(p \o q, S, x, z)
<1>1. PICK m \in Nat, n \in Nat : m = Len(p) /\ n = Len(q) /\ y = x + m /\ z = y + n
  BY DEF Part
<1>2. /\ p \o q \in Seq(Int) /\ Len(p \o q) = m + n
      /\ \A i \in 1..(m + n) : (p \o q)[i] = IF i <= m THEN p[i] ELSE q[i - m]
  <2>1. p \in Seq(Int) /\ q \in Seq(Int)
    BY Zenon DEF Part
  <2> QED BY <1>1, <2>1, ConcatProperties, SMTT(20)
<1>3. ASSUME NEW i \in 1..(m + n) PROVE (p \o q)[i] = S[x + i]
  <2>1. CASE i <= m
    <3>1. i \in 1..Len(p)
      BY <1>1, <2>1
    <3> QED BY <1>2, <2>1, <3>1, Zenon DEF Part
  <2>2. CASE ~(i <= m)
    <3>1. i - m \in 1..Len(q) /\ y + (i - m) = x + i
      BY <1>1, <2>2
    <3>2. q[i - m] = S[y + (i - m)]
      BY <3>1, Zenon DEF Part
    <3> QED BY <1>2, <2>2, <3>1, <3>2, Zenon
  <2> QED BY <2>1, <2>2, Zenon
<1> QED BY <1>1, <1>2, <1>3, SMTT(20) DEF Part

LEMMA CutOff ==
    ASSUME NEW q \in Seq(Int), NEW n \in Nat, n = Len(q), NEW k \in 0..n
    PROVE  /\ SubSeq(q, 1, k) \in Seq(Int) /\ Len(SubSeq(q, 1, k)) = k
           /\ \A i \in 1..k : SubSeq(q, 1, k)[i] = q[i] /\ i \in 1..n
           /\ SubSeq(q, k + 1, n) \in Seq(Int) /\ Len(SubSeq(q, k + 1, n)) = n - k
           /\ \A i \in 1..(n - k) : SubSeq(q, k + 1, n)[i] = q[k + i] /\ k + i \in 1..n
<1>1. SubSeq(q, 1, k) \in Seq(Int) /\ Len(SubSeq(q, 1, k)) = k
  OBVIOUS
<1>2. \A i \in 1..k : SubSeq(q, 1, k)[i] = q[i]
  OBVIOUS
<1>3. \A i \in 1..k : i \in 1..n
  OBVIOUS
<1>4. SubSeq(q, k + 1, n) \in Seq(Int) /\ Len(SubSeq(q, k + 1, n)) = n - k
  OBVIOUS
<1>5. \A i \in 1..(n - k) : SubSeq(q, k + 1, n)[i] = q[k + i]
  OBVIOUS
<1>6. \A i \in 1..(n - k) : k + i \in 1..n
  OBVIOUS
<1> QED BY <1>1, <1>2, <1>3, <1>4, <1>5, <1>6, Zenon

LEMMA PartSplits ==
    ASSUME NEW S, NEW x \in Nat, NEW y \in Nat, NEW q, Part(q, S, x, y), NEW k \in 0..Len(q)
    PROVE  /\ Part(SubSeq(q, 1, k), S, x, x + k)
           /\ Part(SubSeq(q, k + 1, Len(q)), S, x + k, y)
           /\ x + k \in Nat /\ x + k <= y
<1>0. q \in Seq(Int)
  BY Zenon DEF Part
<1>1. PICK n \in Nat : n = Len(q) /\ y = x + n /\ k \in 0..n
  BY DEF Part
<1>2. /\ SubSeq(q, 1, k) \in Seq(Int) /\ Len(SubSeq(q, 1, k)) = k
      /\ \A i \in 1..k : SubSeq(q, 1, k)[i] = q[i] /\ i \in 1..n
  BY <1>1, <1>0, CutOff, Zenon
<1>3. /\ SubSeq(q, k + 1, n) \in Seq(Int) /\ Len(SubSeq(q, k + 1, n)) = n - k
      /\ \A i \in 1..(n - k) : SubSeq(q, k + 1, n)[i] = q[k + i] /\ k + i \in 1..n
  BY <1>1, <1>0, CutOff, ZenonT(30)
<1>4. \A i \in 1..n : q[i] = S[x + i]
  BY <1>1, Zenon DEF Part
<1>5. Part(SubSeq(q, 1, k), S, x, x + k)
  BY <1>2, <1>4, SMTT(20) DEF Part
<1>6. ASSUME NEW i \in 1..(n - k) PROVE SubSeq(q, k + 1, n)[i] = S[(x + k) + i]
  <2>1. q[k + i] = S[x + (k + i)]
    BY <1>3, <1>4, Zenon
  <2>2. x + (k + i) = (x + k) + i
    BY <1>1
  <2> QED BY <1>3, <2>1, <2>2, Zenon
<1>7. y - (x + k) = n - k
  BY <1>1
<1>8. Part(SubSeq(q, k + 1, n), S, x + k, y)
  BY <1>3, <1>6, <1>7, Zenon DEF Part
<1>9. x + k \in Nat /\ x + k <= y
  BY <1>1
<1> QED BY <1>1, <1>5, <1>8, <1>9, Zenon

\* Buffer::retrieve.
LEMMA PartRetrieved ==
    ASSUME NEW S, NEW x \in Nat, NEW y \in Nat, NEW q, Part(q, S, x, y), NEW k \in 0..Len(q)
    PROVE  Part(Retrieve(q, k), S, x + k, y) /\ Retrieve(q, k) = SubSeq(q, k + 1, Len(q))
<1>1. Retrieve(q, k) = SubSeq(q, k + 1, Len(q))
  <2>1. CASE k < Len(q)
    <3>1. Len(q) \in Nat /\ ~(k >= Len(q))
      BY <2>1 DEF Part
    <3> QED BY <3>1, Zenon DEF Retrieve
  <2>2. CASE ~(k < Len(q))
    <3>1. k = Len(q) /\ Len(q) \in Nat
      BY <2>2, PartLength, AtTheEnd, Zenon
    <3>2. SubSeq(q, Len(q) + 1, Len(q)) = <<>>
      BY <3>1 DEF Part
    <3> QED BY <3>1, <3>2, Zenon DEF Retrieve
  <2> QED BY <2>1, <2>2, Zenon
<1> QED BY <1>1, PartSplits, Zenon

\* The stream grows at its end only.
LEMMA PartOfLonger ==
    ASSUME NEW S, NEW R, NEW x \in Nat, NEW y \in Nat, NEW q, Part(q, S, x, y),
           \A i \in 1..y : R[i] = S[i]
    PROVE  Part(q, R, x, y)
<1>1. ASSUME NEW i \in 1..Len(q) PROVE q[i] = R[x + i]
  <2>1. x + i \in 1..y
    BY DEF Part
  <2> QED BY <2>1, Zenon DEF Part
<1> QED BY <1>1, Zenon DEF Part

-----------------------------------------------------------------------------
(* Frames, and the stream that they make *)

\* The frame and the message of the i-th message of the script s.
FrameOf(s, i) == EncodeFrame(i, Bodies[s[i]])
MessageOf(s, i) == [id |-> i, body |-> Bodies[s[i]]]

\* f is the frame of message i with the body b, unless b is too long.
Framed(f, i, b) ==
    /\ f \in Seq(Int) /\ b \in Seq(Int) /\ Len(b) \in Nat
    /\ f # <<>> => /\ Len(f) = 3 + Len(b) /\ Len(b) <= MaxBodyLen
                   /\ f[1] = Magic /\ f[2] = i /\ f[3] = Len(b)
                   /\ \A j \in 1..Len(b) : f[3 + j] = b[j]

\* RpcFramer::encode.
LEMMA FrameFacts ==
    ASSUME NEW s \in Scripts, NEW i \in 1..Len(s)
    PROVE  Framed(FrameOf(s, i), i, Bodies[s[i]])
<1>0. PICK f, b : f = FrameOf(s, i) /\ b = Bodies[s[i]]
  BY Zenon
<1>1. b \in Seq(Int) /\ Len(b) \in Nat /\ i \in Int
  <2>1. s \in Seq(1..Len(Bodies)) /\ Bodies \in Seq(Seq(Int))
    BY ConnectionAssumption, Zenon
  <2>2. s[i] \in 1..Len(Bodies)
    BY <2>1, SMTT(20)
  <2>3. Bodies[s[i]] \in Seq(Int)
    BY <2>1, <2>2, SMTT(20)
  <2> QED BY <1>0, <2>3
<1>2. CASE Len(b) > MaxBodyLen
  <2>1. f = <<>>
    BY <1>0, <1>2, Zenon DEF FrameOf, EncodeFrame
  <2> QED BY <1>0, <1>1, <2>1 DEF Framed
<1>3. CASE ~(Len(b) > MaxBodyLen)
  <2>1. f = <<Magic, i, Len(b)>> \o b /\ Len(b) <= MaxBodyLen
    <3>1. Len(b) <= MaxBodyLen
      BY <1>1, <1>3, FramerAssumption
    <3>2. f = <<Magic, i, Len(b)>> \o b
      BY <1>0, <1>3, Zenon DEF FrameOf, EncodeFrame, EncodeHeader
    <3> QED BY <3>1, <3>2, Zenon
  <2>2. PICK h : h = <<Magic, i, Len(b)>>
    BY Zenon
  <2>3. h \in Seq(Int) /\ Len(h) = 3 /\ h[1] = Magic /\ h[2] = i /\ h[3] = Len(b)
    BY <1>1, <2>2, FramerAssumption
  <2>4. /\ f \in Seq(Int) /\ Len(f) = 3 + Len(b)
        /\ \A j \in 1..(3 + Len(b)) : f[j] = IF j <= 3 THEN h[j] ELSE b[j - 3]
    BY <1>1, <2>1, <2>2, <2>3, ConcatProperties, SMTT(20)
  <2>5. f[1] = Magic /\ f[2] = i /\ f[3] = Len(b)
    <3>1. 1 \in 1..(3 + Len(b)) /\ 2 \in 1..(3 + Len(b)) /\ 3 \in 1..(3 + Len(b))
      BY <1>1
    <3> QED BY <2>3, <2>4, <3>1
  <2>6. ASSUME NEW j \in 1..Len(b) PROVE f[3 + j] = b[j]
    <3>1. 3 + j \in 1..(3 + Len(b)) /\ ~(3 + j <= 3) /\ (3 + j) - 3 = j
      BY <1>1
    <3> QED BY <2>4, <3>1, Zenon
  <2>7. Framed(f, i, b)
    BY <1>1, <2>1, <2>4, <2>5, <2>6, Zenon DEF Framed
  <2> QED BY <1>0, <2>7, Zenon
<1> QED BY <1>2, <1>3, Zenon

\* S is the stream of the messages ids, and E their ends in it.
Laid(s, ids, S, E) ==
    /\ S \in Seq(Int) /\ ids \in Seq(1..Len(s))
    /\ E \in [0..Len(ids) -> Nat] /\ E[0] = 0 /\ E[Len(ids)] = Len(S)
    /\ \A k \in 1..Len(ids) : FrameOf(s, ids[k]) # <<>> /\ Part(FrameOf(s, ids[k]), S, E[k - 1], E[k])
    /\ \A j, k \in 0..Len(ids) : j <= k => E[j] + (k - j) <= E[k]

LEMMA LaidTypes ==
    ASSUME NEW s, NEW ids, NEW S, NEW E, Laid(s, ids, S, E)
    PROVE  /\ Len(ids) \in Nat /\ Len(S) \in Nat
           /\ \A k \in 0..Len(ids) : E[k] \in Nat
           /\ \A k \in 1..Len(ids) : /\ ids[k] \in 1..Len(s) /\ FrameOf(s, ids[k]) # <<>>
                                     /\ Part(FrameOf(s, ids[k]), S, E[k - 1], E[k])
           /\ \A j, k \in 0..Len(ids) : j <= k => E[j] + (k - j) <= E[k]
           /\ E[Len(ids)] = Len(S)
<1>1. S \in Seq(Int) /\ ids \in Seq(1..Len(s)) /\ E \in [0..Len(ids) -> Nat]
  BY Zenon DEF Laid
<1>2. \A k \in 1..Len(ids) : ids[k] \in 1..Len(s)
  BY <1>1
<1>3. Len(ids) \in Nat /\ Len(S) \in Nat /\ \A k \in 0..Len(ids) : E[k] \in Nat
  BY <1>1, LenProperties, Zenon
<1> QED BY <1>2, <1>3, Zenon DEF Laid

\* The messages msgs were delivered; the units in, w and out are on their way, and
\* in holds no whole message.
Along(s, ids, msgs, in, w, out, S, E, b, c) ==
    /\ Laid(s, ids, S, E)
    /\ msgs \in Seq([id : Int, body : Seq(Int)]) /\ Len(msgs) <= Len(ids)
    /\ \A k \in 1..Len(msgs) : msgs[k] = MessageOf(s, ids[k])
    /\ Part(in, S, E[Len(msgs)], b) /\ Part(w, S, b, c) /\ Part(out, S, c, Len(S))
    /\ Len(msgs) < Len(ids) => b < E[Len(msgs) + 1]

Flow(s, ids, msgs, in, w, out) ==
    \E S, E : \E b, c \in Nat : Along(s, ids, msgs, in, w, out, S, E, b, c)

\* R and F are S and E with the frame f of message i at the end.
Longer(s, ids, S, E, i, f, R, F) ==
    /\ Laid(s, Append(ids, i), R, F)
    /\ \A k \in 0..Len(ids) : F[k] = E[k]
    /\ F[Len(ids) + 1] = Len(R) /\ Len(R) = Len(S) + Len(f)
    /\ \A k \in 1..Len(S) : R[k] = S[k]
    /\ Part(f, R, Len(S), Len(R))

LEMMA LaidMore ==
    ASSUME NEW s \in Scripts, NEW ids, NEW S, NEW E, Laid(s, ids, S, E),
           NEW i \in 1..Len(s), NEW f, f = FrameOf(s, i), f # <<>>
    PROVE  \E R, F : Longer(s, ids, S, E, i, f, R, F)
<1>1. PICK n \in Nat, m \in Nat : n = Len(ids) /\ m = Len(S)
  BY DEF Laid
<1>2. PICK l \in Nat : l = Len(f) /\ l > 0 /\ f \in Seq(Int)
  <2>1. f \in Seq(Int) /\ Len(f) = 3 + Len(Bodies[s[i]]) /\ Len(Bodies[s[i]]) \in Nat
    BY FrameFacts, Zenon DEF Framed
  <2> QED BY <2>1
<1>3. PICK R : R = S \o f
  BY Zenon
<1>4. /\ R \in Seq(Int) /\ Len(R) = m + l
      /\ \A k \in 1..(m + l) : R[k] = IF k <= m THEN S[k] ELSE f[k - m]
  <2>1. S \in Seq(Int)
    BY Zenon DEF Laid
  <2> QED BY <1>1, <1>2, <1>3, <2>1, ConcatProperties, SMTT(20)
<1>5. \A k \in 1..m : R[k] = S[k]
  <2> SUFFICES ASSUME NEW k \in 1..m PROVE R[k] = S[k]
    BY Zenon
  <2>1. k \in 1..(m + l) /\ k <= m
    BY <1>2
  <2> QED BY <1>4, <2>1, Zenon
<1>6. Part(f, R, m, m + l)
  <2>1. ASSUME NEW k \in 1..l PROVE f[k] = R[m + k]
    <3>1. m + k \in 1..(m + l) /\ ~(m + k <= m) /\ (m + k) - m = k
      BY <1>1, <1>2, SMTT(20)
    <3> QED BY <1>4, <3>1, Zenon
  <2>2. (m + l) - m = l
    BY <1>1, <1>2
  <2> QED BY <1>2, <2>1, <2>2, Zenon DEF Part
<1>7. /\ Append(ids, i) \in Seq(1..Len(s)) /\ Len(Append(ids, i)) = n + 1
      /\ Append(ids, i)[n + 1] = i /\ \A k \in 1..n : Append(ids, i)[k] = ids[k]
  <2>1. ids \in Seq(1..Len(s))
    BY Zenon DEF Laid
  <2> QED BY <1>1, <2>1, AppendProperties
<1> DEFINE is == Append(ids, i)
<1> HIDE DEF is
<1>8. /\ is \in Seq(1..Len(s)) /\ Len(is) = n + 1
       /\ is[n + 1] = i /\ \A k \in 1..n : is[k] = ids[k]
  BY <1>7, Zenon DEF is
<1>9. PICK F : F = [k \in 0..(n + 1) |-> IF k = n + 1 THEN m + l ELSE E[k]]
  BY Zenon
<1>10. \A k \in 0..n : k \in 0..(n + 1) /\ k # n + 1 /\ F[k] = E[k] /\ E[k] \in Nat
  <2>1. \A k \in 0..n : E[k] \in Nat
    BY <1>1, LaidTypes, Zenon
  <2>2. \A k \in 0..n : k \in 0..(n + 1) /\ k # n + 1
    BY <1>1, SMTT(20)
  <2>3. \A k \in 0..n : F[k] = E[k]
    BY <1>9, <2>2, Zenon
  <2> QED BY <2>1, <2>2, <2>3, Zenon
<1>11. n + 1 \in 0..(n + 1) /\ F[n + 1] = m + l /\ E[n] = m /\ 0 \in 0..n /\ n \in 0..n
  <2>1. E[n] = m
    <3>1. E[Len(ids)] = Len(S)
      BY Zenon DEF Laid
    <3> QED BY <1>1, <3>1, Zenon
  <2>2. n + 1 \in 0..(n + 1) /\ 0 \in 0..n /\ n \in 0..n
    BY <1>1
  <2>3. F[n + 1] = m + l
    BY <1>9, <2>2, Zenon
  <2> QED BY <2>1, <2>2, <2>3, Zenon
<1>12. F \in [0..(n + 1) -> Nat] /\ F[0] = 0
  <2>1. \A k \in 0..(n + 1) : k = n + 1 \/ k \in 0..n
    BY <1>1
  <2>2. E[0] = 0
    BY Zenon DEF Laid
  <2>3. ASSUME NEW k \in 0..(n + 1) PROVE F[k] \in Nat
    <3>1. m + l \in Nat
      BY <1>1, <1>2
    <3> QED BY <1>10, <1>11, <2>1, <3>1, Zenon
  <2> QED BY <1>9, <1>10, <1>11, <2>2, <2>3, Zenon
<1>13. ASSUME NEW k \in 1..(n + 1)
       PROVE  FrameOf(s, is[k]) # <<>> /\ Part(FrameOf(s, is[k]), R, F[k - 1], F[k])
  <2>1. CASE k = n + 1
    <3>1. k - 1 = n
      BY <2>1
    <3> QED BY <1>6, <1>8, <1>10, <1>11, <2>1, <3>1, Zenon
  <2>2. CASE k # n + 1
    <3>1. k \in 1..n /\ k \in 0..n /\ k - 1 \in 0..n
      BY <1>1, <2>2
    <3>2. FrameOf(s, ids[k]) # <<>> /\ Part(FrameOf(s, ids[k]), S, E[k - 1], E[k])
      BY <1>1, <3>1, Zenon DEF Laid
    <3>3. E[k - 1] \in Nat /\ E[k] \in Nat /\ F[k - 1] = E[k - 1] /\ F[k] = E[k]
      BY <1>10, <3>1, Zenon
    <3>4. E[k] <= m
      <4>1. E[k] + (n - k) <= E[n]
        BY <1>1, <1>11, <3>1, SMTT(20) DEF Laid
      <4> QED BY <1>11, <3>1, <3>3, <4>1, SMTT(20)
    <3>5. \A j \in 1..E[k] : R[j] = S[j]
      BY <1>1, <1>5, <3>3, <3>4, SMTT(20)
    <3>6. Part(FrameOf(s, ids[k]), R, E[k - 1], E[k])
      BY <3>2, <3>3, <3>5, PartOfLonger, Zenon
    <3> QED BY <1>8, <3>1, <3>2, <3>3, <3>6, Zenon
  <2> QED BY <2>1, <2>2, Zenon
<1>14. ASSUME NEW j \in 0..(n + 1), NEW k \in 0..(n + 1), j <= k PROVE F[j] + (k - j) <= F[k]
  <2>1. CASE k = n + 1 /\ j = n + 1
    BY <1>1, <1>2, <1>11, <2>1, SMTT(20)
  <2>2. CASE k = n + 1 /\ j # n + 1
    <3>1. j \in 0..n /\ j <= n
      BY <1>1, <2>2
    <3>2. E[j] + (n - j) <= m /\ E[j] \in Nat /\ F[j] = E[j]
      BY <1>1, <1>10, <1>11, <3>1, ZenonT(30) DEF Laid
    <3>3. PICK e \in Nat : e = E[j] /\ e + (n - j) <= m
      BY <3>2, Zenon
    <3>4. e + ((n + 1) - j) <= m + l
      <4>1. j \in Nat
        BY <3>1
      <4> QED BY <1>2, <3>3, <4>1, OneFurther, Zenon
    <3> QED BY <1>11, <2>2, <3>2, <3>3, <3>4, Zenon
  <2>3. CASE k # n + 1
    <3>1. j \in 0..n /\ k \in 0..n
      BY <1>1, <1>14, <2>3, SMTT(20)
    <3>2. E[j] + (k - j) <= E[k]
      BY <1>1, <1>14, <3>1, Zenon DEF Laid
    <3> QED BY <1>10, <3>1, <3>2, Zenon
  <2> QED BY <2>1, <2>2, <2>3, Zenon
<1>15. Laid(s, is, R, F)
  BY <1>4, <1>11, <1>12, <1>13, <1>14, <1>8, ZenonT(30) DEF Laid
<1>16. /\ Laid(s, Append(ids, i), R, F)
       /\ \A k \in 0..Len(ids) : F[k] = E[k]
       /\ F[Len(ids) + 1] = Len(R) /\ Len(R) = Len(S) + Len(f)
       /\ \A k \in 1..Len(S) : R[k] = S[k]
       /\ Part(f, R, Len(S), Len(R))
  BY <1>1, <1>2, <1>4, <1>5, <1>6, <1>10, <1>11, <1>15, SMTT(20) DEF is
<1> QED BY <1>16, Zenon DEF Longer

\* sendInLoop takes a message: its frame follows what is in the output.
LEMMA FlowTakes ==
    ASSUME NEW s \in Scripts, NEW ids, NEW msgs, NEW in, NEW w, NEW out,
           Flow(s, ids, msgs, in, w, out),
           NEW i \in 1..Len(s), NEW f, f = FrameOf(s, i), f # <<>>
    PROVE  Flow(s, Append(ids, i), msgs, in, w, out \o f)
<1>0. PICK S, E, b, c : b \in Nat /\ c \in Nat /\ Along(s, ids, msgs, in, w, out, S, E, b, c)
  BY Zenon DEF Flow
<1>1. /\ b \in Nat /\ c \in Nat /\ Laid(s, ids, S, E)
      /\ msgs \in Seq([id : Int, body : Seq(Int)]) /\ Len(msgs) <= Len(ids)
      /\ \A j \in 1..Len(msgs) : msgs[j] = MessageOf(s, ids[j])
      /\ Part(in, S, E[Len(msgs)], b) /\ Part(w, S, b, c) /\ Part(out, S, c, Len(S))
      /\ Len(msgs) < Len(ids) => b < E[Len(msgs) + 1]
  BY <1>0, Zenon DEF Along
<1>2. PICK R, F : Longer(s, ids, S, E, i, f, R, F)
  <2>1. Laid(s, ids, S, E)
    BY <1>1, Zenon
  <2> QED BY <2>1, LaidMore, Zenon
<1>3. PICK n \in Nat, d \in Nat, m \in Nat, l \in Nat :
        n = Len(ids) /\ d = Len(msgs) /\ m = Len(S) /\ l = Len(f) /\ d <= n /\ l > 0
  <2>1. Len(ids) \in Nat /\ Len(msgs) \in Nat /\ Len(S) \in Nat
    BY <1>1, SMTT(20) DEF Laid
  <2>2. Len(f) \in Nat /\ Len(f) > 0
    BY <1>2 DEF Part, Longer
  <2> QED BY <1>1, <2>1, <2>2, Zenon
<1>4. E[d] \in Nat /\ d \in 0..n /\ F[d] = E[d]
  <2>1. d \in 0..n /\ E \in [0..n -> Nat]
    BY <1>1, <1>3, SMTT(20) DEF Laid
  <2> QED BY <1>2, <1>3, <2>1, Zenon DEF Longer
<1>5. b <= c /\ c <= m
  <2>1. c - b \in Nat /\ m - c \in Nat
    <3>1. Part(w, S, b, c) /\ Part(out, S, c, m)
      BY <1>1, <1>3, Zenon
    <3>2. Len(w) \in Nat /\ Len(out) \in Nat
      BY <3>1, PartLength, Zenon
    <3>3. Len(w) = c - b /\ Len(out) = m - c
      BY <3>1, Zenon DEF Part
    <3> QED BY <3>2, <3>3, Zenon
  <2>2. b \in Nat /\ c \in Nat
    BY <1>1, Zenon
  <2> QED BY <2>1, <2>2, SMTT(20)
<1>6. /\ \A k \in 1..b : R[k] = S[k]
      /\ \A k \in 1..c : R[k] = S[k]
      /\ \A k \in 1..m : R[k] = S[k]
  <2>1. \A k \in 1..m : R[k] = S[k]
    BY <1>2, <1>3, Zenon DEF Longer
  <2>2. 1..b \subseteq 1..m /\ 1..c \subseteq 1..m
    BY <1>1, <1>5
  <2> QED BY <2>1, <2>2, Zenon
<1>7. Part(in, R, F[d], b) /\ Part(w, R, b, c) /\ Part(out, R, c, m)
  BY <1>1, <1>3, <1>4, <1>6, PartOfLonger, Zenon
<1>8. Part(out \o f, R, c, Len(R)) /\ Len(R) \in Nat
  <2>1. Len(R) \in Nat /\ Part(f, R, m, Len(R))
    BY <1>2, <1>3, SMTT(20) DEF Longer
  <2> QED BY <1>1, <1>3, <1>7, <2>1, PartsJoin, ZenonT(30)
<1>9. /\ Len(Append(ids, i)) = n + 1
      /\ \A k \in 1..n : Append(ids, i)[k] = ids[k]
  <2>1. ids \in Seq(1..Len(s))
    BY <1>1, Zenon DEF Laid
  <2> QED BY <1>3, <2>1, AppendProperties, SMTT(20)
<1>10. ASSUME NEW k \in 1..d PROVE msgs[k] = MessageOf(s, Append(ids, i)[k])
  <2>1. k \in 1..n
    BY <1>3
  <2> QED BY <1>1, <1>3, <1>9, <2>1, Zenon
<1>11. b < F[d + 1]
  <2>1. CASE d = n
    <3>1. F[d + 1] = m + l
      BY <1>2, <1>3, <2>1, Zenon DEF Longer
    <3> QED BY <1>1, <1>3, <1>5, <3>1, SMTT(20)
  <2>2. CASE d # n
    <3>1. d + 1 \in 0..n /\ d < n
      BY <1>3, <2>2
    <3>2. F[d + 1] = E[d + 1]
      BY <1>2, <1>3, <3>1, ZenonT(30) DEF Longer
    <3> QED BY <1>1, <1>3, <3>1, <3>2, Zenon
  <2> QED BY <2>1, <2>2, Zenon
<1>12. d <= n + 1
  BY <1>3
<1>13. Laid(s, Append(ids, i), R, F)
  BY <1>2, Zenon DEF Longer
<1>14. Along(s, Append(ids, i), msgs, in, w, out \o f, R, F, b, c)
  BY <1>1, <1>3, <1>7, <1>8, <1>9, <1>10, <1>11, <1>12, <1>13, ZenonT(30) DEF Along
<1> QED BY <1>1, <1>14, Zenon DEF Flow

\* The kernel accepts the first k units of the output.
LEMMA FlowWrites ==
    ASSUME NEW s, NEW ids, NEW msgs, NEW in, NEW w, NEW out,
           Flow(s, ids, msgs, in, w, out), NEW k \in 0..Len(out)
    PROVE  /\ Flow(s, ids, msgs, in, w \o SubSeq(out, 1, k), SubSeq(out, k + 1, Len(out)))
           /\ Retrieve(out, k) = SubSeq(out, k + 1, Len(out))
<1>0. PICK S, E, b, c : b \in Nat /\ c \in Nat /\ Along(s, ids, msgs, in, w, out, S, E, b, c)
  BY Zenon DEF Flow
<1>1. /\ b \in Nat /\ c \in Nat /\ Laid(s, ids, S, E)
      /\ msgs \in Seq([id : Int, body : Seq(Int)]) /\ Len(msgs) <= Len(ids)
      /\ \A j \in 1..Len(msgs) : msgs[j] = MessageOf(s, ids[j])
      /\ Part(in, S, E[Len(msgs)], b) /\ Part(w, S, b, c) /\ Part(out, S, c, Len(S))
      /\ Len(msgs) < Len(ids) => b < E[Len(msgs) + 1]
  BY <1>0, Zenon DEF Along
<1>2. Len(S) \in Nat
  BY <1>1 DEF Laid
<1>3. /\ Part(SubSeq(out, 1, k), S, c, c + k) /\ Part(SubSeq(out, k + 1, Len(out)), S, c + k, Len(S))
      /\ c + k \in Nat /\ Retrieve(out, k) = SubSeq(out, k + 1, Len(out))
  <2>1. Part(out, S, c, Len(S)) /\ c \in Nat
    BY <1>1, Zenon
  <2> QED BY <1>2, <2>1, PartSplits, PartRetrieved, ZenonT(30)
<1>4. Part(w \o SubSeq(out, 1, k), S, b, c + k)
  BY <1>1, <1>3, PartsJoin, Zenon
<1>5. Along(s, ids, msgs, in, w \o SubSeq(out, 1, k), SubSeq(out, k + 1, Len(out)), S, E, b, c + k)
  BY <1>1, <1>3, <1>4, Zenon DEF Along
<1> QED BY <1>1, <1>3, <1>5, Zenon DEF Flow

-----------------------------------------------------------------------------
(* RpcFramer::decode *)

Message == [id : Int, body : Seq(Int)]

\* w holds the d messages of a and then the p messages of b.
Chained(w, a, b, d, p) ==
    /\ w \in Seq(Message) /\ Len(w) = d + p
    /\ \A j \in 1..(d + p) : w[j] = IF j <= d THEN a[j] ELSE b[j - d]

LEMMA Joined ==
    ASSUME NEW a \in Seq(Message), NEW b \in Seq(Message), NEW d \in Nat, NEW p \in Nat,
           Len(a) = d, Len(b) = p
    PROVE  Chained(a \o b, a, b, d, p)
BY ConcatProperties, ZenonT(30) DEF Chained

\* After some rounds, r holds the messages d + 1 to m, and the units up to e that
\* follow them.
Got(s, ids, S, E, d, e, r, m) ==
    /\ r.msgs \in Seq(Message) /\ Len(r.msgs) = m - d
    /\ \A k \in 1..(m - d) : r.msgs[k] = MessageOf(s, ids[d + k])
    /\ Part(r.rest, S, E[m], e)

\* There is no other whole message.
Short(ids, E, e, m) == m < Len(ids) => e < E[m + 1]

\* What Append does to a sequence of p elements.
LEMMA Grown ==
    ASSUME NEW T, NEW r \in Seq(T), NEW a \in T, NEW p \in Nat, Len(r) = p
    PROVE  /\ Append(r, a) \in Seq(T) /\ Len(Append(r, a)) = p + 1
           /\ \A k \in 1..p : Append(r, a)[k] = r[k]
           /\ Append(r, a)[p + 1] = a
BY AppendProperties

\* The frame at the front of the buffer, if it is whole, is the next message.
LEMMA RoundGets ==
    ASSUME NEW s \in Scripts, NEW ids, NEW S, NEW E, Laid(s, ids, S, E),
           NEW d \in 0..Len(ids), NEW m \in d..Len(ids), NEW e \in Nat, e <= Len(S),
           NEW r, Got(s, ids, S, E, d, e, r, m), NEW t, t = DecodeRound(r)
    PROVE  \/ m + 1 \in d..Len(ids) /\ Got(s, ids, S, E, d, e, t, m + 1)
           \/ t = r /\ Short(ids, E, e, m)
<1>1. PICK n \in Nat : n = Len(ids) /\ m \in 0..n /\ m \in Nat /\ d \in Nat /\ d <= m
  BY DEF Laid
<1>2. PICK x \in Nat, l \in Nat, q \in Seq(Int) : x = E[m] /\ q = r.rest /\ l = Len(q) /\ e = x + l
  <2>1. E[m] \in Nat
    BY <1>1, LaidTypes, Zenon
  <2>2. r.rest \in Seq(Int) /\ Len(r.rest) = e - E[m]
    BY Zenon DEF Got, Part
  <2>3. PICK x \in Nat, l \in Nat : x = E[m] /\ l = Len(r.rest)
    BY <2>1, <2>2, SMTT(20)
  <2>4. e = x + l
    BY <2>2, <2>3, SMTT(20)
  <2> QED BY <2>2, <2>3, <2>4, Zenon
<1>3. ASSUME l < 3 PROVE t = r
  BY <1>2, <1>3, Zenon DEF DecodeRound, HeaderSize
<1>4. CASE m = n
  <2>1. x = Len(S)
    BY <1>1, <1>2, <1>4, Zenon DEF Laid
  <2>2. l = 0
    BY <1>2, <2>1, SMTT(20)
  <2> QED BY <1>1, <1>3, <1>4, <2>2, SMTT(20) DEF Short
<1>5. CASE m # n
  <2>1. m + 1 \in 1..n /\ m + 1 \in d..n /\ (m + 1) - 1 = m /\ m < n
    BY <1>1, <1>5
  <2>2. PICK i, f, b : i = ids[m + 1] /\ f = FrameOf(s, i) /\ b = Bodies[s[i]]
    BY Zenon
  <2>3. i \in 1..Len(s) /\ f # <<>> /\ Part(f, S, x, E[m + 1])
    <3>1. i \in 1..Len(s) /\ f # <<>> /\ Part(f, S, E[(m + 1) - 1], E[m + 1])
      BY <1>1, <2>1, <2>2, LaidTypes, Zenon
    <3> QED BY <1>2, <2>1, <3>1, Zenon
  <2>4. /\ f \in Seq(Int) /\ b \in Seq(Int) /\ Len(b) \in Nat
        /\ Len(f) = 3 + Len(b) /\ Len(b) <= MaxBodyLen
        /\ f[1] = Magic /\ f[2] = i /\ f[3] = Len(b)
        /\ \A j \in 1..Len(b) : f[3 + j] = b[j]
    <3>1. Framed(f, i, b)
      BY <2>2, <2>3, FrameFacts, Zenon
    <3> QED BY <2>3, <3>1, Zenon DEF Framed
  <2>5. PICK L \in Nat : L = Len(b) /\ E[m + 1] = x + (3 + L)
    <3>1. PICK y \in Nat : y = E[m + 1]
      <4>1. m + 1 \in 0..Len(ids)
        BY <1>1, <2>1
      <4> QED BY <4>1, LaidTypes, Zenon
    <3>2. Len(f) = y - x
      BY <2>3, <3>1, Zenon DEF Part
    <3>3. PICK L \in Nat : L = Len(b) /\ Len(f) = 3 + L
      BY <2>4, Zenon
    <3>4. y = x + (3 + L)
      BY <3>2, <3>3, EndsAfter, ZenonT(30)
    <3> QED BY <3>1, <3>3, <3>4, Zenon
  <2>6. ASSUME NEW j \in 1..l, j \in 1..(3 + L) PROVE q[j] = f[j]
    <3>1. q[j] = S[x + j]
      BY <1>2, Zenon DEF Got, Part
    <3>2. f[j] = S[x + j]
      BY <2>3, <2>4, <2>5, <2>6, Zenon DEF Part
    <3> QED BY <3>1, <3>2, Zenon
  <2>7. l < 3 + L => Short(ids, E, e, m)
    BY <1>2, <2>5, SMTT(20) DEF Short
  <2>8. CASE l < 3
    BY <1>3, <2>5, <2>7, <2>8, SMTT(20)
  <2>9. CASE l >= 3
    <3>1. q[1] = Magic /\ q[2] = i /\ q[3] = L
      <4>1. 1 \in 1..l /\ 2 \in 1..l /\ 3 \in 1..l
        BY <2>9, FirstThree, Zenon
      <4>2. 1 \in 1..(3 + L) /\ 2 \in 1..(3 + L) /\ 3 \in 1..(3 + L)
        BY <2>5
      <4> QED BY <2>4, <2>5, <2>6, <4>1, <4>2, Zenon
    <3>2. DecodeHeader(q) /\ ~(q[3] > MaxBodyLen) /\ ~(Len(q) < HeaderSize)
      <4>1. L <= MaxBodyLen /\ MaxBodyLen \in Nat
        BY <2>4, <2>5, FramerAssumption, Zenon
      <4>2. ~(q[3] > MaxBodyLen)
        BY <3>1, <4>1, SMTT(20)
      <4>3. ~(Len(q) < HeaderSize)
        BY <1>2, <2>9, SMTT(20) DEF HeaderSize
      <4> QED BY <3>1, <4>2, <4>3, Zenon DEF DecodeHeader
    <3>3. CASE l < 3 + L
      <4>1. t = r
        BY <1>2, <3>1, <3>2, <3>3, Zenon DEF DecodeRound, HeaderSize
      <4> QED BY <2>7, <3>3, <4>1, Zenon
    <3>4. CASE ~(l < 3 + L)
      <4>1. t = [msgs |-> Append(r.msgs, [id |-> i, body |-> SubSeq(q, 4, 3 + L)]),
                 rest |-> Retrieve(q, 3 + L)]
        <5>1. ~(Len(q) < HeaderSize + q[3])
          BY <1>2, <3>1, <3>4, Zenon DEF HeaderSize
        <5>2. t = [msgs |-> Append(r.msgs, [id   |-> q[2],
                                            body |-> SubSeq(q, HeaderSize + 1, HeaderSize + q[3])]),
                   rest |-> Retrieve(q, HeaderSize + q[3])]
          BY <1>2, <3>2, <5>1, Zenon DEF DecodeRound
        <5>3. HeaderSize + 1 = 4 /\ HeaderSize + q[3] = 3 + L /\ q[2] = i
          BY <3>1 DEF HeaderSize
        <5> QED BY <5>2, <5>3, Zenon
      <4>2. SubSeq(q, 4, 3 + L) = b
        <5>1. /\ SubSeq(q, 4, 3 + L) \in Seq(Int) /\ Len(SubSeq(q, 4, 3 + L)) = L
              /\ \A j \in 1..L : SubSeq(q, 4, 3 + L)[j] = q[3 + j]
          <6>1. 3 + L \in Int /\ \A j \in 4..(3 + L) : q[j] \in Int
            <7>1. 3 + L \in Int /\ \A j \in 4..(3 + L) : j \in 1..l
              BY <3>4, SMTT(20)
            <7> QED BY <1>2, <7>1, SMTT(20)
          <6>2. /\ SubSeq(q, 4, 3 + L) \in Seq(Int)
                /\ Len(SubSeq(q, 4, 3 + L)) = IF 4 <= 3 + L THEN (3 + L) - 4 + 1 ELSE 0
                /\ \A j \in 1..((3 + L) - 4 + 1) : SubSeq(q, 4, 3 + L)[j] = q[4 + j - 1]
            BY <6>1, SubSeqProperties, SMTT(20)
          <6>3. (3 + L) - 4 + 1 = L /\ (4 <= 3 + L <=> L # 0) /\ \A j \in 1..L : 4 + j - 1 = 3 + j
            BY <2>5, SMTT(20)
          <6> QED BY <6>2, <6>3, Zenon
        <5>2. ASSUME NEW j \in 1..L PROVE q[3 + j] = b[j]
          <6>1. 3 + j \in 1..l /\ 3 + j \in 1..(3 + L)
            BY <3>4
          <6> QED BY <2>4, <2>5, <2>6, <6>1, Zenon
        <5>3. b \in Seq(Int) /\ Len(b) = L
          BY <2>4, <2>5, Zenon
        <5> QED BY <5>1, <5>2, <5>3, SeqEqual, Zenon
      <4>3. PICK a : a = MessageOf(s, i) /\ a \in Message /\ t.msgs = Append(r.msgs, a)
                     /\ t.rest = Retrieve(q, 3 + L)
        <5>1. i \in Int
          BY <2>3
        <5>2. MessageOf(s, i) = [id |-> i, body |-> b] /\ MessageOf(s, i) \in Message
          BY <2>2, <2>4, <5>1, Zenon DEF MessageOf, Message
        <5>3. t = [msgs |-> Append(r.msgs, MessageOf(s, i)), rest |-> Retrieve(q, 3 + L)]
          BY <4>1, <4>2, <5>2, ZenonT(30)
        <5>4. t.msgs = Append(r.msgs, MessageOf(s, i)) /\ t.rest = Retrieve(q, 3 + L)
          BY <5>3, SMTT(20)
        <5> QED BY <5>2, <5>4, Zenon
      <4>4. /\ Append(r.msgs, a) \in Seq(Message) /\ Len(Append(r.msgs, a)) = (m + 1) - d
            /\ \A k \in 1..((m + 1) - d) : Append(r.msgs, a)[k] = MessageOf(s, ids[d + k])
        <5>1. r.msgs \in Seq(Message) /\ Len(r.msgs) = m - d /\ m - d \in Nat
          BY <1>1, SMTT(20) DEF Got
        <5>2. PICK p \in Nat : p = m - d /\ (m + 1) - d = p + 1 /\ d + (p + 1) = m + 1
          BY <1>1, <5>1, SMTT(20)
        <5>3. /\ Append(r.msgs, a) \in Seq(Message) /\ Len(Append(r.msgs, a)) = p + 1
              /\ \A k \in 1..p : Append(r.msgs, a)[k] = r.msgs[k]
              /\ Append(r.msgs, a)[p + 1] = a
          <6>1. PICK u \in Seq(Message) : u = r.msgs
            BY <5>1, Zenon
          <6>2. Len(u) = p /\ a \in Message
            BY <4>3, <5>1, <5>2, <6>1, ZenonT(30)
          <6>3. /\ Append(u, a) \in Seq(Message) /\ Len(Append(u, a)) = p + 1
                /\ \A k \in 1..p : Append(u, a)[k] = u[k]
                /\ Append(u, a)[p + 1] = a
            BY <6>2, Grown, SMTT(20)
          <6> QED BY <6>1, <6>3, Zenon
        <5>4. ASSUME NEW k \in 1..(p + 1) PROVE Append(r.msgs, a)[k] = MessageOf(s, ids[d + k])
          <6>1. CASE k = p + 1
            BY <2>2, <4>3, <5>2, <5>3, <6>1, ZenonT(30)
          <6>2. CASE k # p + 1
            <7>1. k \in 1..p
              BY <5>2, <6>2, SMTT(20)
            <7> QED BY <5>2, <5>3, <7>1, ZenonT(30) DEF Got
          <6> QED BY <6>1, <6>2, Zenon
        <5> QED BY <5>2, <5>3, <5>4, ZenonT(30)
      <4>5. Part(Retrieve(q, 3 + L), S, E[m + 1], e)
        <5>1. Part(q, S, x, e)
          BY <1>2, Zenon DEF Got
        <5>2. PICK k : k = 3 + L /\ k \in 0..Len(q)
          <6>1. 3 + L \in 0..l
            BY <3>4
          <6> QED BY <1>2, <6>1, Zenon
        <5>3. Part(Retrieve(q, k), S, x + k, e)
          BY <5>1, <5>2, PartRetrieved, Zenon
        <5> QED BY <2>5, <5>2, <5>3, Zenon
      <4> QED BY <1>1, <2>1, <4>3, <4>4, <4>5, ZenonT(30) DEF Got
    <3> QED BY <3>3, <3>4, Zenon
  <2> QED BY <1>2, <2>8, <2>9, SMTT(20)
<1> QED BY <1>4, <1>5, Zenon

LEMMA GotWithin ==
    ASSUME NEW s, NEW ids, NEW S, NEW E, Laid(s, ids, S, E), NEW d, NEW e \in Nat, NEW r,
           NEW m \in 0..Len(ids), Got(s, ids, S, E, d, e, r, m)
    PROVE  E[m] \in Nat /\ E[m] <= e
<1>1. PICK x \in Nat : x = E[m]
  BY LaidTypes, Zenon
<1>2. Len(r.rest) \in Nat /\ Len(r.rest) = e - x
  BY <1>1, SMTT(20) DEF Got, Part
<1>3. x <= e
  BY <1>2
<1> QED BY <1>1, <1>3, Zenon

\* m rounds of decode's loop, from a on; they exist for every m.
Rounds(m, a, g) == g = [i \in 0..m |-> IF i = 0 THEN a ELSE DecodeRound(g[i - 1])]

LEMMA RoundsExist ==
    ASSUME NEW n \in Nat, NEW a
    PROVE  \E g : Rounds(n, a, g)
<1> DEFINE T == {m \in Nat : \E g : Rounds(m, a, g)}
<1>1. 0 \in T
  <2>1. Rounds(0, a, [i \in 0..0 |-> a])
    BY DEF Rounds
  <2> QED BY <2>1, Zenon
<1>2. ASSUME NEW m \in Nat, m \in T PROVE m + 1 \in T
  <2>1. PICK g : Rounds(m, a, g)
    BY <1>2, Zenon
  <2> DEFINE t == [i \in 0..(m + 1) |-> IF i = m + 1 THEN DecodeRound(g[m]) ELSE g[i]]
             u == [i \in 0..(m + 1) |-> IF i = 0 THEN a ELSE DecodeRound(t[i - 1])]
  <2>2. ASSUME NEW i \in 0..(m + 1) PROVE t[i] = u[i]
    <3>1. CASE i = m + 1
      <4>1. m \in 0..(m + 1) /\ m # m + 1 /\ i - 1 = m /\ i # 0
        BY <3>1
      <4> QED BY <3>1, <4>1, Zenon
    <3>2. CASE i = 0
      <4>1. 0 # m + 1 /\ 0 \in 0..m
        OBVIOUS
      <4>2. g[0] = a
        BY <2>1, <4>1, Zenon DEF Rounds
      <4> QED BY <3>2, <4>1, <4>2, Zenon
    <3>3. CASE i # 0 /\ i # m + 1
      <4>1. i \in 0..m /\ i - 1 \in 0..(m + 1) /\ i - 1 # m + 1
        BY <3>3
      <4>2. g[i] = DecodeRound(g[i - 1])
        BY <2>1, <3>3, <4>1, Zenon DEF Rounds
      <4> QED BY <3>3, <4>1, <4>2, Zenon
    <3> QED BY <3>1, <3>2, <3>3, Zenon
  <2>3. t = u
    BY <2>2, Zenon
  <2>4. Rounds(m + 1, a, t)
    BY <2>3, Zenon DEF Rounds
  <2> HIDE DEF t
  <2> QED BY <2>4
<1> HIDE DEF T
<1>3. Nat \subseteq T
  BY <1>1, <1>2, Induction, Zenon
<1> QED BY <1>3, Zenon DEF T

\* g[i] is what decode has made of q after i rounds.
Unrolled(q, g) ==
    /\ DecodeFrames(q) = g[Len(q)] /\ g[0] = [msgs |-> <<>>, rest |-> q]
    /\ \A i \in 0..Len(q) : i # 0 => g[i] = DecodeRound(g[i - 1])

LEMMA DecodeRounds ==
    ASSUME NEW q, Len(q) \in Nat
    PROVE  \E g : Unrolled(q, g)
<1> DEFINE a == [msgs |-> <<>>, rest |-> q]
           after == CHOOSE g : Rounds(Len(q), a, g)
<1>1. DecodeFrames(q) = after[Len(q)]
  BY Zenon DEF DecodeFrames, Rounds
<1> HIDE DEF a
<1>2. \E g : Rounds(Len(q), a, g)
  BY RoundsExist, Zenon
<1>3. Rounds(Len(q), a, after)
  BY <1>2, Zenon
<1> HIDE DEF after
<1>4. /\ 0 \in 0..Len(q)
      /\ \A i \in 0..Len(q) : after[i] = IF i = 0 THEN a ELSE DecodeRound(after[i - 1])
  BY <1>3, SMTT(20) DEF Rounds
<1>5. after[0] = a
  BY <1>4, Zenon
<1>6. \A i \in 0..Len(q) : i # 0 => after[i] = DecodeRound(after[i - 1])
  BY <1>4, Zenon
<1>7. Unrolled(q, after)
  BY <1>1, <1>5, <1>6, Zenon DEF a, Unrolled
<1> QED BY <1>7, Zenon

\* What is decoded from the units that follow message d is the next messages, as
\* many as are whole, in order.
LEMMA DecodeGets ==
    ASSUME NEW s \in Scripts, NEW ids, NEW S, NEW E, Laid(s, ids, S, E),
           NEW d \in 0..Len(ids), NEW e \in Nat, e <= Len(S), NEW q, Part(q, S, E[d], e)
    PROVE  \E m \in d..Len(ids) : /\ Got(s, ids, S, E, d, e, DecodeFrames(q), m)
                                  /\ Short(ids, E, e, m)
<1>1. PICK n \in Nat, l \in Nat, x \in Nat : n = Len(ids) /\ l = Len(q) /\ x = E[d] /\ e = x + l
  <2>1. PICK x \in Nat : x = E[d]
    BY LaidTypes, Zenon
  <2>2. PICK l \in Nat : l = Len(q) /\ l = e - x
    BY <2>1 DEF Part
  <2>3. e = x + l
    BY <2>2
  <2> QED BY <2>1, <2>2, <2>3, LaidTypes, Zenon
<1>2. PICK g : /\ DecodeFrames(q) = g[l] /\ g[0] = [msgs |-> <<>>, rest |-> q]
               /\ \A i \in 0..l : i # 0 => g[i] = DecodeRound(g[i - 1])
  <2>1. PICK g : Unrolled(q, g)
    BY <1>1, DecodeRounds, Zenon
  <2> QED BY <1>1, <2>1, Zenon DEF Unrolled
<1>3. d \in Nat /\ d \in d..n /\ d \in 0..n
  BY <1>1
<1> DEFINE Reached(i, m) == m \in d..n /\ Got(s, ids, S, E, d, e, g[i], m)
                            /\ (m = d + i \/ Short(ids, E, e, m))
           T == {i \in Nat : i <= l => \E m : Reached(i, m)}
<1>4. 0 \in T
  <2>1. g[0].msgs = <<>> /\ g[0].rest = q
    BY <1>2
  <2>2. <<>> \in Seq(Message) /\ Len(<<>>) = 0 /\ d - d = 0 /\ 1..0 = {} /\ d + 0 = d
    BY <1>3
  <2>3. Got(s, ids, S, E, d, e, g[0], d)
    BY <2>1, <2>2, Zenon DEF Got
  <2>4. Reached(0, d)
    BY <1>3, <2>2, <2>3, Zenon
  <2> QED BY <2>4, Zenon
<1>5. ASSUME NEW i \in Nat, i \in T PROVE i + 1 \in T
  <2> SUFFICES ASSUME i + 1 <= l PROVE \E m : Reached(i + 1, m)
    OBVIOUS
  <2>1. i <= l /\ i + 1 \in 0..l /\ i + 1 # 0 /\ (i + 1) - 1 = i
    BY <1>1, SMTT(20)
  <2>2. PICK m : Reached(i, m)
    BY <1>5, <2>1, Zenon
  <2>3. g[i + 1] = DecodeRound(g[i])
    BY <1>2, <2>1, Zenon
  <2>4. \/ m + 1 \in d..n /\ Got(s, ids, S, E, d, e, g[i + 1], m + 1)
        \/ g[i + 1] = g[i] /\ Short(ids, E, e, m)
    <3>1. m \in d..Len(ids) /\ Got(s, ids, S, E, d, e, g[i], m)
      BY <1>1, <2>2, Zenon
    <3>2. \/ m + 1 \in d..Len(ids) /\ Got(s, ids, S, E, d, e, g[i + 1], m + 1)
          \/ g[i + 1] = g[i] /\ Short(ids, E, e, m)
      BY <2>3, <3>1, RoundGets, SMTT(20)
    <3> QED BY <1>1, <3>2, Zenon
  <2>5. CASE m + 1 \in d..n /\ Got(s, ids, S, E, d, e, g[i + 1], m + 1)
    <3>1. CASE m = d + i
      <4>1. m + 1 = d + (i + 1)
        BY <1>3, <3>1, SMTT(20)
      <4>2. Reached(i + 1, m + 1)
        BY <2>5, <4>1, Zenon
      <4> QED BY <4>2, Zenon
    <3>2. CASE Short(ids, E, e, m)
      <4>1. m \in Nat /\ m + 1 \in 0..Len(ids) /\ m < Len(ids)
        BY <1>1, <1>3, <2>2, <2>5, SMTT(20)
      <4>2. e < E[m + 1]
        BY <3>2, <4>1, Zenon DEF Short
      <4>3. E[m + 1] \in Nat /\ E[m + 1] <= e
        BY <2>5, <4>1, GotWithin, Zenon
      <4> QED BY <4>2, <4>3, SMTT(20)
    <3> QED BY <2>2, <3>1, <3>2, Zenon
  <2>6. CASE g[i + 1] = g[i] /\ Short(ids, E, e, m)
    <3>1. Reached(i + 1, m)
      BY <2>2, <2>6, Zenon
    <3> QED BY <3>1, Zenon
  <2> QED BY <2>4, <2>5, <2>6, ZenonT(30)
<1> HIDE DEF T
<1>6. Nat \subseteq T
  BY <1>4, <1>5, Induction, ZenonT(30)
<1>7. PICK m : Reached(l, m)
  BY <1>1, <1>6, SMTT(20) DEF T
<1>8. CASE m = d + l
  <2>1. m \in Nat /\ m \in 0..n /\ d <= m
    BY <1>1, <1>3, <1>7, SMTT(20)
  <2>2. PICK y \in Nat : y = E[m] /\ y <= e
    <3>1. m \in 0..Len(ids) /\ Got(s, ids, S, E, d, e, g[l], m)
      BY <1>1, <1>7, <2>1, Zenon
    <3>2. E[m] \in Nat /\ E[m] <= e
      BY <3>1, GotWithin, Zenon
    <3> QED BY <3>2, Zenon
  <2>3. x + l <= y
    <3>1. E[d] + (m - d) <= E[m]
      BY <1>1, <1>3, <2>1, LaidTypes, ZenonT(30)
    <3>2. m - d = l
      BY <1>1, <1>3, <1>8, SMTT(20)
    <3> QED BY <1>1, <2>2, <3>1, <3>2, Zenon
  <2>4. Short(ids, E, e, m)
    <3> SUFFICES ASSUME m < Len(ids) PROVE e < E[m + 1]
      BY Zenon DEF Short
    <3>1. m + 1 \in 0..n /\ m \in 0..n /\ m <= m + 1 /\ (m + 1) - m = 1
      BY <1>1, <2>1, SMTT(20)
    <3>2. E[m + 1] \in Nat /\ E[m] + ((m + 1) - m) <= E[m + 1]
      BY <1>1, <3>1, LaidTypes, Zenon
    <3>3. PICK z \in Nat : z = E[m + 1] /\ y + 1 <= z
      BY <2>2, <3>1, <3>2, Zenon
    <3>4. e < z
      BY <1>1, <2>3, <3>3, BeforeNext, ZenonT(30)
    <3> QED BY <3>3, <3>4, Zenon
  <2> QED BY <1>1, <1>2, <1>7, <2>4, Zenon
<1> QED BY <1>1, <1>2, <1>7, <1>8, Zenon

-----------------------------------------------------------------------------
(* The flow is kept by reads, and tells what has arrived *)

\* handleRead reads k units.
LEMMA FlowReads ==
    ASSUME NEW s \in Scripts, NEW ids, NEW msgs, NEW in, NEW w, NEW out,
           Flow(s, ids, msgs, in, w, out), NEW k \in 0..Len(w),
           NEW r, r = DecodeFrames(in \o SubSeq(w, 1, k))
    PROVE  Flow(s, ids, msgs \o r.msgs, r.rest, SubSeq(w, k + 1, Len(w)), out)
<1>0. PICK S, E, b, c : b \in Nat /\ c \in Nat /\ Along(s, ids, msgs, in, w, out, S, E, b, c)
  BY Zenon DEF Flow
<1>1. /\ b \in Nat /\ c \in Nat /\ Laid(s, ids, S, E)
      /\ msgs \in Seq(Message) /\ Len(msgs) <= Len(ids)
      /\ \A j \in 1..Len(msgs) : msgs[j] = MessageOf(s, ids[j])
      /\ Part(in, S, E[Len(msgs)], b) /\ Part(w, S, b, c) /\ Part(out, S, c, Len(S))
  BY <1>0, Zenon DEF Along, Message
<1>2. PICK n \in Nat, d \in Nat : n = Len(ids) /\ d = Len(msgs) /\ d <= n /\ d \in 0..n
  <2>1. Len(ids) \in Nat /\ Len(msgs) \in Nat
    BY <1>1, LaidTypes
  <2> QED BY <1>1, <2>1, SMTT(20)
<1>3. PICK x \in Nat, z \in Nat : x = E[d] /\ z = Len(S) /\ c <= z
  <2>1. PICK x \in Nat, z \in Nat : x = E[d] /\ z = Len(S)
    BY <1>1, <1>2, LaidTypes, ZenonT(30)
  <2>2. Len(out) \in Nat /\ Len(out) = z - c
    BY <1>1, <2>1, SMTT(20) DEF Part
  <2>3. c <= z
    BY <1>1, <2>2
  <2> QED BY <2>1, <2>3, Zenon
<1>4. PICK e \in Nat : /\ e = b + k /\ e <= c /\ Part(SubSeq(w, 1, k), S, b, e)
                       /\ Part(SubSeq(w, k + 1, Len(w)), S, e, c)
  BY <1>1, PartSplits, Zenon
<1>5. PICK q : q = in \o SubSeq(w, 1, k) /\ Part(q, S, x, e)
  <2>1. Part(in, S, x, b)
    BY <1>1, <1>2, <1>3, ZenonT(30)
  <2>2. b \in Nat /\ Part(SubSeq(w, 1, k), S, b, e)
    BY <1>1, <1>4, Zenon
  <2> QED BY <2>1, <2>2, PartsJoin, Zenon
<1>6. PICK m \in d..n : Got(s, ids, S, E, d, e, r, m) /\ Short(ids, E, e, m)
  <2>1. d \in 0..Len(ids) /\ e <= Len(S) /\ Part(q, S, E[d], e)
    BY <1>1, <1>2, <1>3, <1>4, <1>5, SMTT(20)
  <2>2. \E m \in d..Len(ids) : Got(s, ids, S, E, d, e, DecodeFrames(q), m) /\ Short(ids, E, e, m)
    BY <1>1, <2>1, DecodeGets, Zenon
  <2> QED BY <1>2, <1>5, <2>2, ZenonT(30)
<1>7. PICK p \in Nat : p = m - d /\ m = d + p /\ r.msgs \in Seq(Message) /\ Len(r.msgs) = p
  <2>1. m - d \in Nat /\ m = d + (m - d)
    BY SMTT(20)
  <2> QED BY <1>6, <2>1, Zenon DEF Got
<1>8. /\ msgs \o r.msgs \in Seq(Message) /\ Len(msgs \o r.msgs) = m
      /\ \A j \in 1..m : (msgs \o r.msgs)[j] = IF j <= d THEN msgs[j] ELSE r.msgs[j - d]
  <2>1. PICK u \in Seq(Message) : u = r.msgs /\ Len(u) = p
    BY <1>7, Zenon
  <2>2. Chained(msgs \o u, msgs, u, d, p)
    <3>1. msgs \in Seq(Message) /\ Len(msgs) = d
      BY <1>1, <1>2, Zenon
    <3> QED BY <2>1, <3>1, Joined, Zenon
  <2>3. Chained(msgs \o r.msgs, msgs, r.msgs, d, p) /\ d + p = m
    BY <1>7, <2>1, <2>2, Zenon
  <2> QED BY <2>3, Zenon DEF Chained
<1>9. ASSUME NEW j \in 1..m PROVE (msgs \o r.msgs)[j] = MessageOf(s, ids[j])
  <2>1. CASE j <= d
    <3>1. j \in 1..d
      BY <2>1
    <3>2. msgs[j] = MessageOf(s, ids[j])
      BY <1>1, <1>2, <3>1, Zenon
    <3> QED BY <1>8, <2>1, <3>2, ZenonT(30)
  <2>2. CASE ~(j <= d)
    <3>1. j - d \in 1..(m - d) /\ d + (j - d) = j
      BY <1>7, <2>2, SMTT(20)
    <3>2. r.msgs[j - d] = MessageOf(s, ids[d + (j - d)])
      BY <1>6, <3>1, ZenonT(30) DEF Got
    <3> QED BY <1>8, <2>2, <3>1, <3>2, ZenonT(30)
  <2> QED BY <2>1, <2>2, Zenon
<1>10. m <= n /\ Part(r.rest, S, E[m], e) /\ (m < Len(ids) => e < E[m + 1])
  BY <1>6, SMTT(20) DEF Got, Short
<1>11. Along(s, ids, msgs \o r.msgs, r.rest, SubSeq(w, k + 1, Len(w)), out, S, E, e, c)
  BY <1>1, <1>2, <1>4, <1>8, <1>9, <1>10, ZenonT(30) DEF Along, Message
<1> QED BY <1>1, <1>11, Zenon DEF Flow

\* The messages of ids.
All(s, ids) == [k \in 1..Len(ids) |-> MessageOf(s, ids[k])]

\* What was delivered comes first among what was taken, and is all of it when
\* nothing is on its way.
LEMMA FlowOrder ==
    ASSUME NEW s, NEW ids, NEW msgs, NEW in, NEW w, NEW out, Flow(s, ids, msgs, in, w, out)
    PROVE  /\ Len(msgs) <= Len(All(s, ids))
           /\ \A j \in 1..Len(msgs) : msgs[j] = All(s, ids)[j]
           /\ w = <<>> /\ out = <<>> => msgs = All(s, ids)
<1>0. PICK S, E, b, c : b \in Nat /\ c \in Nat /\ Along(s, ids, msgs, in, w, out, S, E, b, c)
  BY Zenon DEF Flow
<1>1. /\ b \in Nat /\ c \in Nat /\ Laid(s, ids, S, E)
      /\ msgs \in Seq(Message) /\ Len(msgs) <= Len(ids)
      /\ \A j \in 1..Len(msgs) : msgs[j] = MessageOf(s, ids[j])
      /\ Part(w, S, b, c) /\ Part(out, S, c, Len(S))
      /\ Len(msgs) < Len(ids) => b < E[Len(msgs) + 1]
  BY <1>0, Zenon DEF Along, Message
<1>2. PICK n \in Nat, d \in Nat : n = Len(ids) /\ d = Len(msgs) /\ d <= n
  <2>1. Len(ids) \in Nat /\ Len(msgs) \in Nat
    BY <1>1, LaidTypes, SMTT(20)
  <2> QED BY <1>1, <2>1, Zenon
<1>3. PICK a : /\ a = All(s, ids) /\ Len(a) = n /\ a = [k \in 1..n |-> a[k]]
               /\ \A j \in 1..n : a[j] = MessageOf(s, ids[j])
  <2>1. PICK a : a = [k \in 1..n |-> MessageOf(s, ids[k])]
    BY Zenon
  <2>2. a = All(s, ids)
    BY <1>2, <2>1, Zenon DEF All
  <2> QED BY <2>1, <2>2, SMTT(20)
<1>4. \A j \in 1..d : msgs[j] = a[j]
  <2> SUFFICES ASSUME NEW j \in 1..d PROVE msgs[j] = a[j]
    BY Zenon
  <2>1. j \in 1..n
    BY <1>2
  <2> QED BY <1>1, <1>2, <1>3, <2>1, Zenon
<1>5. Len(msgs) <= Len(a) /\ \A j \in 1..Len(msgs) : msgs[j] = a[j]
  BY <1>2, <1>3, <1>4, Zenon
<1>6. ASSUME w = <<>>, out = <<>> PROVE msgs = a
  <2>1. b = Len(S)
    <3>1. 0 = c - b /\ 0 = Len(S) - c /\ Len(S) \in Nat
      BY <1>1, <1>6, LaidTypes, ZenonT(30) DEF Part
    <3> QED BY <1>1, <3>1, SMTT(20)
  <2>2. ASSUME d # n PROVE FALSE
    <3>1. d + 1 \in 0..n /\ n \in 0..n /\ d + 1 <= n /\ d < n
      BY <1>2, <2>2, SMTT(20)
    <3>0. /\ \A j \in 0..n : E[j] \in Nat
          /\ \A i, j \in 0..n : i <= j => E[i] + (j - i) <= E[j]
          /\ E[n] = Len(S)
      BY <1>1, <1>2, LaidTypes, SMTT(20)
    <3>2. PICK x \in Nat, y \in Nat : x = E[d + 1] /\ y = E[n] /\ y = Len(S)
      BY <3>0, <3>1, Zenon
    <3>3. E[d + 1] + (n - (d + 1)) <= E[n]
      BY <3>0, <3>1, ZenonT(30)
    <3>4. x <= y
      BY <1>2, <3>1, <3>2, <3>3, SMTT(20)
    <3>5. b < x
      BY <1>1, <1>2, <3>1, <3>2, ZenonT(30)
    <3> QED BY <1>1, <2>1, <3>2, <3>4, <3>5, SMTT(20)
  <2>3. msgs = [k \in 1..d |-> msgs[k]]
    BY <1>1, <1>2, SMTT(20)
  <2> QED BY <1>3, <1>4, <2>2, <2>3, ZenonT(30)
<1> QED BY <1>3, <1>5, <1>6, Zenon

-----------------------------------------------------------------------------
(* The invariant *)

States == {"Connecting", "Connected", "Disconnecting", "Disconnected"}

Functors(s) ==
    {Functor("establish", <<>>), Functor("forceClose", <<>>)}
        \cup {Functor("send", FrameOf(s, i)) : i \in 1..Len(s)}

\* connectEstablished runs first and once, and a connection that was closed stays so.
Control ==
    /\ script \in Scripts /\ state \in States
    /\ next \in Nat \ {0} /\ (app = "checked" => next < Len(script))
    /\ functors \in Seq(Functors(script))
    /\ \A i \in 1..Len(functors) : functors[i].op = "establish" => i = 1 /\ state = "Connecting"
    /\ reading \in BOOLEAN /\ (reading <=> state \in {"Connected", "Disconnecting"})
    /\ closes \in Nat /\ (closes = 0 <=> state # "Disconnected")

\* The loop watches for room as long as there is output, and the end of the stream
\* comes last.
Output ==
    /\ writing \in BOOLEAN /\ fin \in BOOLEAN
    /\ state = "Disconnected" => ~writing
    /\ state # "Disconnected" => (writing <=> outputBuffer # <<>>)
    /\ fin => outputBuffer = <<>>
    /\ peer = "eof" => wire = <<>> /\ (fin \/ state = "Disconnected")

Streaming == Flow(script, taken, delivered, inputBuffer, wire, outputBuffer)

IInv == Control /\ Output /\ Streaming

LEMMA FrameIs == \A i : Frame(i) = FrameOf(script, i)
BY Zenon DEF Frame, FrameOf, Body

LEMMA FlowTypes ==
    ASSUME NEW s, NEW ids, NEW msgs, NEW in, NEW w, NEW out, Flow(s, ids, msgs, in, w, out)
    PROVE  in \in Seq(Int) /\ w \in Seq(Int) /\ out \in Seq(Int)
<1>1. PICK S, E, b, c : b \in Nat /\ c \in Nat /\ Along(s, ids, msgs, in, w, out, S, E, b, c)
  BY Zenon DEF Flow
<1>2. Part(in, S, E[Len(msgs)], b) /\ Part(w, S, b, c) /\ Part(out, S, c, Len(S))
  BY <1>1, Zenon DEF Along
<1> QED BY <1>2, Zenon DEF Part

LEMMA AtMost ==
    ASSUME NEW a \in Int, NEW b \in Int, NEW k \in Int, k <= Min({a, b})
    PROVE  k <= a
<1>1. Min({a, b}) \in {a, b} /\ \A y \in {a, b} : Min({a, b}) <= y
  <2>1. \E x \in {a, b} : \A y \in {a, b} : x <= y
    <3>1. CASE a <= b
      BY <3>1
    <3>2. CASE ~(a <= b)
      <4>1. \A y \in {a, b} : b <= y
        BY <3>2
      <4> QED BY <4>1, Zenon
    <3> QED BY <3>1, <3>2, Zenon
  <2> QED BY <2>1, Zenon DEF Min
<1>2. PICK m \in Int : m = Min({a, b}) /\ m <= a
  BY <1>1, Zenon
<1> QED BY <1>2

\* A message is taken: the first k units of its frame are written at once.
LEMMA FlowSends ==
    ASSUME NEW s \in Scripts, NEW ids, NEW msgs, NEW in, NEW w, Flow(s, ids, msgs, in, w, <<>>),
           NEW i \in 1..Len(s), NEW f, f = FrameOf(s, i), f # <<>>, NEW k \in 0..Len(f)
    PROVE  Flow(s, Append(ids, i), msgs, in, w \o SubSeq(f, 1, k), SubSeq(f, k + 1, Len(f)))
<1>1. f \in Seq(Int)
  BY FrameFacts, Zenon DEF Framed
<1>2. <<>> \o f = f
  BY <1>1, ConcatEmptySeq, Zenon
<1>3. Flow(s, Append(ids, i), msgs, in, w, <<>> \o f)
  BY FlowTakes, Zenon
<1>4. Flow(s, Append(ids, i), msgs, in, w, f)
  BY <1>2, <1>3, Zenon
<1> QED BY <1>4, FlowWrites, Zenon

\* sendInLoop leaves everything as it was or takes the message.
LEMMA SendTakes ==
    ASSUME IInv, NEW i \in 1..Len(script), SendInLoop(FrameOf(script, i))
    PROVE  \/ UNCHANGED sendVars
           \/ /\ ~fin /\ state # "Disconnected" /\ writing' \in BOOLEAN
              /\ Flow(script, taken', delivered, inputBuffer, wire', outputBuffer')
              /\ writing' <=> outputBuffer' # <<>>
<1>1. PICK f : f = FrameOf(script, i)
  BY Zenon
<1>2. /\ script \in Scripts /\ Flow(script, taken, delivered, inputBuffer, wire, outputBuffer)
      /\ writing \in BOOLEAN /\ (state # "Disconnected" => (writing <=> outputBuffer # <<>>))
  BY Zenon DEF IInv, Control, Output, Streaming
<1>3. /\ f \in Seq(Int) /\ Len(f) \in Nat /\ wire \in Seq(Int) /\ Len(wire) \in Int
      /\ outputBuffer \in Seq(Int) /\ (f # <<>> => f[2] = i)
  <2>1. Framed(f, i, Bodies[script[i]])
    BY <1>1, <1>2, FrameFacts, Zenon
  <2>2. wire \in Seq(Int) /\ outputBuffer \in Seq(Int)
    BY <1>2, FlowTypes, Zenon
  <2> QED BY <2>1, <2>2, SMTT(20) DEF Framed
<1>4. CASE state = "Disconnected" \/ WriteFails
  BY <1>4, Zenon DEF SendInLoop, WriteFails
<1>5. CASE state # "Disconnected" /\ ~WriteFails
  <2>1. /\ ~fin
        /\ IF MayWrite THEN \E k \in 0..Min({Len(f), Window - Len(wire)}) : WritePart(f, k)
           ELSE AppendOutput(f) /\ wire' = wire
        /\ taken' = IF f = <<>> THEN taken ELSE Append(taken, f[2])
    BY <1>1, <1>5, Zenon DEF SendInLoop
  <2>2. CASE outputBuffer = <<>>
    <3>1. PICK k \in 0..Min({Len(f), Window - Len(wire)}) : WritePart(f, k)
      BY <2>1, <2>2, Zenon DEF MayWrite
    <3>2. k \in 0..Len(f)
      <4>1. PICK u \in Int, v \in Int : u = Len(f) /\ v = Window - Len(wire)
        <5>1. Window \in Nat
          BY ConnectionAssumption, Zenon
        <5>2. Len(f) \in Int /\ Window - Len(wire) \in Int
          BY <1>3, <5>1, SMTT(20)
        <5> QED BY <5>2, Zenon
      <4>2. k \in Int /\ k <= Min({u, v})
        BY <4>1, SMTT(20)
      <4>3. k <= u
        BY <4>2, AtMost, Zenon
      <4> QED BY <1>3, <4>1, <4>3, SMTT(20)
    <3>3. /\ wire' = wire \o SubSeq(f, 1, k) /\ outputBuffer' = SubSeq(f, k + 1, Len(f))
          /\ writing' \in BOOLEAN /\ (writing' <=> outputBuffer' # <<>>)
      <4>1. CASE k < Len(f)
        <5>1. SubSeq(f, k + 1, Len(f)) \in Seq(Int) /\ SubSeq(f, k + 1, Len(f)) # <<>>
          <6>1. \A j \in (k + 1)..Len(f) : f[j] \in Int
            BY <1>3, <3>2, SMTT(20)
          <6>2. /\ SubSeq(f, k + 1, Len(f)) \in Seq(Int)
                /\ Len(SubSeq(f, k + 1, Len(f))) = IF k + 1 <= Len(f) THEN Len(f) - (k + 1) + 1 ELSE 0
            BY <1>3, <3>2, <6>1, SubSeqProperties, SMTT(20)
          <6>3. Len(SubSeq(f, k + 1, Len(f))) # 0
            BY <1>3, <3>2, <4>1, <6>2, SMTT(20)
          <6> QED BY <6>2, <6>3, Zenon
        <5>2. <<>> \o SubSeq(f, k + 1, Len(f)) = SubSeq(f, k + 1, Len(f))
          BY <5>1, ConcatEmptySeq, Zenon
        <5>3. /\ wire' = wire \o SubSeq(f, 1, k) /\ writing' = TRUE
              /\ outputBuffer' = outputBuffer \o SubSeq(f, k + 1, Len(f))
          BY <3>1, <4>1, Zenon DEF WritePart, AppendOutput
        <5> QED BY <2>2, <5>1, <5>2, <5>3, ZenonT(30)
      <4>2. CASE ~(k < Len(f))
        <5>1. k = Len(f)
          BY <1>3, <3>2, <4>2, SMTT(20)
        <5>2. SubSeq(f, k + 1, Len(f)) = <<>>
          BY <1>3, <5>1, SubSeqEmpty, SMTT(20)
        <5>3. wire' = wire \o SubSeq(f, 1, k) /\ UNCHANGED <<outputBuffer, writing>>
          BY <3>1, <4>2, Zenon DEF WritePart
        <5> QED BY <1>2, <1>5, <2>2, <5>2, <5>3, ZenonT(30)
      <4> QED BY <4>1, <4>2, Zenon
    <3>4. CASE f = <<>>
      <4>1. k = 0 /\ wire' = wire /\ outputBuffer' = outputBuffer /\ taken' = taken
        <5>1. k = 0
          BY <3>2, <3>4, SMTT(20)
        <5>2. SubSeq(f, 1, k) = <<>> /\ SubSeq(f, k + 1, Len(f)) = <<>>
          BY <3>4, <5>1, SubSeqEmpty, SMTT(20)
        <5>3. wire \o <<>> = wire
          BY <1>3, ConcatEmptySeq, Zenon
        <5> QED BY <2>1, <2>2, <3>3, <3>4, <5>1, <5>2, <5>3, ZenonT(30)
      <4>2. Flow(script, taken', delivered, inputBuffer, wire', outputBuffer')
        BY <1>2, <4>1, Zenon
      <4> QED BY <1>5, <2>1, <3>3, <4>2, ZenonT(30)
    <3>5. CASE f # <<>>
      <4>1. taken' = Append(taken, i)
        BY <1>3, <2>1, <3>5, Zenon
      <4>2. Flow(script, taken, delivered, inputBuffer, wire, <<>>)
        BY <1>2, <2>2, Zenon
      <4>3. Flow(script, taken', delivered, inputBuffer, wire', outputBuffer')
        BY <1>1, <1>2, <3>2, <3>3, <3>5, <4>1, <4>2, FlowSends, ZenonT(30)
      <4> QED BY <1>5, <2>1, <3>3, <4>3, Zenon
    <3> QED BY <3>4, <3>5, Zenon
  <2>3. CASE outputBuffer # <<>>
    <3>1. outputBuffer' = outputBuffer \o f /\ writing' = TRUE /\ wire' = wire
      BY <2>1, <2>3, Zenon DEF MayWrite, AppendOutput
    <3>2. outputBuffer' # <<>>
      BY <1>3, <2>3, <3>1, SMTT(20)
    <3>3. Flow(script, taken', delivered, inputBuffer, wire', outputBuffer')
      <4>1. CASE f = <<>>
        <5>1. outputBuffer' = outputBuffer
          BY <1>3, <3>1, <4>1, ConcatEmptySeq, Zenon
        <5> QED BY <1>2, <2>1, <3>1, <4>1, <5>1, ZenonT(30)
      <4>2. CASE f # <<>>
        <5>1. taken' = Append(taken, i)
          BY <1>3, <2>1, <4>2, Zenon
        <5>2. Flow(script, Append(taken, i), delivered, inputBuffer, wire, outputBuffer \o f)
          BY <1>1, <1>2, <4>2, FlowTakes, Zenon
        <5> QED BY <3>1, <5>1, <5>2, Zenon
      <4> QED BY <4>1, <4>2, Zenon
    <3> QED BY <1>5, <2>1, <3>1, <3>2, <3>3, ZenonT(30)
  <2> QED BY <2>2, <2>3, Zenon
<1> QED BY <1>4, <1>5, Zenon

-----------------------------------------------------------------------------
(* The invariant is kept *)

LEMMA StreamInit == Init => IInv
<1> SUFFICES ASSUME Init PROVE IInv
  BY Zenon
<1>1. Control
  <2>1. Functor("establish", <<>>) \in Functors(script)
    BY Zenon DEF Functors
  <2>2. functors \in Seq(Functors(script)) /\ \A i \in 1..Len(functors) : i = 1
    BY <2>1 DEF Init
  <2>3. /\ closes \in Nat /\ closes = 0 /\ next \in Nat \ {0}
    BY SMTT(20) DEF Init
  <2>4. reading \in BOOLEAN /\ (reading <=> state \in {"Connected", "Disconnecting"})
    BY Zenon DEF Init
  <2>5. state \in States /\ state = "Connecting" /\ app # "checked" /\ script \in Scripts
    BY Zenon DEF Init, States
  <2> QED BY <2>2, <2>3, <2>4, <2>5, ZenonT(30) DEF Control
<1>2. Output
  BY Zenon DEF Init, Output
<1>3. Laid(script, <<>>, <<>>, [k \in 0..0 |-> 0])
  <2>1. <<>> \in Seq(Int) /\ <<>> \in Seq(1..Len(script)) /\ Len(<<>>) = 0 /\ 1..0 = {} /\ 0..0 = {0}
    OBVIOUS
  <2> QED BY <2>1 DEF Laid
<1>4. Part(<<>>, <<>>, 0, 0)
  BY DEF Part
<1>5. Along(script, <<>>, <<>>, <<>>, <<>>, <<>>, <<>>, [k \in 0..0 |-> 0], 0, 0)
  BY <1>3, <1>4, SMTT(20) DEF Along
<1>6. Flow(script, <<>>, <<>>, <<>>, <<>>, <<>>)
  BY <1>5, Zenon DEF Flow
<1>7. Streaming
  BY <1>6, Zenon DEF Init, Streaming
<1> QED BY <1>1, <1>2, <1>7, Zenon DEF IInv

\* Steps that leave the stream and its ends alone.
LEMMA SameStream ==
    ASSUME IInv, UNCHANGED <<script, outputBuffer, wire, taken, delivered, inputBuffer>>
    PROVE  Streaming'
BY Zenon DEF IInv, Streaming

LEMMA SameOutput ==
    ASSUME IInv, UNCHANGED <<state, outputBuffer, writing, wire, fin, peer>>
    PROVE  Output'
BY Zenon DEF IInv, Output

LEMMA SameControl ==
    ASSUME IInv, UNCHANGED <<script, state, reading, next, app, functors, closes>>
    PROVE  Control'
BY Zenon DEF IInv, Control

\* handleClose, called in a state in which the connection is open.
LEMMA CloseControl ==
    ASSUME IInv, UNCHANGED <<script, next, app>>, state \in {"Connected", "Disconnecting"},
           functors' \in Seq(Functors(script)), \A i \in 1..Len(functors') : functors'[i].op # "establish",
           state' = "Disconnected", reading' = FALSE, closes' \in {closes + 1, closes + 2}
    PROVE  Control'
<1>1. closes' \in Nat /\ closes' # 0
  <2>1. closes \in Nat
    BY Zenon DEF IInv, Control
  <2> QED BY <2>1, SMTT(20)
<1>2. state' \in States /\ reading' \in BOOLEAN /\ (reading' <=> state' \in {"Connected", "Disconnecting"})
  BY Zenon DEF States
<1> QED BY <1>1, <1>2, ZenonT(30) DEF IInv, Control

LEMMA CloseOutput ==
    ASSUME IInv, UNCHANGED <<outputBuffer, wire, fin, peer>>, state' = "Disconnected", writing' = FALSE
    PROVE  Output'
BY Zenon DEF IInv, Output

\* After the first functor, no other establishes the connection.
LEMMA RestOfFunctors ==
    ASSUME IInv, functors # <<>>
    PROVE  /\ Tail(functors) \in Seq(Functors(script)) /\ Head(functors) \in Functors(script)
           /\ Head(functors).op = "establish" => state = "Connecting"
           /\ \A i \in 1..Len(Tail(functors)) : Tail(functors)[i].op # "establish"
<1>1. /\ functors \in Seq(Functors(script))
      /\ \A i \in 1..Len(functors) : functors[i].op = "establish" => i = 1 /\ state = "Connecting"
  BY Zenon DEF IInv, Control
<1>2. PICK n \in Nat : n = Len(functors) /\ n # 0
  BY <1>1, SMTT(20)
<1>3. /\ Tail(functors) \in Seq(Functors(script)) /\ Len(Tail(functors)) = n - 1
      /\ Head(functors) = functors[1] /\ Head(functors) \in Functors(script)
      /\ \A i \in 1..(n - 1) : Tail(functors)[i] = functors[i + 1]
  BY <1>1, <1>2, HeadTailProperties, SMTT(20)
<1>4. ASSUME NEW i \in 1..(n - 1) PROVE Tail(functors)[i].op # "establish"
  <2>1. i + 1 \in 1..n /\ i + 1 # 1
    BY <1>2
  <2>2. functors[i + 1].op # "establish"
    BY <1>1, <1>2, <2>1, Zenon
  <2> QED BY <1>3, <2>2, Zenon
<1>5. functors[1].op = "establish" => state = "Connecting"
  <2>1. 1 \in 1..Len(functors)
    BY <1>2, SMTT(20)
  <2> QED BY <1>1, <2>1, Zenon
<1> QED BY <1>3, <1>4, <1>5, Zenon

LEMMA FunctorOps ==
    ASSUME NEW s, NEW f \in Functors(s), f.op = "send"
    PROVE  \E i \in 1..Len(s) : f.frame = FrameOf(s, i)
BY DEF Functors, Functor

\* sendInLoop, from a functor or in the loop.
LEMMA SendKeeps ==
    ASSUME IInv, NEW i \in 1..Len(script), SendInLoop(FrameOf(script, i)),
           UNCHANGED <<script, state, fin, peer, inputBuffer, delivered>>
    PROVE  Output' /\ Streaming'
<1>1. \/ UNCHANGED sendVars
      \/ /\ ~fin /\ state # "Disconnected" /\ writing' \in BOOLEAN
         /\ Flow(script, taken', delivered, inputBuffer, wire', outputBuffer')
         /\ writing' <=> outputBuffer' # <<>>
  BY SendTakes, Zenon
<1>2. CASE UNCHANGED sendVars
  BY <1>2, SameStream, SameOutput, Zenon DEF sendVars
<1>3. CASE /\ ~fin /\ state # "Disconnected" /\ writing' \in BOOLEAN
           /\ Flow(script, taken', delivered, inputBuffer, wire', outputBuffer')
           /\ writing' <=> outputBuffer' # <<>>
  <2>1. Streaming'
    BY <1>3, Zenon DEF Streaming
  <2>2. peer # "eof" /\ fin \in BOOLEAN
    BY <1>3, Zenon DEF IInv, Output
  <2>3. Output'
    BY <1>3, <2>2, Zenon DEF Output
  <2> QED BY <2>1, <2>3, Zenon
<1> QED BY <1>1, <1>2, <1>3, Zenon

LEMMA RunFunctorKeeps ==
    ASSUME IInv, RunFunctor
    PROVE  IInv'
<1>0. /\ functors # <<>> /\ functors' = Tail(functors)
      /\ UNCHANGED <<script, fin, peer, inputBuffer, delivered, app, next, called>>
  BY Zenon DEF RunFunctor, peerVars, callVars
<1>1. PICK f : f = Head(functors)
  BY Zenon
<1>2. /\ functors' \in Seq(Functors(script)) /\ f \in Functors(script)
      /\ f.op = "establish" => state = "Connecting"
      /\ \A i \in 1..Len(functors') : functors'[i].op # "establish"
  BY <1>0, <1>1, RestOfFunctors, Zenon
<1>3. \/ f.op = "establish" /\ state' = "Connected" /\ reading' = TRUE /\ UNCHANGED <<closes, sendVars>>
      \/ f.op = "forceClose" /\ ForceCloseInLoop
      \/ f.op = "send" /\ SendInLoop(f.frame) /\ UNCHANGED <<state, reading, closes>>
  BY <1>1, Zenon DEF RunFunctor
<1>4. ASSUME UNCHANGED <<state, reading, closes>> PROVE Control'
  BY <1>0, <1>2, <1>4, Zenon DEF IInv, Control
<1>5. CASE f.op = "establish" /\ state' = "Connected" /\ reading' = TRUE /\ UNCHANGED <<closes, sendVars>>
  <2>1. state = "Connecting"
    BY <1>2, <1>5, Zenon
  <2>2. /\ state' \in States /\ reading' \in BOOLEAN
        /\ reading' <=> state' \in {"Connected", "Disconnecting"}
        /\ closes' \in Nat /\ (closes' = 0 <=> state' # "Disconnected")
    BY <1>5, <2>1, Zenon DEF IInv, Control, States
  <2>5. Control'
    BY <1>0, <1>2, <2>2, ZenonT(30) DEF IInv, Control
  <2>3. Output'
    BY <1>0, <1>5, <2>1, ZenonT(30) DEF IInv, Output, sendVars
  <2>4. Streaming'
    BY <1>0, <1>5, SameStream, Zenon DEF sendVars
  <2> QED BY <2>3, <2>4, <2>5, Zenon DEF IInv
<1>6. CASE ForceCloseInLoop
  <2>1. Streaming'
    BY <1>0, <1>6, SameStream, SMTT(20) DEF ForceCloseInLoop
  <2>2. CASE state \in {"Connected", "Disconnecting"}
    <3>1. /\ state' = "Disconnected" /\ reading' = FALSE /\ writing' = FALSE /\ closes' = closes + 1
          /\ UNCHANGED <<outputBuffer, wire>>
      BY <1>6, <2>2, ZenonT(30) DEF ForceCloseInLoop, HandleClose
    <3>2. closes' \in {closes + 1, closes + 2}
      BY <3>1, Zenon
    <3>4. Control'
      BY <1>0, <1>2, <2>2, <3>1, <3>2, CloseControl, ZenonT(30)
    <3>3. Output'
      BY <1>0, <3>1, CloseOutput, ZenonT(30)
    <3> QED BY <2>1, <3>3, <3>4, SMTT(20) DEF IInv
  <2>3. CASE state \notin {"Connected", "Disconnecting"}
    <3>1. UNCHANGED <<state, reading, closes, outputBuffer, writing, wire>>
      BY <1>6, <2>3, ZenonT(30) DEF ForceCloseInLoop
    <3>2. Output'
      BY <1>0, <3>1, SameOutput, SMTT(20)
    <3> QED BY <1>4, <2>1, <3>1, <3>2, SMTT(20) DEF IInv
  <2> QED BY <2>2, <2>3, ZenonT(30)
<1>7. CASE f.op = "send" /\ SendInLoop(f.frame) /\ UNCHANGED <<state, reading, closes>>
  <2>1. PICK i \in 1..Len(script) : f.frame = FrameOf(script, i)
    BY <1>2, <1>7, FunctorOps, SMTT(20)
  <2>2. Output' /\ Streaming'
    BY <1>0, <1>7, <2>1, SendKeeps, ZenonT(30)
  <2> QED BY <1>4, <1>7, <2>2, ZenonT(30) DEF IInv
<1> QED BY <1>3, <1>5, <1>6, <1>7, Zenon

\* What write() accepts moves from the output to the kernel.
LEMMA WriteKeepsStream ==
    ASSUME IInv, WriteOutput, UNCHANGED <<script, taken, inputBuffer, delivered>>
    PROVE  Streaming'
<1>1. Flow(script, taken, delivered, inputBuffer, wire, outputBuffer)
  BY Zenon DEF IInv, Streaming
<1>2. wire \in Seq(Int) /\ outputBuffer \in Seq(Int)
  BY <1>1, FlowTypes, Zenon
<1>3. PICK k \in 1..Min({Len(outputBuffer), Window - Len(wire)}) :
         /\ wire' = wire \o SubSeq(outputBuffer, 1, k)
         /\ outputBuffer' = Retrieve(outputBuffer, k)
  BY Zenon DEF WriteOutput
<1>4. k \in 0..Len(outputBuffer)
  <2>1. Len(outputBuffer) \in Nat /\ Len(wire) \in Nat /\ Window \in Int
    BY <1>2, ConnectionAssumption, SMTT(20)
  <2>2. Window - Len(wire) \in Int /\ Len(outputBuffer) \in Int
    BY <2>1, SMTT(20)
  <2>3. k \in Int /\ 1 <= k /\ k <= Min({Len(outputBuffer), Window - Len(wire)})
    BY <1>3
  <2>4. k <= Len(outputBuffer)
    BY <2>2, <2>3, AtMost, ZenonT(30)
  <2> QED BY <2>1, <2>3, <2>4, SMTT(20)
<1>5. Flow(script, taken, delivered, inputBuffer, wire', outputBuffer')
  <2>1. /\ Flow(script, taken, delivered, inputBuffer, wire \o SubSeq(outputBuffer, 1, k),
                SubSeq(outputBuffer, k + 1, Len(outputBuffer)))
        /\ Retrieve(outputBuffer, k) = SubSeq(outputBuffer, k + 1, Len(outputBuffer))
    BY <1>1, <1>4, FlowWrites, SMTT(20)
  <2> QED BY <1>3, <2>1, ZenonT(30)
<1> QED BY <1>5, Zenon DEF Streaming

\* While the loop watches for room the stream is not at its end.
LEMMA WritingIsOpen ==
    ASSUME IInv, writing
    PROVE  outputBuffer # <<>> /\ ~fin /\ state # "Disconnected" /\ peer # "eof"
BY Zenon DEF IInv, Output

LEMMA HandleWriteKeeps ==
    ASSUME IInv, HandleWrite
    PROVE  IInv'
<1>0. /\ writing /\ WriteOutput /\ writing' = (outputBuffer' # <<>>)
      /\ fin' = (fin \/ (outputBuffer' = <<>> /\ state = "Disconnecting"))
      /\ UNCHANGED <<script, state, reading, functors, closes, taken, peer, inputBuffer, delivered, app, next>>
  BY Zenon DEF HandleWrite, peerVars, callVars
<1>1. Streaming'
  BY <1>0, WriteKeepsStream, Zenon
<1>2. ~fin /\ state # "Disconnected" /\ peer # "eof"
  BY <1>0, WritingIsOpen, Zenon
<1>3. Output'
  BY <1>0, <1>2, ZenonT(30) DEF Output
<1>4. Control'
  BY <1>0, SameControl, SMTT(20)
<1> QED BY <1>1, <1>3, <1>4, SMTT(20) DEF IInv

\* While the connection is open no functor establishes it.
LEMMA Established ==
    ASSUME IInv, state # "Connecting"
    PROVE  functors \in Seq(Functors(script)) /\ \A i \in 1..Len(functors) : functors[i].op # "establish"
BY Zenon DEF IInv, Control

LEMMA HandleHangupKeeps ==
    ASSUME IInv, HandleHangup
    PROVE  IInv'
<1>1. /\ reading /\ state' = "Disconnected" /\ reading' = FALSE /\ writing' = FALSE
      /\ closes' \in {closes + 1, closes + 2}
      /\ \/ writing /\ WriteOutput
         \/ UNCHANGED <<outputBuffer, wire>>
      /\ UNCHANGED <<script, functors, fin, peer, inputBuffer, delivered, app, next, taken>>
  BY Zenon DEF HandleHangup, peerVars, callVars
<1>2. Control'
  <2>1. state \in {"Connected", "Disconnecting"}
    BY <1>1, Zenon DEF IInv, Control
  <2>2. functors' \in Seq(Functors(script)) /\ \A i \in 1..Len(functors') : functors'[i].op # "establish"
    <3>1. state # "Connecting"
      BY <2>1, Zenon
    <3> QED BY <1>1, <3>1, Established, ZenonT(30)
  <2> QED BY <1>1, <2>1, <2>2, CloseControl, Zenon
<1>3. CASE writing /\ WriteOutput
  <2>1. Streaming'
    BY <1>1, <1>3, WriteKeepsStream, Zenon
  <2>2. ~fin /\ peer # "eof"
    BY <1>3, WritingIsOpen, Zenon
  <2>3. Output'
    BY <1>1, <2>2, Zenon DEF IInv, Output
  <2> QED BY <1>2, <2>1, <2>3, Zenon DEF IInv
<1>4. CASE UNCHANGED <<outputBuffer, wire>>
  <2>1. Output'
    BY <1>1, <1>4, CloseOutput, Zenon
  <2>2. Streaming'
    BY <1>1, <1>4, SameStream, Zenon
  <2> QED BY <1>2, <2>1, <2>2, Zenon DEF IInv
<1> QED BY <1>1, <1>3, <1>4, Zenon

LEMMA TimerFiresKeeps ==
    ASSUME IInv, TimerFires
    PROVE  IInv'
<1>1. UNCHANGED <<script, functors, fin, peer, inputBuffer, delivered, app, next, outputBuffer, wire, taken>>
  BY Zenon DEF TimerFires, peerVars, callVars
<1>2. Streaming'
  BY <1>1, SameStream, Zenon
<1>3. CASE state = "Connected" /\ HandleClose
  <2>1. /\ state' = "Disconnected" /\ reading' = FALSE /\ writing' = FALSE /\ closes' = closes + 1
    BY <1>3, Zenon DEF HandleClose
  <2>4. /\ closes' \in {closes + 1, closes + 2} /\ state \in {"Connected", "Disconnecting"}
        /\ state # "Connecting"
    BY <1>3, <2>1, Zenon
  <2>5. functors' \in Seq(Functors(script)) /\ \A i \in 1..Len(functors') : functors'[i].op # "establish"
    BY <1>1, <2>4, Established, ZenonT(30)
  <2>2. Control'
    BY <1>1, <2>1, <2>4, <2>5, CloseControl, ZenonT(30)
  <2>3. Output'
    BY <1>1, <2>1, CloseOutput, ZenonT(30)
  <2> QED BY <1>2, <2>2, <2>3, ZenonT(30) DEF IInv
<1>4. CASE UNCHANGED <<state, reading, writing, closes>>
  <2>1. Control'
    BY <1>1, <1>4, SameControl, ZenonT(30)
  <2>2. Output'
    BY <1>1, <1>4, SameOutput, Zenon
  <2> QED BY <1>2, <2>1, <2>2, ZenonT(30) DEF IInv
<1> QED BY <1>3, <1>4, Zenon DEF TimerFires

LEMMA SendFromLoopKeeps ==
    ASSUME IInv, SendFromLoop
    PROVE  IInv'
<1>1. UNCHANGED <<script, state, reading, functors, fin, closes, app, next, peer, inputBuffer, delivered>>
  BY Zenon DEF SendFromLoop, peerVars
<1>2. Control'
  BY <1>1, SameControl, ZenonT(30)
<1>3. CASE UNCHANGED sendVars
  BY <1>1, <1>2, <1>3, SameStream, SameOutput, SMTT(20) DEF sendVars, IInv
<1>4. CASE SendInLoop(Frame(LastMessage))
  <2>1. LastMessage \in 1..Len(script)
    <3>1. script \in Seq(1..Len(Bodies)) /\ script # <<>>
      BY ConnectionAssumption, Zenon DEF IInv, Control
    <3> QED BY <3>1, SMTT(20) DEF LastMessage
  <2>2. SendInLoop(FrameOf(script, LastMessage))
    BY <1>4, FrameIs, Zenon
  <2>3. Output' /\ Streaming'
    BY <1>1, <2>1, <2>2, SendKeeps, ZenonT(30)
  <2> QED BY <1>2, <2>3, Zenon DEF IInv
<1> QED BY <1>3, <1>4, Zenon DEF SendFromLoop

LEMMA ShutdownKeeps ==
    ASSUME IInv, Shutdown
    PROVE  IInv'
<1>1. /\ state = "Connected" /\ state' = "Disconnecting" /\ fin' = (outputBuffer = <<>> /\ ~writing)
      /\ UNCHANGED <<script, reading, functors, closes, app, next, outputBuffer, writing, wire, taken,
                     peer, inputBuffer, delivered>>
  BY Zenon DEF Shutdown, NothingPending, sendVars, peerVars
<1>2. Control'
  <2>1. /\ state' \in States /\ reading' \in BOOLEAN
        /\ reading' <=> state' \in {"Connected", "Disconnecting"}
        /\ closes' \in Nat /\ (closes' = 0 <=> state' # "Disconnected")
    BY <1>1, Zenon DEF IInv, Control, States
  <2> QED BY <1>1, <2>1, Zenon DEF IInv, Control
<1>3. Output'
  BY <1>1, Zenon DEF IInv, Output
<1>4. Streaming'
  BY <1>1, SameStream, Zenon
<1> QED BY <1>2, <1>3, <1>4, ZenonT(30) DEF IInv

\* A functor queued behind the others.
LEMMA Queued ==
    ASSUME IInv, NEW f \in Functors(script), f.op # "establish", functors' = Append(functors, f),
           UNCHANGED <<script, state>>
    PROVE  /\ functors' \in Seq(Functors(script'))
           /\ \A i \in 1..Len(functors') : functors'[i].op = "establish" => i = 1 /\ state' = "Connecting"
<1>1. /\ functors \in Seq(Functors(script))
      /\ \A i \in 1..Len(functors) : functors[i].op = "establish" => i = 1 /\ state = "Connecting"
  BY Zenon DEF IInv, Control
<1>2. functors' \in Seq(Functors(script)) /\ Len(functors') = Len(functors) + 1
  BY <1>1, SMTT(20)
<1>3. ASSUME NEW i \in 1..Len(functors'), functors'[i].op = "establish"
      PROVE  i = 1 /\ state = "Connecting"
  <2>1. CASE i \in 1..Len(functors)
    <3>1. functors'[i] = functors[i]
      BY <1>1, <2>1, SMTT(20)
    <3> QED BY <1>1, <1>3, <2>1, <3>1, ZenonT(30)
  <2>2. CASE i = Len(functors) + 1
    <3>1. functors'[i] = f
      BY <1>1, <2>2, SMTT(20)
    <3> QED BY <1>3, <3>1, ZenonT(30)
  <2> QED BY <1>1, <1>2, <2>1, <2>2, SMTT(20)
<1> QED BY <1>2, <1>3, Zenon

LEMMA ApplicationKeeps ==
    ASSUME IInv, SendCheck \/ SendQueue \/ ForceClose
    PROVE  IInv'
<1>1. UNCHANGED <<script, state, reading, fin, closes, outputBuffer, writing, wire, taken, peer, inputBuffer,
                  delivered>>
  BY Zenon DEF SendCheck, SendQueue, ForceClose, sendVars, peerVars
<1>2. Output' /\ Streaming'
  BY <1>1, SameOutput, SameStream, ZenonT(30)
<1>3. CASE SendCheck
  <2>1. /\ UNCHANGED functors
        /\ \/ next < LastMessage /\ UNCHANGED next
           \/ next' = next + 1 /\ app' # "checked"
    BY <1>3, ZenonT(30) DEF SendCheck
  <2>2. Control'
    BY <1>1, <2>1, SMTT(20) DEF IInv, Control, LastMessage
  <2> QED BY <1>2, <2>2, Zenon DEF IInv
<1>4. CASE SendQueue
  <2>1. next \in 1..Len(script)
    <3>1. script \in Seq(1..Len(Bodies)) /\ next \in Nat \ {0} /\ next < Len(script)
      BY <1>4, ConnectionAssumption, Zenon DEF IInv, Control, SendQueue
    <3> QED BY <3>1, SMTT(20)
  <2>2. Functor("send", FrameOf(script, next)) \in Functors(script)
    BY <2>1, Zenon DEF Functors
  <2>3. functors' = Append(functors, Functor("send", FrameOf(script, next)))
    BY <1>4, FrameIs, ZenonT(30) DEF SendQueue
  <2>4. Functor("send", FrameOf(script, next)).op # "establish"
    BY Zenon DEF Functor
  <2>5. /\ functors' \in Seq(Functors(script'))
        /\ \A i \in 1..Len(functors') : functors'[i].op = "establish" => i = 1 /\ state' = "Connecting"
    BY <1>1, <2>2, <2>3, <2>4, Queued, ZenonT(30)
  <2>6. next' = next + 1 /\ app' = "idle"
    BY <1>4, ZenonT(30) DEF SendQueue
  <2>7. Control'
    BY <1>1, <2>5, <2>6, SMTT(20) DEF IInv, Control
  <2> QED BY <1>2, <2>7, Zenon DEF IInv
<1>5. CASE ForceClose
  <2>1. Functor("forceClose", <<>>) \in Functors(script)
    BY Zenon DEF Functors
  <2>2. Functor("forceClose", <<>>).op # "establish"
    BY Zenon DEF Functor
  <2>3. functors' = Append(functors, Functor("forceClose", <<>>)) /\ UNCHANGED <<app, next>>
    BY <1>5, Zenon DEF ForceClose
  <2>4. /\ functors' \in Seq(Functors(script'))
        /\ \A i \in 1..Len(functors') : functors'[i].op = "establish" => i = 1 /\ state' = "Connecting"
    BY <1>1, <2>1, <2>2, <2>3, Queued, ZenonT(30)
  <2>5. Control'
    BY <1>1, <2>3, <2>4, ZenonT(30) DEF IInv, Control
  <2> QED BY <1>2, <2>5, Zenon DEF IInv
<1> QED BY <1>3, <1>4, <1>5, ZenonT(30)

LEMMA HandleReadKeeps ==
    ASSUME IInv, HandleRead
    PROVE  IInv'
<1>1. /\ peer = "open"
      /\ UNCHANGED <<script, state, reading, functors, fin, closes, outputBuffer, writing, taken, peer, app, next>>
  BY Zenon DEF HandleRead, callVars
<1>2. Flow(script, taken, delivered, inputBuffer, wire, outputBuffer) /\ script \in Scripts
  BY Zenon DEF IInv, Streaming, Control
<1>3. PICK k \in 1..Len(wire) :
         /\ wire' = SubSeq(wire, k + 1, Len(wire))
         /\ inputBuffer' = DecodeFrames(inputBuffer \o SubSeq(wire, 1, k)).rest
         /\ delivered' = delivered \o DecodeFrames(inputBuffer \o SubSeq(wire, 1, k)).msgs
  BY Zenon DEF HandleRead
<1>4. k \in 0..Len(wire)
  BY <1>3, SMTT(20)
<1>5. PICK r : r = DecodeFrames(inputBuffer \o SubSeq(wire, 1, k))
  BY Zenon
<1>6. Flow(script, taken, delivered \o r.msgs, r.rest, SubSeq(wire, k + 1, Len(wire)), outputBuffer)
  BY <1>2, <1>4, <1>5, FlowReads, ZenonT(30)
<1>7. Streaming'
  BY <1>1, <1>3, <1>5, <1>6, SMTT(20) DEF Streaming
<1>8. Control'
  BY <1>1, SameControl, Zenon
<1>9. Output'
  BY <1>1, Zenon DEF IInv, Output
<1> QED BY <1>7, <1>8, <1>9, ZenonT(30) DEF IInv

LEMMA PeerKeeps ==
    ASSUME IInv, ReceiveEof \/ PeerCloses
    PROVE  IInv'
<1>1. UNCHANGED <<script, state, reading, functors, fin, closes, outputBuffer, writing, wire, taken, inputBuffer,
                  delivered, app, next>>
  BY Zenon DEF ReceiveEof, PeerCloses, sendVars, callVars
<1>2. Control' /\ Streaming'
  BY <1>1, SameControl, SameStream, Zenon
<1>3. peer' = "eof" => wire = <<>> /\ (fin \/ state = "Disconnected")
  <2>1. CASE ReceiveEof
    <3>1. wire = <<>> /\ (fin \/ closes > 0)
      BY <2>1, Zenon DEF ReceiveEof
    <3>2. closes > 0 => state = "Disconnected"
      BY DEF IInv, Control
    <3> QED BY <3>1, <3>2, Zenon
  <2>2. CASE PeerCloses
    BY <2>2, Zenon DEF PeerCloses
  <2> QED BY <2>1, <2>2, Zenon
<1>4. Output'
  BY <1>1, <1>3, Zenon DEF IInv, Output
<1> QED BY <1>2, <1>4, Zenon DEF IInv

LEMMA StreamNext ==
    ASSUME IInv, [Next]_vars
    PROVE  IInv'
<1>1. CASE UNCHANGED vars
  <2>1. UNCHANGED <<script, state, reading, functors, fin, closes, outputBuffer, writing, wire, taken, peer,
                    inputBuffer, delivered, app, next>>
    BY <1>1, Zenon DEF vars, sendVars, peerVars, callVars
  <2> QED BY <2>1, SameControl, SameOutput, SameStream, Zenon DEF IInv
<1>2. CASE LoopStep
  BY <1>2, RunFunctorKeeps, HandleWriteKeeps, HandleHangupKeeps, TimerFiresKeeps, SMTT(20) DEF LoopStep
<1>3. CASE SendFromLoop \/ Shutdown
  BY <1>3, SendFromLoopKeeps, ShutdownKeeps, Zenon
<1>4. CASE SendCheck \/ SendQueue \/ ForceClose
  BY <1>4, ApplicationKeeps, Zenon
<1>5. CASE HandleRead \/ ReceiveEof \/ PeerCloses
  BY <1>5, HandleReadKeeps, PeerKeeps, Zenon
<1> QED BY <1>1, <1>2, <1>3, <1>4, <1>5, SMTT(20) DEF Next

\* The inductive invariant of the connection holds in every state: what was
\* delivered, what the receiver holds back, what is in the kernel and what waits in
\* outputBuffer_ are consecutive parts of the frames that sendInLoop took.
THEOREM StreamInvariant == Spec => []IInv
<1>1. Init => IInv
  BY StreamInit, Zenon
<1>2. IInv /\ [Next]_vars => IInv'
  BY StreamNext, Zenon
<1> QED BY <1>1, <1>2, PTL DEF Spec

LEMMA SentIsAll == Sent = All(script, taken)
BY Zenon DEF Sent, All, MessageOf, Body

\* TcpConnection and RpcFramer: whatever parts write and read move, decode finds
\* the messages in the order sendInLoop took them, each once, none skipped and
\* with its own body.
THEOREM StreamKeepsOrder == Spec => []DeliveredInOrder
<1>1. IInv => DeliveredInOrder
  <2>1. SUFFICES ASSUME IInv PROVE DeliveredInOrder
    BY Zenon
  <2>2. Flow(script, taken, delivered, inputBuffer, wire, outputBuffer)
    BY <2>1, Zenon DEF IInv, Streaming
  <2>3. /\ Len(delivered) <= Len(All(script, taken))
        /\ \A k \in 1..Len(delivered) : delivered[k] = All(script, taken)[k]
    BY <2>2, FlowOrder, Zenon
  <2> QED BY <2>3, SentIsAll, Zenon DEF DeliveredInOrder
<1> QED BY <1>1, StreamInvariant, PTL

\* handleWrite, shutdownInLoop and the flag writing_: when the loop does not watch
\* for room and nothing is on its way, or when the peer reads the end that
\* shutdown() wrote, every message that was taken has arrived.
THEOREM StreamForgetsNothing == Spec => []NothingForgotten
<1>1. IInv => NothingForgotten
  <2>1. SUFFICES ASSUME IInv,
                        \/ state # "Disconnected" /\ peer = "open" /\ wire = <<>> /\ ~writing
                        \/ peer = "eof" /\ fin
                 PROVE  delivered = Sent
    BY Zenon DEF NothingForgotten
  <2>2. Flow(script, taken, delivered, inputBuffer, wire, outputBuffer)
    BY <2>1, Zenon DEF IInv, Streaming
  <2>3. wire = <<>> /\ outputBuffer = <<>>
    BY <2>1, Zenon DEF IInv, Output
  <2>4. delivered = All(script, taken)
    BY <2>2, <2>3, FlowOrder, Zenon
  <2> QED BY <2>4, SentIsAll, Zenon
<1> QED BY <1>1, StreamInvariant, PTL

\* sendInLoop leaves a closed connection alone.
LEMMA ClosedSendsNothing ==
    ASSUME NEW f, state = "Disconnected", SendInLoop(f)
    PROVE  UNCHANGED sendVars
BY Zenon DEF SendInLoop

LEMMA ClosedStaysClosed ==
    ASSUME IInv, state = "Disconnected", [Next]_vars
    PROVE  UNCHANGED <<state, closes, reading, writing, taken, outputBuffer>>
<1>1. reading = FALSE /\ writing = FALSE
  BY SMTT(20) DEF IInv, Control, Output
<1>2. CASE UNCHANGED vars
  BY <1>2, Zenon DEF vars, sendVars
<1>3. CASE RunFunctor
  <2>1. PICK f : f = Head(functors)
    BY Zenon
  <2>2. f.op # "establish"
    <3>1. functors # <<>>
      BY <1>3, Zenon DEF RunFunctor
    <3> QED BY <2>1, <3>1, RestOfFunctors, SMTT(20)
  <2>3. \/ ForceCloseInLoop
        \/ SendInLoop(f.frame) /\ UNCHANGED <<state, reading, closes>>
    BY <1>3, <2>1, <2>2, Zenon DEF RunFunctor
  <2>4. CASE ForceCloseInLoop
    BY <2>4, SMTT(20) DEF ForceCloseInLoop
  <2>5. CASE SendInLoop(f.frame) /\ UNCHANGED <<state, reading, closes>>
    BY <2>5, ClosedSendsNothing, Zenon DEF sendVars
  <2> QED BY <2>3, <2>4, <2>5, Zenon
<1>4. CASE HandleWrite \/ HandleHangup
  BY <1>1, <1>4, Zenon DEF HandleWrite, HandleHangup
<1>5. CASE TimerFires
  BY <1>5, SMTT(20) DEF TimerFires
<1>6. CASE SendFromLoop \/ Shutdown \/ SendCheck \/ SendQueue \/ ForceClose
  BY <1>6, SMTT(20) DEF SendFromLoop, Shutdown, SendCheck, SendQueue, ForceClose, sendVars
<1>7. CASE HandleRead \/ ReceiveEof \/ PeerCloses
  BY <1>7, Zenon DEF HandleRead, ReceiveEof, PeerCloses, sendVars
<1> QED BY <1>2, <1>3, <1>4, <1>5, <1>6, <1>7, Zenon DEF Next, LoopStep

\* Once handleClose has run, the connection stays closed: whatever functors, timers
\* and hang-ups remain, handleClose does not run again in a later event, the socket
\* is not watched and no message is taken.
THEOREM StreamClosedForGood == Spec => ClosedForGood
<1>1. IInv /\ [Next]_vars
      => [state = "Disconnected" => UNCHANGED <<state, closes, reading, writing, taken, outputBuffer>>]_vars
  BY ClosedStaysClosed, Zenon
<1> QED BY <1>1, StreamInvariant, PTL DEF Spec, ClosedForGood
==============================================================================
