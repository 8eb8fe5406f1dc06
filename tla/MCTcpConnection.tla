--------------------------- MODULE MCTcpConnection ---------------------------
(***************************************************************************)
(* A connection whose messages carry encoded values: those at the          *)
(* boundaries of every type, for TLC.                                      *)
(***************************************************************************)
EXTENDS TcpConnection, Serializer

Str(n) == Value("String", [k \in 1..n |-> k % 16])
Arr(s) == Value("Array", s)
Signed(n) == Value("Int64", n)
Unsigned(n) == Value("Uint64", n)

Payloads == <<
    Value("Null", <<>>),
    Value("Bool", TRUE),
    Arr(<<Value("Bool", FALSE), Signed(3), Signed(-4), Signed(4)>>),
    Arr(<<Signed(-5), Signed(31), Signed(-32)>>),
    Arr(<<Signed(32), Signed(127), Signed(-128)>>),
    Arr(<<Unsigned(7), Unsigned(8), Unsigned(63), Unsigned(64), Unsigned(255)>>),
    Value("Double", <<15, 8>>),
    Str(0), Str(7), Str(8),
    Arr(<<>>),
    Value("Map", <<[key |-> <<>>, v |-> Signed(0)], [key |-> <<9>>, v |-> Arr(<<Str(1)>>)]>>),
    Value("Struct", <<>>),
    Value("Struct", <<[id |-> 0, v |-> Unsigned(0)], [id |-> 31, v |-> Value("Struct", <<>>)]>>),
    Value("Struct", <<[id |-> 2, v |-> Value("Struct", <<[id |-> 1, v |-> Str(2)]>>)]>>),
    Str(40)>>

MCBodies == [k \in 1..Len(Payloads) |-> Encode(Payloads[k])]

\* A message of any kind, and three short ones; the last is sent by the loop.
MCScripts == {<<v, 1>> : v \in 1..Len(Payloads)} \cup {<<2, 7, 1>>}

\* What the receiver decodes is the value that was encoded, wrapped in a structure
\* when it was none.
ReceivedAsSent ==
    \A k \in 1..Len(delivered) :
        LET r == Decode(delivered[k].body)
        IN r.ok /\ r.v = Wrapped(Payloads[script[delivered[k].id]])
==============================================================================
