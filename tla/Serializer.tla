----------------------------- MODULE Serializer -----------------------------
(***************************************************************************)
(* src/Serializer.cpp: self-describing values as sequences of bytes.       *)
(*                                                                         *)
(* A value is a record of its type and its content.  The sizes are         *)
(* constants, so that every boundary is met by short values: the code has  *)
(* Group = 2^7, Word = 2^64, VarintMax = 10 and DoubleBytes = 8.  A double *)
(* is the sequence of its bytes; a read returns whether it succeeded, what *)
(* it read and the position after it.                                      *)
(***************************************************************************)
EXTENDS Integers, Sequences, FiniteSetsExt, SequencesExt

CONSTANTS
    Group,        \* the payload of a byte of a varint, 2^7
    Word,         \* the range of an unsigned integer, 2^64
    VarintMax,    \* bytes of the longest varint
    DoubleBytes   \* bytes of a double

ASSUME SerializerAssumption ==
    /\ {Group, Word, VarintMax, DoubleBytes} \subseteq Nat
    /\ Word % 2 = 0 /\ 2 * Group > 8
    /\ Group^VarintMax >= Word /\ Group^(VarintMax - 1) < Word

\* Value::Type: the position is the type byte plus one.
Types == <<"Null", "Bool", "Int64", "Uint64", "Double", "String", "Array", "Map", "Struct">>

Value(t, c) == [type |-> t, content |-> c]

-----------------------------------------------------------------------------
(* Integers *)

RECURSIVE WriteVarint(_)
WriteVarint(n) ==
    IF n >= Group THEN <<(n % Group) + Group>> \o WriteVarint(n \div Group) ELSE <<n>>

ZigzagEncode(v) == IF v >= 0 THEN 2 * v ELSE (-2) * v - 1

\* Mutant: the sign is folded in without the complement.
ZigzagDecodeNegated(n) == IF n % 2 = 0 THEN n \div 2 ELSE -(n \div 2)

ZigzagDecode(n) == IF n % 2 = 0 THEN n \div 2 ELSE -(n \div 2) - 1

Failed == [ok |-> FALSE]
Read(v, next) == [ok |-> TRUE, v |-> v, next |-> next]

\* The varint at position p of d: at most VarintMax bytes, the last below Group.
ReadVarint(d, p) ==
    LET last == {i \in 0..(VarintMax - 1) : p + i <= Len(d) /\ d[p + i] < Group}
        n    == Min(last)
    IN IF last = {} THEN Failed
       ELSE Read(FoldLeft(LAMBDA s, i : (s + (d[p + i - 1] % Group) * Group^(i - 1)) % Word, 0,
                          [i \in 1..(n + 1) |-> i]),
                 p + n + 1)

\* readBytes and readLengthDelimited.
ReadBytes(d, p, n) ==
    IF p + n - 1 > Len(d) THEN Failed ELSE Read(SubSeq(d, p, p + n - 1), p + n)

ReadLengthDelimited(d, p) ==
    LET len == ReadVarint(d, p) IN
    IF ~len.ok THEN Failed ELSE ReadBytes(d, len.next, len.v)

-----------------------------------------------------------------------------
(* Writing *)

LengthDelimited(bytes) == WriteVarint(Len(bytes)) \o bytes

RECURSIVE WriteTyped(_)

WriteStructFields(fields) ==
    FlattenSeq([k \in 1..Len(fields) |-> WriteVarint(fields[k].id * 8 + 2) \o WriteTyped(fields[k].v)])

WriteTyped(v) ==
    LET c == v.content IN
    <<CHOOSE t \in 0..8 : Types[t + 1] = v.type>> \o
    CASE v.type = "Null"   -> <<>>
      [] v.type = "Bool"   -> <<IF c THEN 1 ELSE 0>>
      [] v.type = "Int64"  -> WriteVarint(ZigzagEncode(c))
      [] v.type = "Uint64" -> WriteVarint(c)
      [] v.type = "Double" -> c
      [] v.type = "String" -> LengthDelimited(c)
      [] v.type = "Array"  -> LengthDelimited(FlattenSeq([k \in 1..Len(c) |-> WriteTyped(c[k])]))
      [] v.type = "Map"    -> LengthDelimited(FlattenSeq(
             [k \in 1..Len(c) |-> WriteTyped(Value("String", c[k].key)) \o WriteTyped(c[k].v)]))
      [] v.type = "Struct" -> LengthDelimited(WriteStructFields(c))

\* What is not a structure travels as field 1 of one.
Wrapped(v) == IF v.type = "Struct" THEN v ELSE Value("Struct", <<[id |-> 1, v |-> v]>>)

Encode(v) == WriteStructFields(Wrapped(v).content)

-----------------------------------------------------------------------------
(* Reading *)

Typed(r, t) == IF r.ok THEN Read(Value(t, r.v), r.next) ELSE Failed

RECURSIVE ReadTyped(_, _), ReadElements(_, _), ReadEntries(_, _), ReadStructFields(_, _)

\* The elements of an array from position p on.
ReadElements(d, p) ==
    IF p > Len(d) THEN Read(<<>>, p)
    ELSE LET e    == ReadTyped(d, p)
             rest == ReadElements(d, e.next)
         IN IF e.ok /\ rest.ok THEN Read(<<e.v>> \o rest.v, rest.next) ELSE Failed

\* The entries of a map; the keys must be strings.
ReadEntries(d, p) ==
    IF p > Len(d) THEN Read(<<>>, p)
    ELSE LET key  == ReadTyped(d, p)
             val  == ReadTyped(d, key.next)
             rest == ReadEntries(d, val.next)
         IN IF key.ok /\ val.ok /\ key.v.type = "String" /\ rest.ok
            THEN Read(<<[key |-> key.v.content, v |-> val.v]>> \o rest.v, rest.next)
            ELSE Failed

ReadStructFields(d, p) ==
    IF p > Len(d) THEN Read(<<>>, p)
    ELSE LET tag  == ReadVarint(d, p)
             f    == ReadTyped(d, tag.next)
             rest == ReadStructFields(d, f.next)
         IN IF tag.ok /\ f.ok /\ rest.ok
            THEN Read(<<[id |-> tag.v \div 8, v |-> f.v]>> \o rest.v, rest.next)
            ELSE Failed

\* A value of type t: the items of a length-delimited payload, all of which must be
\* readable.
Nested(t, payload, items) ==
    IF payload.ok /\ items.ok THEN Read(Value(t, items.v), payload.next) ELSE Failed

ReadTyped(d, p) ==
    IF p > Len(d) \/ d[p] > 8 THEN Failed
    ELSE LET t    == Types[d[p] + 1]
             byte == ReadBytes(d, p + 1, 1)
             int  == ReadVarint(d, p + 1)
             part == ReadLengthDelimited(d, p + 1)
         IN CASE t = "Null"   -> Read(Value("Null", <<>>), p + 1)
              [] t = "Bool"   -> IF byte.ok THEN Read(Value(t, byte.v[1] # 0), byte.next) ELSE Failed
              [] t = "Int64"  -> IF int.ok THEN Read(Value(t, ZigzagDecode(int.v)), int.next) ELSE Failed
              [] t = "Uint64" -> Typed(int, t)
              [] t = "Double" -> Typed(ReadBytes(d, p + 1, DoubleBytes), t)
              [] t = "String" -> Typed(part, t)
              [] t = "Array"  -> Nested(t, part, ReadElements(part.v, 1))
              [] t = "Map"    -> Nested(t, part, ReadEntries(part.v, 1))
              [] t = "Struct" -> Nested(t, part, ReadStructFields(part.v, 1))

Decode(d) == Typed(ReadStructFields(d, 1), "Struct")
==============================================================================
