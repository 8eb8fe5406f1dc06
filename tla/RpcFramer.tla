------------------------------ MODULE RpcFramer ------------------------------
(***************************************************************************)
(* src/RpcFramer.cpp and include/Protocol.h: messages as frames, and the   *)
(* frames of a byte stream.  The header is three units, of which the       *)
(* properties need the magic with the version, the request id and the      *)
(* length of the body.                                                     *)
(***************************************************************************)
EXTENDS Integers, Sequences

CONSTANTS
    MaxBodyLen,   \* kMaxBodyLen
    Magic         \* kMagic and kVersion

ASSUME FramerAssumption == MaxBodyLen \in Nat /\ Magic \in Int

HeaderSize == 3

EncodeHeader(id, bodyLen) == <<Magic, id, bodyLen>>

\* proto::decodeHeader: is this a header of the protocol?
DecodeHeader(buffer) == buffer[1] = Magic

\* RpcFramer::encode: a body that is too large yields an empty frame.
EncodeFrame(id, body) ==
    IF Len(body) > MaxBodyLen THEN <<>> ELSE EncodeHeader(id, Len(body)) \o body

\* Buffer::retrieve.
Retrieve(buffer, n) == IF n >= Len(buffer) THEN <<>> ELSE SubSeq(buffer, n + 1, Len(buffer))

\* A round of the loop of RpcFramer::decode, with the messages so far and what is
\* left of the buffer: an incomplete frame stays, a foreign one drops everything.
DecodeRound(s) ==
    LET b == s.rest IN
    IF Len(b) < HeaderSize THEN s
    ELSE IF ~DecodeHeader(b) \/ b[3] > MaxBodyLen THEN [s EXCEPT !.rest = <<>>]
    ELSE IF Len(b) < HeaderSize + b[3] THEN s
    ELSE [msgs |-> Append(s.msgs, [id   |-> b[2],
                                   body |-> SubSeq(b, HeaderSize + 1, HeaderSize + b[3])]),
          rest |-> Retrieve(b, HeaderSize + b[3])]

\* RpcFramer::decode: the messages at the front of the buffer and what is left.
\* There are fewer rounds than units in the buffer; a round after the last does
\* nothing.
DecodeFrames(buffer) ==
    LET after[i \in 0..Len(buffer)] ==
            IF i = 0 THEN [msgs |-> <<>>, rest |-> buffer] ELSE DecodeRound(after[i - 1])
    IN after[Len(buffer)]
==============================================================================
