-------------------------------- MODULE Protocol --------------------------------
(***************************************************************************)
(* How a message becomes a datagram and a datagram a message: serialize()  *)
(* of Message.h, the receive buffer of a listener, decode() of             *)
(* Serializer.cpp.                                                         *)
(*                                                                         *)
(* A field is a value and a width.  Byte i of the value v is the pair      *)
(* <<v, i>>: which bytes they are does not matter, which belong together   *)
(* does.  A listener has one buffer, in which a datagram leaves whatever   *)
(* the one before it had beyond its end; recvfrom cuts off what is too     *)
(* long.                                                                   *)
(***************************************************************************)
EXTENDS Naturals, Sequences

CONSTANTS
    BUFFER_SIZE,      \* Config.h: bytes of the buffer of a listener
    FILE_CHUNK_SIZE,  \* Config.h: bytes of File_Msg::data
    MAX_SIZE,         \* the largest header.size decode() takes, 4096
    Payload,          \* the contents of a field, other than the header
    Nothing,          \* what a byte that no field agrees on holds
    Messages          \* the messages sent

Field(name, width) == [name |-> name, width |-> width]

MessageType == {"HEARTBEAT", "FILE_MSG", "ACK", "COMMAND"}

\* What every message begins with.  A width is the sizeof of what the build lays
\* out: bool, int16_t, int32_t, double, and Header with its padding.
Prefix == <<Field("header", 8), Field("senderId", 4), Field("senderPort", 4)>>

\* serialize(): the fields in the order in which they are appended.
Written(type) ==
    Prefix \o
    CASE type = "HEARTBEAT" -> <<Field("alive", 1)>>
      [] type = "FILE_MSG"  ->
            <<Field("data", FILE_CHUNK_SIZE), Field("len", 2), Field("last", 1)>>
      [] type = "ACK"       -> <<Field("received", 1)>>
      [] type = "COMMAND"   ->
            <<Field("x", 8), Field("y", 8), Field("z", 8),
              Field("vx", 8), Field("vy", 8), Field("vz", 8)>>

\* decode(): what it copies before it looks at the type.
ReadFirst == <<Field("header", 8), Field("senderId", 4), Field("senderPort", 4)>>

\* Fault: the flag is looked for in front of the length.
ReadLastFirst(type) ==
    CASE type = "HEARTBEAT" -> <<Field("alive", 1)>>
      [] type = "FILE_MSG"  ->
            <<Field("data", FILE_CHUNK_SIZE), Field("last", 1), Field("len", 2)>>
      [] type = "ACK"       -> <<Field("received", 1)>>
      [] type = "COMMAND"   ->
            <<Field("x", 8), Field("y", 8), Field("z", 8),
              Field("vx", 8), Field("vy", 8), Field("vz", 8)>>

\* decode(): the fields a case of its switch copies out of the buffer, in order.
ReadBy(type) ==
    CASE type = "HEARTBEAT" -> <<Field("alive", 1)>>
      [] type = "FILE_MSG"  ->
            <<Field("data", FILE_CHUNK_SIZE), Field("len", 2), Field("last", 1)>>
      [] type = "ACK"       -> <<Field("received", 1)>>
      [] type = "COMMAND"   ->
            <<Field("x", 8), Field("y", 8), Field("z", 8),
              Field("vx", 8), Field("vy", 8), Field("vz", 8)>>

Widths(fields) ==
    LET sum[i \in 0 .. Len(fields)] ==
            IF i = 0 THEN 0 ELSE sum[i - 1] + fields[i].width
    IN  sum[Len(fields)]

\* sizeof of the struct, with the pointer to the virtual table in front and
\* padded to eight bytes: what the senders put in header.size.
StructSize(type) == ((8 + Widths(Written(type)) + 7) \div 8) * 8

Names(fields) == {fields[i].name : i \in DOMAIN fields}

HeaderOf(type) == [type |-> type, size |-> StructSize(type)]

\* The messages the senders make: fields by name.
AllMessages ==
    UNION { { [n \in Names(Written(t)) |-> IF n = "header" THEN HeaderOf(t) ELSE v[n]] :
                v \in [Names(Written(t)) -> Payload] } : t \in MessageType }

\* The sizes of Config.h agree with each other: the longest datagram fits the
\* buffer, and no struct is too large for decode().
ASSUME ProtocolAssumption ==
    /\ BUFFER_SIZE \in Nat /\ FILE_CHUNK_SIZE \in Nat \ {0} /\ MAX_SIZE \in Nat
    /\ \A t \in MessageType :
          Widths(Written(t)) <= BUFFER_SIZE /\ StructSize(t) <= MAX_SIZE
    /\ Messages \subseteq AllMessages

VARIABLES
    buffer,    \* the receive buffer of the listener
    sent,      \* the last message sent
    received   \* what decode() made of it

vars == <<buffer, sent, received>>

Rejected == "rejected"

--------------------------------------------------------------------------------
\* appendBytes.
BytesOf(value, width) == [i \in 1 .. width |-> <<value, i>>]

\* The fields of m that are named, one appended after the other.
Appended(m, fields) ==
    LET bytes[i \in 0 .. Len(fields)] ==
            IF i = 0 THEN <<>>
            ELSE bytes[i - 1] \o BytesOf(m[fields[i].name], fields[i].width)
    IN  bytes[Len(fields)]

Serialize(m) == Appended(m, Written(m["header"].type))

\* recvfrom: how much of the datagram is taken, and what is in the buffer then.
Taken(bytes) == IF Len(bytes) < BUFFER_SIZE THEN Len(bytes) ELSE BUFFER_SIZE

Filled(bytes) ==
    [i \in 1 .. BUFFER_SIZE |-> IF i <= Taken(bytes) THEN bytes[i] ELSE buffer[i]]

\* memcpy: a field whose bytes are not those of one value holds nothing sensible.
Copied(buf, offset, width) ==
    LET value == buf[offset + 1][1]
    IN  IF SubSeq(buf, offset + 1, offset + width) = BytesOf(value, width)
          THEN value
          ELSE Nothing

Decoded(buf, fields) ==
    LET offset(i) == Widths(SubSeq(fields, 1, i - 1))
        index(n)  == CHOOSE i \in DOMAIN fields : fields[i].name = n
    IN  [n \in Names(fields) |-> Copied(buf, offset(index(n)), fields[index(n)].width)]

\* Fault: a struct that just reaches the limit is refused.
DecodeStrict(buf, size) ==
    LET head == Copied(buf, 0, 8)
    IN  IF size < 8 \/ head.size < 8 \/ head.size >= MAX_SIZE
          THEN Rejected
          ELSE Decoded(buf, ReadFirst \o ReadBy(head.type))

\* decode(): the two tests, then the fields of the type.
Decode(buf, size) ==
    LET head == Copied(buf, 0, 8)
    IN  IF size < 8 \/ head.size < 8 \/ head.size > MAX_SIZE
          THEN Rejected
          ELSE Decoded(buf, ReadFirst \o ReadBy(head.type))

--------------------------------------------------------------------------------
Blank == [i \in 1 .. BUFFER_SIZE |-> <<Nothing, 0>>]

Init ==
    /\ buffer = Blank
    /\ sent = Rejected
    /\ received = Rejected

\* A datagram is sent, arrives and is decoded.
Exchange(m) ==
    /\ sent' = m
    /\ buffer' = Filled(Serialize(m))
    /\ received' = Decode(buffer', Taken(Serialize(m)))

Next == \E m \in Messages : Exchange(m)

Spec == Init /\ [][Next]_vars

--------------------------------------------------------------------------------
(* Properties                                                               *)

\* What decode() returns is the message that was sent, each field of it, whatever
\* datagram was in the buffer before, up to the largest that fits.
RoundTrip == received = sent

================================================================================
