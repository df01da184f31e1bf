------------------------------- MODULE Codec --------------------------------
(***************************************************************************)
(* The wire format of MQTTPacket.c, MQTTPacketOut.c and MQTTProperties.c:  *)
(* the client writes packets into buffers it has sized beforehand and      *)
(* reads packets that TCP delivers in pieces of any size, in MQTT 3.1,     *)
(* 3.1.1 and 5.                                                            *)
(*                                                                         *)
(* Numbers are scaled down: Base stands for the 128 of the variable byte   *)
(* integer and ByteBase for the 256 of a byte.  The header byte is kept as *)
(* its fields.                                                             *)
(***************************************************************************)
EXTENDS Integers, Sequences, SequencesExt, FiniteSetsExt

CONSTANTS
    Base,         \* values of a digit of a variable byte integer: 128
    ByteBase,     \* values of a byte: 256
    MaxLenBytes,  \* MAX_NO_OF_REMAINING_LENGTH_BYTES
    Stray,        \* the bytes a read past the end of a packet finds
    Packets,      \* the first packet written
    Followers,    \* the packets that may follow it
    MaxPackets    \* bound: packets in one behaviour

ASSUME CodecAssumption ==
    /\ Base \in Nat \ {0, 1} /\ ByteBase \in Nat /\ ByteBase >= 2 * Base
    /\ MaxLenBytes \in Nat \ {0} /\ MaxPackets \in Nat \ {0}
    /\ Stray \in Seq(0..(ByteBase - 1)) /\ Len(Stray) > MaxLenBytes /\ Len(Stray) >= 4

VARIABLES
    version,  \* MQTTVersion: 3, 4 or 5
    sent,     \* the packets written, in order
    transit,  \* bytes in transit
    socket,   \* bytes that have arrived and belong to no packet read yet
    read,     \* what MQTTPacket_Factory has returned, in order
    error,    \* SOCKET_ERROR: the connection is given up
    undefined \* memory of malloc has been used that nothing has written

vars == <<version, sent, transit, socket, read, error, undefined>>

COMPLETE == "TCPSOCKET_COMPLETE"
INTERRUPTED == "TCPSOCKET_INTERRUPTED"
SOCKET_ERROR == "SOCKET_ERROR"

-----------------------------------------------------------------------------
\* Integers and strings.

\* MQTTPacket_encode
encode[n \in Nat] ==
    IF n < Base THEN <<n>> ELSE <<(n % Base) + Base>> \o encode[n \div Base]

\* MQTTPacket_decode, MQTTPacket_VBIdecode: the bytes up to the first without the
\* continuation bit, of which there may be MaxLenBytes.
\* Mutant: the last digit allowed is not.
DecodeShort(bytes) ==
    LET digits == 1..Min({Len(bytes), MaxLenBytes - 1})
        n == CHOOSE i \in digits : bytes[i] < Base /\ \A j \in 1..(i - 1) : bytes[j] >= Base
    IN  IF \E i \in digits : bytes[i] < Base
        THEN [rc |-> COMPLETE, len |-> n,
              value |-> MapThenSumSet(LAMBDA i : (bytes[i] % Base) * Base ^ (i - 1), 1..n)]
        ELSE [rc |-> IF Len(bytes) >= MaxLenBytes THEN SOCKET_ERROR ELSE INTERRUPTED,
              len |-> 0, value |-> 0]
Decode(bytes) ==
    LET digits == 1..Min({Len(bytes), MaxLenBytes})
        n == CHOOSE i \in digits : bytes[i] < Base /\ \A j \in 1..(i - 1) : bytes[j] >= Base
    IN  IF \E i \in digits : bytes[i] < Base
        THEN [rc |-> COMPLETE, len |-> n,
              value |-> MapThenSumSet(LAMBDA i : (bytes[i] % Base) * Base ^ (i - 1), 1..n)]
        ELSE [rc |-> IF Len(bytes) >= MaxLenBytes THEN SOCKET_ERROR ELSE INTERRUPTED,
              len |-> 0, value |-> 0]

\* MQTTPacket_decodeBuf, whose bufchar knows no end: it goes on into what follows the
\* packet, and its length for a number without an end is one more than it may have.
DecodeBuf(bytes) ==
    LET from == bytes \o Stray
        digits == 1..MaxLenBytes
    IN  IF Decode(from).rc = COMPLETE THEN Decode(from)
        ELSE [rc |-> SOCKET_ERROR, len |-> MaxLenBytes + 1,
              value |-> MapThenSumSet(LAMBDA i : (from[i] % Base) * Base ^ (i - 1), digits)]

\* MQTTPacket_VBIlen
\* Mutant: the limits of the comment above the code, one too small.
VBIlenLimits(n) ==
    IF n < Base THEN 1 ELSE IF n < Base ^ 2 - 1 THEN 2 ELSE IF n < Base ^ 3 - 1 THEN 3 ELSE 4
VBIlen(n) ==
    IF n < Base THEN 1 ELSE IF n < Base ^ 2 THEN 2 ELSE IF n < Base ^ 3 THEN 3 ELSE 4

\* Mutant: the quotient is not reduced.
WriteIntSwapped(n) == <<n % ByteBase, n>>
WriteInt(n) == <<n \div ByteBase, n % ByteBase>>
ReadInt(bytes) == ByteBase * bytes[1] + bytes[2]

\* writeInt4 takes an int: the upper half of the unsigned values arrives as negative
\* numbers, which / and % of C divide towards zero before a byte is cut off.
TopInt4 == ByteBase ^ 4 \div 2
AsInt(n) == IF n < TopInt4 THEN n ELSE n - ByteBase ^ 4
Quotient(a, b) == IF a < 0 THEN -((-a) \div b) ELSE a \div b
Remainder(a, b) == a - b * Quotient(a, b)
WriteInt4(n) ==
    LET low3 == Remainder(AsInt(n), ByteBase ^ 3)
        low2 == Remainder(low3, ByteBase ^ 2)
    IN  << Quotient(AsInt(n), ByteBase ^ 3) % ByteBase, Quotient(low3, ByteBase ^ 2) % ByteBase,
           Quotient(low2, ByteBase) % ByteBase, Remainder(low2, ByteBase) % ByteBase >>

\* readInt4, whose int becomes the unsigned integer4: the overflow wraps back.
ReadInt4(bytes) == ByteBase ^ 2 * ReadInt(bytes) + ReadInt(SubSeq(bytes, 3, 4))

\* writeUTF, writeData, writeMQTTLenString
WriteString(string) == WriteInt(Len(string)) \o string

After(bytes, n) == SubSeq(bytes, n + 1, Len(bytes))

\* readUTFlen, MQTTLenStringRead: the string and its length with the two bytes in
\* front of it; length -1 if it would go past the end.
ReadString(bytes) ==
    IF Len(bytes) < 2 \/ (Len(bytes) >= 2 /\ 2 + ReadInt(bytes) > Len(bytes))
    THEN [len |-> -1, string |-> <<>>]
    ELSE [len |-> 2 + ReadInt(bytes), string |-> SubSeq(bytes, 3, 2 + ReadInt(bytes))]

-----------------------------------------------------------------------------
\* MQTT 5 properties.

\* namesToTypes, MQTTProperty_getType: one identifier for each type of value; binary
\* data is written like a string.
PropertyType == <<"byte", "two", "four", "variable", "string", "pair">>

\* The length MQTTProperties_add adds for a property, the identifier included.
PropertyLen(prop) ==
    1 + CASE PropertyType[prop.id] = "byte" -> 1
          [] PropertyType[prop.id] = "two" -> 2
          [] PropertyType[prop.id] = "four" -> 4
          [] PropertyType[prop.id] = "variable" -> VBIlen(prop.value)
          [] PropertyType[prop.id] = "string" -> 2 + Len(prop.value[1])
          [] PropertyType[prop.id] = "pair" -> 4 + Len(prop.value[1]) + Len(prop.value[2])

Total(Length(_), seq) == FoldLeft(LAMBDA sum, x : sum + Length(x), 0, seq)

\* MQTTProperties_len
PropertiesLen(props) ==
    LET length == Total(PropertyLen, props) IN length + VBIlen(length)

\* MQTTProperty_write
WriteProperty(prop) ==
    <<prop.id>> \o
    CASE PropertyType[prop.id] = "byte" -> <<prop.value>>
      [] PropertyType[prop.id] = "two" -> WriteInt(prop.value)
      [] PropertyType[prop.id] = "four" -> WriteInt4(prop.value)
      [] PropertyType[prop.id] = "variable" -> encode[prop.value]
      [] PropertyType[prop.id] = "string" -> WriteString(prop.value[1])
      [] PropertyType[prop.id] = "pair" -> WriteString(prop.value[1]) \o WriteString(prop.value[2])

WriteAll(Write(_), seq) == FoldLeft(LAMBDA bytes, x : bytes \o Write(x), <<>>, seq)

\* MQTTProperties_write
WriteProperties(props) ==
    encode[Total(PropertyLen, props)] \o WriteAll(WriteProperty, props)

\* MQTTProperty_read: the property, and its length or -1.  Only strings are held
\* against enddata; everything else is read whether it is there or not.
ReadProperty(bytes) ==
    LET id == (bytes \o Stray)[1]
        rest == After(bytes, 1)
        open == After(bytes \o Stray, 1)
        Read(len, value) == [len |-> IF len = -1 THEN -1 ELSE 1 + len,
                             prop |-> [id |-> id, value |-> value]]
        first == ReadString(rest)
        second == ReadString(After(rest, first.len))
    IN  CASE id \notin DOMAIN PropertyType -> Read(-1, 0)
          [] PropertyType[id] = "byte" -> Read(1, open[1])
          [] PropertyType[id] = "two" -> Read(2, ReadInt(open))
          [] PropertyType[id] = "four" -> Read(4, ReadInt4(open))
          [] PropertyType[id] = "variable" -> Read(DecodeBuf(rest).len, DecodeBuf(rest).value)
          [] PropertyType[id] = "string" -> Read(first.len, <<first.string>>)
          [] PropertyType[id] = "pair" /\ first.len = -1 -> Read(-1, 0)
          [] PropertyType[id] = "pair" /\ first.len # -1 ->
                Read(IF second.len = -1 THEN -1 ELSE first.len + second.len,
                     <<first.string, second.string>>)

\* The loop of MQTTProperties_read, which ends at a property that cannot be read: one
\* that is longer than remlength leaves it negative, which the code's unsigned number
\* cannot be, and the loop goes on in both.
RECURSIVE ReadList(_, _, _)
ReadList(props, bytes, remlength) ==
    LET Continue(p) == IF p.len = -1 THEN [ok |-> FALSE, props |-> props]
                       ELSE ReadList(Append(props, p.prop), After(bytes, p.len), remlength - p.len)
    IN  IF remlength = 0 THEN [ok |-> TRUE, props |-> props] ELSE Continue(ReadProperty(bytes))

\* MQTTProperties_read: the properties and the length of what was read.
ReadProperties(bytes) ==
    LET List(remlength) ==
            [list |-> ReadList(<<>>, After(bytes, remlength.len), remlength.value),
             len |-> remlength.len + remlength.value]
    IN  IF bytes = <<>> THEN [list |-> [ok |-> FALSE, props |-> <<>>], len |-> 0]
        ELSE List(DecodeBuf(bytes))

-----------------------------------------------------------------------------
\* Packets.  Every packet is a record with the same fields, those its type does not
\* use being empty.

Blank == [type |-> "", qos |-> 0, msgId |-> 0, rc |-> 0, strings |-> <<>>, data |-> <<>>,
          props |-> <<>>, will |-> <<>>, username |-> <<>>, password |-> <<>>,
          long |-> 0,    \* whether an acknowledgement has a reason code (1) and properties (2)
          raw |-> FALSE] \* the body is data, whatever the type prescribes

Acks == {"PUBACK", "PUBREC", "PUBREL", "PUBCOMP"}

\* What MQTTPacket_Factory logs and drops: the packets without an entry in
\* new_packets, and before MQTT 5 those from DISCONNECT on.
Ignored(v, type) ==
    \/ type \in {"RESERVED", "CONNECT", "SUBSCRIBE", "UNSUBSCRIBE"}
    \/ v < 5 /\ type \in {"DISCONNECT", "AUTH"}

Properties(v, props) == IF v >= 5 THEN WriteProperties(props) ELSE <<>>
PropertiesRoom(v, props) == IF v >= 5 THEN PropertiesLen(props) ELSE 0

Optional(write, present) == IF present THEN write ELSE <<>>

\* MQTTPacket_send_connect; will is the topic and the payload of the will message, with
\* the same properties as the packet, msgId stands for keepAliveInterval.
ConnectBody(v, p) ==
    WriteString(IF v = 3 THEN <<1, 2, 3, 4, 5, 6>> ELSE <<1, 2, 3, 4>>)
        \o <<v, 0>> \o WriteInt(p.msgId)
        \o Properties(v, p.props) \o WriteString(p.strings[1])
        \o Optional(Properties(v, p.props), p.will # <<>>) \o WriteAll(WriteString, p.will)
        \o WriteAll(WriteString, p.username) \o WriteAll(WriteString, p.password)

StringRoom(string) == Len(string) + 2

ConnectRoom(v, p) ==
    (IF v = 3 THEN 12 ELSE 10) + StringRoom(p.strings[1]) + Total(StringRoom, p.will)
        + Total(StringRoom, p.username) + Total(StringRoom, p.password)
        + PropertiesRoom(v, p.props) + IF p.will # <<>> THEN PropertiesRoom(v, p.props) ELSE 0

\* MQTTPacket_send_subscribe: the topics and a byte of options for each.
SubscribeBody(v, p) ==
    WriteInt(p.msgId) \o Properties(v, p.props)
        \o WriteAll(LAMBDA topic : WriteString(topic) \o <<p.qos>>, p.strings)
SubscribeRoom(v, p) ==
    2 + Len(p.strings) * 3 + Total(Len, p.strings) + PropertiesRoom(v, p.props)

\* MQTTPacket_send_unsubscribe
UnsubscribeBody(v, p) ==
    WriteInt(p.msgId) \o Properties(v, p.props) \o WriteAll(WriteString, p.strings)
UnsubscribeRoom(v, p) ==
    2 + Len(p.strings) * 2 + Total(Len, p.strings) + PropertiesRoom(v, p.props)

\* MQTTPacket_send_publish: the third of its four buffers is sized beforehand.
PublishMiddle(v, p) == Optional(WriteInt(p.msgId), p.qos > 0) \o Properties(v, p.props)
PublishBody(v, p) == WriteString(p.strings[1]) \o PublishMiddle(v, p) \o p.data
PublishRoom(v, p) ==
    2 + Len(p.strings[1]) + (IF p.qos > 0 THEN 2 ELSE 0) + PropertiesRoom(v, p.props) + Len(p.data)

\* MQTTPacket_send_disconnect, and what a server appends to an acknowledgement.
Reason(v, p) ==
    Optional(<<p.rc>>, v >= 5 /\ p.long >= 1) \o Optional(WriteProperties(p.props), v >= 5 /\ p.long = 2)
ReasonRoom(v, p) ==
    IF v >= 5 /\ p.long >= 1 THEN 1 + IF p.long = 2 THEN PropertiesLen(p.props) ELSE 0 ELSE 0

\* The packets a server writes, as MQTTPacket_connack, _suback and _unsuback expect them.
ServerBody(v, p) ==
    CASE p.type = "CONNACK" -> p.data \o <<p.rc>> \o Optional(WriteProperties(p.props), v >= 5 /\ p.long = 2)
      [] p.type = "SUBACK" -> WriteInt(p.msgId) \o Properties(v, p.props) \o p.data
      [] p.type = "UNSUBACK" -> WriteInt(p.msgId) \o Optional(WriteProperties(p.props) \o p.data, v >= 5)
      [] OTHER -> <<>>

Body(v, p) ==
    CASE p.raw -> p.data
      [] ~p.raw /\ p.type = "CONNECT" -> ConnectBody(v, p)
      [] ~p.raw /\ p.type = "SUBSCRIBE" -> SubscribeBody(v, p)
      [] ~p.raw /\ p.type = "UNSUBSCRIBE" -> UnsubscribeBody(v, p)
      [] ~p.raw /\ p.type = "PUBLISH" -> PublishBody(v, p)
      [] ~p.raw /\ p.type \in Acks -> WriteInt(p.msgId) \o Reason(v, p)
      [] ~p.raw /\ p.type = "DISCONNECT" -> Reason(v, p)
      [] OTHER -> ServerBody(v, p)

\* The room the client allocates for a body; -1 for what it does not write.
Room(v, p) ==
    CASE p.raw -> -1
      [] ~p.raw /\ p.type = "CONNECT" -> ConnectRoom(v, p)
      [] ~p.raw /\ p.type = "SUBSCRIBE" -> SubscribeRoom(v, p)
      [] ~p.raw /\ p.type = "UNSUBSCRIBE" -> UnsubscribeRoom(v, p)
      [] ~p.raw /\ p.type = "PUBLISH" -> PublishRoom(v, p)
      [] ~p.raw /\ p.type = "DISCONNECT" -> ReasonRoom(v, p)
      [] ~p.raw /\ p.type \in Acks /\ p.long = 0 -> 2
      [] OTHER -> -1

\* MQTTPacket_send, MQTTPacket_sends
Wire(v, p) ==
    LET body == Body(v, p)
    IN  <<[type |-> p.type, qos |-> p.qos]>> \o encode[Len(body)] \o body

-----------------------------------------------------------------------------
\* Reading.  A parser returns NULL for a body it cannot use.

NULL == [Blank EXCEPT !.type = "NULL"]

\* What a parser gives back, or frees, after it has left a member of its malloc
\* unwritten: the next use of it may do anything.
UNDEFINED == [Blank EXCEPT !.type = "UNDEFINED"]

\* The properties at the end of what has been read, if there are any in this version.
WithProperties(v, pack, rest, Then(_, _)) ==
    LET Continue(r) == IF ~r.list.ok THEN NULL
                       ELSE Then([pack EXCEPT !.props = r.list.props], After(rest, r.len))
    IN  IF v < 5 THEN Then(pack, rest) ELSE Continue(ReadProperties(rest))

\* MQTTPacket_publish
ParsePublish(v, pack, body) ==
    LET topic == ReadString(body)
        rest == After(body, topic.len)
        idLen == IF pack.qos = 0 THEN 0 ELSE 2
        Payload(q, bytes) == [q EXCEPT !.data = bytes]
        titled == [pack EXCEPT !.strings = <<topic.string>>,
                               !.msgId = IF idLen = 0 THEN 0 ELSE ReadInt(rest)]
    IN  IF topic.len = -1 THEN NULL
        ELSE IF Len(rest) < idLen THEN NULL
        ELSE WithProperties(v, titled, After(rest, idLen), Payload)

\* MQTTPacket_ack, which also reads DISCONNECT, the one without a message id.
\* Mutant: the reason code is read where the message id of a DISCONNECT would be.
ParseAckNoDisconnect(v, pack, body) ==
    LET Keep(q, bytes) == q
        coded == [pack EXCEPT !.msgId = ReadInt(body), !.rc = body[3]]
    IN  IF Len(body) < 2 THEN NULL
        ELSE IF v < 5 \/ Len(body) = 2 THEN [pack EXCEPT !.msgId = ReadInt(body)]
        ELSE IF Len(body) = 3 THEN coded
        ELSE WithProperties(v, coded, After(body, 3), Keep)
ParseAck(v, pack, body) ==
    LET idLen == IF pack.type = "DISCONNECT" THEN 0 ELSE 2
        withId == IF idLen = 0 THEN pack ELSE [pack EXCEPT !.msgId = ReadInt(body)]
        Keep(q, bytes) == q
    IN  IF Len(body) < idLen THEN NULL
        ELSE IF v < 5 \/ Len(body) = idLen THEN withId
        ELSE LET coded == [withId EXCEPT !.rc = body[idLen + 1]]
             IN  IF Len(body) = idLen + 1 THEN coded
                 ELSE WithProperties(v, coded, After(body, idLen + 1), Keep)

\* MQTTPacket_connack: in MQTT 5 pack->properties is only written if there are more
\* than two bytes, and MQTTPacket_freeConnack frees it in any case.
ParseConnack(v, pack, body) ==
    LET Keep(q, bytes) == q
    IN  IF Len(body) < 2 THEN NULL
        ELSE LET coded == [pack EXCEPT !.data = <<body[1]>>, !.rc = body[2]]
             IN  IF v >= 5 /\ Len(body) > 2 THEN WithProperties(v, coded, After(body, 2), Keep)
                 ELSE IF v >= 5 THEN UNDEFINED
                 ELSE coded

\* MQTTPacket_suback and MQTTPacket_unsuback: a list of codes that may not be empty,
\* which an UNSUBACK only has in MQTT 5.  For an empty one properties.array is freed,
\* which is written in MQTT 5 alone.
ParseSuback(v, pack, body) ==
    LET Codes(q, bytes) == IF bytes = <<>> THEN IF v < 5 THEN UNDEFINED ELSE NULL ELSE [q EXCEPT !.data = bytes]
    IN  IF Len(body) < 2 THEN NULL
        ELSE IF pack.type = "UNSUBACK" /\ v < 5 THEN [pack EXCEPT !.msgId = ReadInt(body)]
        ELSE WithProperties(v, [pack EXCEPT !.msgId = ReadInt(body)], After(body, 2), Codes)

\* new_packets
Parse(v, header, body) ==
    LET pack == [Blank EXCEPT !.type = header.type, !.qos = header.qos]
    IN  CASE header.type = "PUBLISH" -> ParsePublish(v, pack, body)
          [] header.type \in Acks \union {"DISCONNECT", "AUTH"} -> ParseAck(v, pack, body)
          [] header.type = "CONNACK" -> ParseConnack(v, pack, body)
          [] header.type \in {"SUBACK", "UNSUBACK"} -> ParseSuback(v, pack, body)
          [] OTHER -> pack   \* MQTTPacket_header_only

\* MQTTPacket_Factory: what it returns and how many bytes it has used.  Interrupted,
\* it uses none: the socket layer keeps them for the next call.
\* Mutant: the last byte of a packet is not waited for.
FactoryOffByOne(v, bytes) ==
    LET length == Decode(Tail(bytes))
        used == 1 + length.len + length.value
        Result(rc, p, n) == [rc |-> rc, pack |-> p, used |-> n]
        Parsed(p) == Result(IF p = NULL THEN SOCKET_ERROR ELSE COMPLETE, p, used)
    IN  IF length.rc # COMPLETE THEN Result(length.rc, NULL, 0)
        ELSE IF Len(bytes) <= used THEN Result(INTERRUPTED, NULL, 0)
        ELSE IF Ignored(v, bytes[1].type) THEN Result(COMPLETE, NULL, used)
        ELSE Parsed(Parse(v, bytes[1], SubSeq(bytes, 2 + length.len, used)))
Factory(v, bytes) ==
    LET length == Decode(Tail(bytes))
        used == 1 + length.len + length.value
        Result(rc, p, n) == [rc |-> rc, pack |-> p, used |-> n]
        Parsed(p) == Result(IF p = NULL THEN SOCKET_ERROR ELSE COMPLETE, p, used)
    IN  IF length.rc # COMPLETE THEN Result(length.rc, NULL, 0)
        ELSE IF Len(bytes) < used THEN Result(INTERRUPTED, NULL, 0)
        ELSE IF Ignored(v, bytes[1].type) THEN Result(COMPLETE, NULL, used)
        ELSE Parsed(Parse(v, bytes[1], SubSeq(bytes, 2 + length.len, used)))

-----------------------------------------------------------------------------

Init ==
    /\ version \in {3, 4, 5}
    /\ sent = <<>> /\ transit = <<>> /\ socket = <<>> /\ read = <<>>
    /\ error = FALSE /\ undefined = FALSE

\* The next packet is written once the last one has arrived, read or not: what counts
\* is how the bytes arrive.
Write(p) ==
    /\ Len(sent) < MaxPackets /\ transit = <<>> /\ ~error /\ ~undefined
    /\ p \in IF sent = <<>> THEN Packets ELSE Followers
    /\ sent' = Append(sent, p)
    /\ transit' = transit \o Wire(version, p)
    /\ UNCHANGED <<version, socket, read, error, undefined>>

\* External: TCP delivers the next byte; any number may arrive before the next read.
Arrive ==
    /\ transit # <<>> /\ ~error /\ ~undefined
    /\ socket' = Append(socket, Head(transit))
    /\ transit' = Tail(transit)
    /\ UNCHANGED <<version, sent, read, error, undefined>>

\* The call of MQTTPacket_Factory in MQTTClient_cycle and MQTTAsync_cycle.  The model
\* says nothing of a program after it has used unwritten memory.
ReadPacket ==
    /\ socket # <<>> /\ ~error /\ ~undefined
    /\ \E result \in {Factory(version, socket)} :
           /\ result.rc # INTERRUPTED
           /\ error' = (result.rc = SOCKET_ERROR)
           /\ socket' = After(socket, result.used)
           /\ undefined' = (result.pack = UNDEFINED)
           /\ read' = IF result.rc = COMPLETE /\ result.pack # UNDEFINED
                      THEN Append(read, result.pack) ELSE read
    /\ UNCHANGED <<version, sent, transit>>

Next ==
    \/ \E p \in Packets \union Followers : Write(p)
    \/ Arrive
    \/ ReadPacket

Spec == Init /\ [][Next]_vars

-----------------------------------------------------------------------------

\* Everything that is written as a byte is one: the variable byte integers, the
\* lengths and the identifiers never leave its range.
TypeOK ==
    /\ version \in {3, 4, 5} /\ error \in BOOLEAN /\ undefined \in BOOLEAN
    /\ Len(sent) <= MaxPackets /\ Len(read) <= Len(sent)
    /\ \A i \in 1..Len(sent) :
          LET bytes == Tail(Wire(version, sent[i]))
          IN  \A j \in 1..Len(bytes) : bytes[j] \in 0..(ByteBase - 1)

\* A packet too long for MaxLenBytes digits is written all the same.
Oversize(v, p) == Len(Body(v, p)) >= Base ^ MaxLenBytes

\* What a packet says in a version: before MQTT 5 there are neither properties nor
\* reason codes, and an acknowledgement may leave them out.
Meaning(v, p) ==
    IF Ignored(v, p.type) THEN NULL
    ELSE [p EXCEPT
            !.long = 0,
            !.props = IF v < 5 \/ (p.type \in Acks \union {"DISCONNECT", "CONNACK"} /\ p.long < 2)
                      THEN <<>> ELSE @,
            !.rc = IF v < 5 /\ p.type # "CONNACK" THEN 0 ELSE @,
            !.data = IF v < 5 /\ p.type = "UNSUBACK" THEN <<>> ELSE @]

\* A property whose value writeInt4 spoils.
Spoilt(prop) == PropertyType[prop.id] = "four" /\ prop.value >= TopInt4

\* The packet read says what the one sent says, but for the values writeInt4 spoils.
Agrees(got, meant) ==
    /\ [got EXCEPT !.props = <<>>] = [meant EXCEPT !.props = <<>>]
    /\ Len(got.props) = Len(meant.props)
    /\ \A i \in DOMAIN meant.props :
          /\ got.props[i].id = meant.props[i].id
          /\ got.props[i].value = meant.props[i].value \/ Spoilt(meant.props[i])

\* A body that is only short of bytes in its properties, which the readers of an
\* acknowledgement take from behind it, or skip before MQTT 5.
ShortProperties(p) == p.type \in Acks /\ Len(p.data) > 3

\* However TCP cuts the stream, what is read is what was written, in order, each
\* packet with its own fields, in every version; four byte values from the upper half
\* of their range excepted, and nothing of what is written around them.
ReadsWhatWasSent ==
    \A i \in 1..Len(read) :
        /\ i <= Len(sent)
        /\ IF sent[i].raw THEN ShortProperties(sent[i])
           ELSE Agrees(read[i], Meaning(version, sent[i]))

\* The connection is only given up for a packet that cannot be used, and unwritten
\* memory is used for no other: of those a server may send in an earlier version only
\* the CONNACK of two bytes, sent to a client of MQTT 5.
ErrorOnlyIfBad ==
    error \/ undefined =>
        /\ Len(read) < Len(sent)
        /\ LET p == sent[Len(read) + 1]
           IN  \/ p.raw \/ Oversize(version, p)
               \/ undefined /\ version = 5 /\ p.type = "CONNACK" /\ p.long < 2

\* The buffer a body is written into has exactly the size that was computed for it
\* before: nothing is written past its end, nothing is sent uninitialised.
RoomIsExact ==
    \A i \in 1..Len(sent) :
        Room(version, sent[i]) # -1 => Room(version, sent[i]) = Len(Body(version, sent[i]))

\* A packet that has arrived is not left waiting for a later one: when the reader has
\* to wait and nothing is on its way, everything written has been read.
ReadInTime ==
    /\ transit = <<>> /\ ~error /\ ~undefined
    /\ socket # <<>> => Factory(version, socket).rc = INTERRUPTED
    => Len(read) = Len(sent)
=============================================================================
