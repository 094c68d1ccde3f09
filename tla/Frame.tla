------------------------------- MODULE Frame -------------------------------
(***************************************************************************)
(* The messages of frame.cc and the string codec of util.cc: what getWire  *)
(* writes, byte by byte, and what readLoop makes of the bytes in the       *)
(* reader's buffer, which go on after the message with whatever earlier    *)
(* messages have left, and then with zeros.                                *)
(*                                                                         *)
(* A message is a record; its body has the fields of its class.  Strings   *)
(* are sequences of bytes.  getString and the log are left out.            *)
(***************************************************************************)
EXTENDS Integers, SequencesExt

CONSTANTS
    Unset,  \* a field that no constructor and no parse has set
    NoUser  \* user == NULL

MessageType == <<"CONNECT", "CONNACK", "PUBLISH", "PUBACK", "PUBREC", "PUBREL", "PUBCOMP",
                 "SUBSCRIBE", "SUBACK", "UNSUBSCRIBE", "UNSUBACK", "PINGREQ", "PINGRESP",
                 "DISCONNECT">>
TypeCode(type) == CHOOSE n \in DOMAIN MessageType : MessageType[n] = type

Protocol == <<77, 81, 84, 84>>  \* MQTT_3_1_1: "MQTT", level 4
Level == 4

\* The values that the fields of a message can have on the wire: strings have a
\* length of 16 bits, messages one of four digits of seven.
Byte == 0 .. 255
Bytes == Seq(Byte)
Uint16 == 0 .. 256 * 256 - 1
Short == {s \in Bytes : Len(s) \in Uint16}
Wants == [topic : Short, qos : 0 .. 2]
Wills == [topic : Short, message : Short, retain : BOOLEAN, qos : 0 .. 2]
Users == [name : Short, passwd : Short]
MaxLength == 128 * 128 * 128 * 128 - 1

Bit(b, weight) == IF b THEN weight ELSE 0
IsSet(flags, weight) == (flags \div weight) % 2 = 1

-----------------------------------------------------------------------------
(***************************************************************************)
(* Messages.                                                               *)
(***************************************************************************)
SentQoS(type) == IF type \in {"PUBREL", "SUBSCRIBE", "UNSUBSCRIBE"} THEN 1 ELSE 0
Message(type, length, id, body) ==
    [type |-> type, dup |-> FALSE, qos |-> SentQoS(type), retain |-> FALSE,
     length |-> length, id |-> id, body |-> body]

TotalLen(ss) == Len(FlattenSeq(ss))

\* PUBACK, PUBREC, PUBREL, PUBCOMP, UNSUBACK
Ack(type, id) == Message(type, 2, id, <<>>)

\* PINGREQ, PINGRESP, DISCONNECT
Bare(type) == Message(type, 0, 0, <<>>)

\* The constructor follows the pointer to the will, which must be there.
ConnectMessage(keepAlive, id, clean, will, user) ==
    Message("CONNECT",
            16 + TotalLen(<<id, will.topic, will.message>>)
            + (IF user = NoUser THEN 0 ELSE 4 + TotalLen(<<user.name, user.passwd>>)),
            0,
            [keepAlive |-> keepAlive, clientID |-> id, clean |-> clean, will |-> will, user |-> user])
ConnackMessage(sp, code) == Message("CONNACK", 2, 0, [sessionPresent |-> sp, returnCode |-> code])
PublishMessage(qos, retain, id, topic, payload) ==
    [Message("PUBLISH", TotalLen(<<topic, payload>>) + 2 + Bit(qos > 0, 2), id,
             [topic |-> topic, payload |-> payload])
        EXCEPT !.qos = qos, !.retain = retain]

\* Topics with their QoS.  The two bytes before each topic are not counted.
SubscribeMessage(id, topics) ==
    Message("SUBSCRIBE",
            2 + Len(topics) + TotalLen([i \in DOMAIN topics |-> topics[i].topic]), id, topics)
SubackMessage(id, codes) == Message("SUBACK", 2 + Len(codes), id, codes)
UnsubscribeMessage(id, topics) ==
    Message("UNSUBSCRIBE", 2 + 2 * Len(topics) + TotalLen(topics), id, topics)

-----------------------------------------------------------------------------
(***************************************************************************)
(* getWire.                                                                *)
(***************************************************************************)
Number(n) == <<(n \div 256) % 256, n % 256>>
UTF8_encode(s) == Number(Len(s)) \o s
Strings(ss) == FlattenSeq([i \in DOMAIN ss |-> UTF8_encode(ss[i])])
\* A length of 32 bits in digits of seven, lowest first, as many as it has; all
\* but the last are marked.  0 has none.
Weight == <<1, 128, 128 * 128, 128 * 128 * 128, 128 * 128 * 128 * 128>>
Digits(length) == {k \in 1 .. 5 : length >= Weight[k]}
RemainEncode(length) ==
    [k \in Digits(length) |->
        ((length \div Weight[k]) % 128) + Bit(k + 1 \in Digits(length), 128)]

FirstByte(m) == 16 * TypeCode(m.type) + Bit(m.dup, 8) + 2 * m.qos + Bit(m.retain, 1)
HeaderWire(m) == <<FirstByte(m)>> \o RemainEncode(m.length)

ConnectFlags(c) ==
    Bit(c.clean, 2) + 4 + 8 * c.will.qos + Bit(c.will.retain, 32)
    + (IF c.user = NoUser THEN 0
       ELSE Bit(c.user.passwd # <<>>, 64) + Bit(c.user.name # <<>>, 128))

\* An empty name or password is not written, though its length is counted.
NonEmpty(s) == IF s = <<>> THEN <<>> ELSE <<s>>
ConnectStrings(c) ==
    <<c.clientID, c.will.topic, c.will.message>>
    \o (IF c.user = NoUser THEN <<>> ELSE NonEmpty(c.user.name) \o NonEmpty(c.user.passwd))
ConnectWire(c) ==
    UTF8_encode(Protocol) \o <<Level, ConnectFlags(c)>> \o Number(c.keepAlive)
    \o Strings(ConnectStrings(c))

\* No byte says that there is no session.
ConnackWire(c) == (IF c.sessionPresent THEN <<1>> ELSE <<>>) \o <<c.returnCode>>

\* The topic is overwritten by what comes after it.
PublishWire(m) == (IF m.qos > 0 THEN Number(m.id) ELSE <<>>) \o m.body.payload

AckWire(m) == Number(m.id)
UnsubackWire(m) == Number(m.id)
SubscribeWire(m) ==
    Number(m.id) \o FlattenSeq([i \in DOMAIN m.body |->
                                  Append(UTF8_encode(m.body[i].topic), m.body[i].qos)])
SubackWire(m) == Number(m.id) \o m.body
UnsubscribeWire(m) == Number(m.id) \o Strings(m.body)
BareWire(m) == <<>>

BodyWire(m) ==
    CASE m.type = "CONNECT"     -> ConnectWire(m.body)
      [] m.type = "CONNACK"     -> ConnackWire(m.body)
      [] m.type = "PUBLISH"     -> PublishWire(m)
      [] m.type = "SUBSCRIBE"   -> SubscribeWire(m)
      [] m.type = "SUBACK"      -> SubackWire(m)
      [] m.type = "UNSUBSCRIBE" -> UnsubscribeWire(m)
      [] m.type = "UNSUBACK"    -> UnsubackWire(m)
      [] m.type \in {"PUBACK", "PUBREC", "PUBREL", "PUBCOMP"}     -> AckWire(m)
      [] m.type \in {"PINGREQ", "PINGRESP", "DISCONNECT"}         -> BareWire(m)

Wire(m) == HeaderWire(m) \o BodyWire(m)

-----------------------------------------------------------------------------
(***************************************************************************)
(* parse.  b is what has been written of the buffer, i an index into it.   *)
(***************************************************************************)
ByteAt(b, i) == IF i \in DOMAIN b THEN b[i] ELSE 0
NumberAt(b, i) == 256 * ByteAt(b, i) + ByteAt(b, i + 1)

\* A string that runs past all that was ever received; its content is of no
\* interest, except that no peer has sent it.
Overrun == <<256>>

\* MUTANT of After: the two bytes of the length are not counted.
After_Content(b, i) == i + NumberAt(b, i)

\* UTF8_decode: the string at i, and where the next field is.
After(b, i) == i + 2 + NumberAt(b, i)
UTF8_decode(b, i) ==
    IF NumberAt(b, i) = 0 THEN <<>>
    ELSE IF After(b, i) <= Len(b) + 1 THEN SubSeq(b, i + 2, After(b, i) - 1) ELSE Overrun

\* Where a field starts that k others precede, each as long as next says.
Iterate(next, i) ==
    LET at[k \in Nat] == IF k = 0 THEN i ELSE next[at[k - 1]]
    IN  at

\* n strings, one after the other.
StringsAt(b, i, n) ==
    LET at == Iterate([j \in Nat |-> After(b, j)], i)
    IN  [k \in 1 .. n |-> UTF8_decode(b, at[k - 1])]

\* parseHeader: the flags of the first byte are checked, then the length is
\* read from up to four bytes.
HeaderError(type, flags) ==
    CASE type \in {"PUBREL", "SUBSCRIBE", "UNSUBSCRIBE"} ->
            IF flags = 2 THEN "NO_ERROR" ELSE "MALFORMED_FIXED_HEADER_RESERVED_BIT"
      [] type = "PUBLISH" -> IF (flags \div 2) % 4 = 3 THEN "INVALID_QOS_3" ELSE "NO_ERROR"
      [] OTHER -> IF flags = 0 THEN "NO_ERROR" ELSE "MALFORMED_FIXED_HEADER_RESERVED_BIT"

LengthEnds(b) == {k \in 1 .. 4 : ByteAt(b, 1 + k) < 128}
LengthBytes(b) == CHOOSE k \in LengthEnds(b) : \A j \in LengthEnds(b) : k <= j
RemainDecode(b) ==
    LET digit(k) == IF k <= LengthBytes(b) THEN (ByteAt(b, 1 + k) % 128) * Weight[k] ELSE 0
    IN  digit(1) + digit(2) + digit(3) + digit(4)

\* The fields of a CONNECT after the protocol.  The pointers to will and user
\* stay unset where the flags have none; cleanSession is read off the flags.
ConnectFields(b, i) ==
    LET flags == ByteAt(b, i)
        will == IsSet(flags, 4)
        name == IsSet(flags, 128)
        passwd == IsSet(flags, 64)
        ss == StringsAt(b, i + 3, 1 + Bit(will, 2) + Bit(name, 1) + Bit(passwd, 1))
    IN  [keepAlive |-> NumberAt(b, i + 1), clientID |-> ss[1], clean |-> IsSet(flags, 2),
         will |-> IF will THEN [topic |-> ss[2], message |-> ss[3],
                                retain |-> IsSet(flags, 32), qos |-> (flags \div 8) % 4]
                  ELSE Unset,
         user |-> IF name \/ passwd
                  THEN [name |-> IF name THEN ss[2 + Bit(will, 2)] ELSE <<>>,
                        passwd |-> IF passwd THEN Last(ss) ELSE <<>>]
                  ELSE Unset]

NoFields == [keepAlive |-> Unset, clientID |-> <<>>, clean |-> FALSE, will |-> Unset, user |-> Unset]

\* Parsing stops at another protocol, at the reserved flag, and at a password
\* without a name.
ParseConnect(b, i) ==
    LET level == After(b, i)
        flags == ByteAt(b, level + 1)
    IN  IF \/ UTF8_decode(b, i) # Protocol \/ ByteAt(b, level) # Level
           \/ IsSet(flags, 1) \/ (IsSet(flags, 64) /\ ~IsSet(flags, 128))
        THEN NoFields ELSE ConnectFields(b, level + 1)

ParseConnack(b, i, m) ==
    [m EXCEPT !.body = [sessionPresent |-> ByteAt(b, i) = 1, returnCode |-> ByteAt(b, i + 1)]]

\* PUBACK, PUBREC, PUBREL, PUBCOMP
ParseAck(b, i, m) == [m EXCEPT !.id = NumberAt(b, i)]
ParseUnsuback(b, i, m) == [m EXCEPT !.id = NumberAt(b, i)]

\* Topics from i on, while fewer than the given bytes have been used and the
\* QoS is one.
TopicsAt(b, i, bytes) ==
    LET at == Iterate([j \in Nat |-> After(b, j) + 1], i)
        qos(k) == ByteAt(b, After(b, at[k]))
        ends == {k \in 0 .. bytes : at[k] - i >= bytes \/ qos(k) >= 3}
        n == CHOOSE k \in ends : \A j \in ends : k <= j
    IN  [k \in 1 .. n |-> [topic |-> UTF8_decode(b, at[k - 1]), qos |-> qos(k - 1)]]

\* The length announced, two or more, counts the identifier.
ParseSubscribe(b, i, m) ==
    [m EXCEPT !.id = NumberAt(b, i), !.body = TopicsAt(b, i + 2, m.length - 2)]
ParseSuback(b, i, m) ==
    [m EXCEPT !.id = NumberAt(b, i),
              !.body = [k \in 1 .. m.length - 2 |-> ByteAt(b, i + 1 + k)]]

\* As many topics as the length has bytes: what the sender has put there first,
\* and then what there is.
ParseUnsubscribe(b, i, m) ==
    [m EXCEPT !.id = NumberAt(b, i), !.body = StringsAt(b, i + 2, m.length - 2)]

\* Parsing stops after the topic, unless it has wildcards of both kinds.
PublishStops(topic) == 35 \notin Range(topic) \/ 43 \notin Range(topic)
PublishPayload(b, i, n) == IF i + n - 1 <= Len(b) THEN SubSeq(b, i, i + n - 1) ELSE Overrun

ParsePublish(b, i, m) ==
    LET topic == UTF8_decode(b, i)
        skip == Bit(m.qos > 0, 2)
    IN  IF PublishStops(topic) THEN [m EXCEPT !.body = [topic |-> topic, payload |-> <<>>]]
        ELSE [m EXCEPT !.id = IF m.qos > 0 THEN NumberAt(b, After(b, i)) ELSE Unset,
                       !.body = [topic |-> topic,
                                 payload |-> PublishPayload(b, After(b, i) + skip, m.length - skip)]]

ParseBare(b, i, m) == m

ParseBody(b, i, m) ==
    CASE m.type = "CONNECT"     -> [m EXCEPT !.body = ParseConnect(b, i)]
      [] m.type = "CONNACK"     -> ParseConnack(b, i, m)
      [] m.type = "PUBLISH"     -> ParsePublish(b, i, m)
      [] m.type = "SUBSCRIBE"   -> ParseSubscribe(b, i, m)
      [] m.type = "SUBACK"      -> ParseSuback(b, i, m)
      [] m.type = "UNSUBSCRIBE" -> ParseUnsubscribe(b, i, m)
      [] m.type = "UNSUBACK"    -> ParseUnsuback(b, i, m)
      [] m.type \in {"PUBACK", "PUBREC", "PUBREL", "PUBCOMP"}     -> ParseAck(b, i, m)
      [] m.type \in {"PINGREQ", "PINGRESP", "DISCONNECT"}         -> ParseBare(b, i, m)

TypeAt(b) ==
    LET code == ByteAt(b, 1) \div 16
    IN  IF code \in DOMAIN MessageType THEN MessageType[code] ELSE "RESERVED"
ParseHeader(b) ==
    LET flags == ByteAt(b, 1) % 16
    IN  [type |-> TypeAt(b), dup |-> IsSet(flags, 8), qos |-> (flags \div 2) % 4,
         retain |-> IsSet(flags, 1), length |-> RemainDecode(b), id |-> Unset, body |-> <<>>]

\* What readLoop makes of its buffer: an error, or a message for the handler,
\* who is not told of errors in the body.
Failure(err) == [err |-> err]
Parse(b) ==
    LET error == HeaderError(TypeAt(b), ByteAt(b, 1) % 16)
    IN  IF error # "NO_ERROR" THEN Failure(error)
        ELSE IF LengthEnds(b) = {} THEN Failure("MALFORMED_REMAIN_LENGTH")
        ELSE IF TypeAt(b) = "RESERVED" THEN Failure("INVALID_MESSAGE_TYPE")
        ELSE [err |-> "NO_ERROR", msg |-> ParseBody(b, 2 + LengthBytes(b), ParseHeader(b))]

-----------------------------------------------------------------------------
(***************************************************************************)
(* What is read of what was written.                                       *)
(***************************************************************************)
\* A user without a name is nobody, and with a password nothing is read.
AsRead(c) ==
    IF c.user = NoUser \/ (c.user.name = <<>> /\ c.user.passwd = <<>>)
    THEN [c EXCEPT !.user = Unset]
    ELSE IF c.user.name = <<>> THEN NoFields ELSE c

\* What the handler is given of a message.  A SUBSCRIBE may lose topics at its
\* end, since its length is announced short; an UNSUBSCRIBE gains some, since
\* its parser counts bytes for topics; of a PUBLISH nothing but the header
\* arrives.
Faithful(m, g) ==
    /\ g.type = m.type /\ g.qos = m.qos /\ g.retain = m.retain /\ ~g.dup
    /\ m.type \in {"PUBACK", "PUBREC", "PUBREL", "PUBCOMP",
                   "SUBSCRIBE", "SUBACK", "UNSUBSCRIBE", "UNSUBACK"} => g.id = m.id
    /\ m.type = "CONNECT" => g.body = AsRead(m.body)
    /\ m.type \in {"CONNACK", "SUBACK"} => g.body = m.body
    /\ m.type = "SUBSCRIBE" =>
         IsPrefix(g.body, m.body) /\ (m.body # <<>> => g.body # <<>>)
    /\ m.type = "UNSUBSCRIBE" => IsPrefix(m.body, g.body)

=============================================================================
