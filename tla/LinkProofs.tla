----------------------------- MODULE LinkProofs -----------------------------
(***************************************************************************)
(* Link, for every value of its constants: the types, that what is written *)
(* byte by byte is read as it was sent, and that a SUBSCRIBE or            *)
(* UNSUBSCRIBE ends with its own answer.                                   *)
(***************************************************************************)
EXTENDS Link, FrameProofs

-----------------------------------------------------------------------------
(***************************************************************************)
(* Types.                                                                  *)
(***************************************************************************)
\* Filters of a session: none has wildcards.
Filters == {s \in Wants : Range(s.topic) \cap {35, 43} = {}}

Maps == {map \in [PacketIDs -> Kinds \cup {NoMessage}] : map[0] = NoMessage}
Terminals == [isConnecting : BOOLEAN, cleanSession : BOOLEAN, will : {Will, NoWill}, packetIDMap : Maps,
              mt : GeneratorStates, subTopics : SUBSET Filters]

Bodies == ConnectBodies \cup [sessionPresent : BOOLEAN, returnCode : Byte]
          \cup [topic : Bytes, payload : Bytes] \cup Seq(Wants) \cup Bytes \cup Seq(Short)

Shapes == [type : Range(MessageType), dup : {FALSE}, qos : 0 .. 2, retain : BOOLEAN,
           length : 0 .. MaxLength, id : PacketIDs, body : Bodies]
Messages ==
    {m \in Shapes :
        /\ IsMessage(m)
        /\ m.type = "CONNECT" => m.body.will = Will
        /\ m.type = "SUBSCRIBE" => m.body \in Seq(Filters)}

\* What each end sends once the session is open.
ClientTypes == {"PUBLISH", "PUBACK", "PUBREC", "PUBREL", "PUBCOMP", "SUBSCRIBE", "UNSUBSCRIBE",
                "PINGREQ", "DISCONNECT"}
BrokerTypes == {"PUBLISH", "PUBACK", "PUBREC", "PUBREL", "PUBCOMP", "SUBACK", "UNSUBACK",
                "PINGRESP"}
Sent(types) == {m \in Messages : m.type \in types}

\* What a handler, a call or a parse returns.
Errs == {"NO_ERROR", "SIGPIPE", "CRASH", "SEND_ERROR", "NOT_CONNECTED",
         "PACKET_ID_IS_USED_ALREADY", "PACKET_ID_SHOULD_NOT_BE_ZERO", "FAIL_TO_SET_PACKET_ID",
         "PACKET_ID_DOES_NOT_EXIST", "PACKET_ID_SHOULD_BE_ZERO", "PROTOCOL_VIOLATION",
         "INVALID_MESSAGE_CAME", "SERVER_TIMED_OUT", "MALFORMED_REMAIN_LENGTH"}

-----------------------------------------------------------------------------
(***************************************************************************)
(* The inductive invariant.                                                *)
(***************************************************************************)
Typed ==
    /\ term \in [Ends -> Terminals] /\ term["client"].will = Will
    /\ loop \in [Ends -> Errs \cup {"idle", "read"}]
    /\ sock \in {"open", "closed"} /\ (sock = "closed" <=> loop["broker"] \in {"idle", "CRASH"})
    /\ stream \in [Ends -> Seq(Messages)] /\ buff \in [Ends -> Bytes]
    /\ calls \in 0 .. MaxCalls /\ merged \in BOOLEAN
    /\ wrote \in [Ends -> SUBSET Range(MessageType)]

\* Nothing is under way that has not been written.
Written ==
    \A e \in Ends : \A i \in 1 .. Len(stream[e]) : stream[e][i].type \in wrote[Other(e)]

\* As long as every read has returned one message, what a buffer holds from its
\* second byte on ends in a length.
Legible == ~merged => \A e \in Ends : LengthEnds(buff[e]) # {}

\* CONNECT and CONNACK are alone on their way, and nothing is read before them.
Silent == stream["client"] = <<>> /\ buff["client"] = <<>> /\ ~term["client"].isConnecting
Unconnected ==
    /\ "CONNECT" \notin wrote["client"]
    /\ Silent /\ stream["broker"] = <<>> /\ buff["broker"] = <<>>
    /\ loop["broker"] = "read" /\ ~term["broker"].isConnecting
Connecting ==
    /\ "CONNECT" \in wrote["client"]
    /\ Silent /\ buff["broker"] = <<>>
    /\ Len(stream["broker"]) = 1 /\ stream["broker"][1].type = "CONNECT"
    /\ loop["broker"] = "read" /\ ~term["broker"].isConnecting
Accepted ==
    /\ "CONNECT" \in wrote["client"]
    /\ stream["client"] = <<ConnackMessage(FALSE, 0)>> /\ buff["client"] = <<>>
    /\ ~term["client"].isConnecting
    /\ stream["broker"] = <<>>
    /\ loop["broker"] = "read" /\ term["broker"].isConnecting
Open ==
    /\ "CONNECT" \in wrote["client"]
    /\ stream["client"] \in Seq(Sent(BrokerTypes)) /\ stream["broker"] \in Seq(Sent(ClientTypes))
    /\ loop["broker"] = "read" => term["broker"].isConnecting
Handshake == Unconnected \/ Connecting \/ Accepted \/ Open

\* What is kept under an identifier until its answer comes, and the answer.
Asks == {"PUBREC", "SUBSCRIBE", "UNSUBSCRIBE"}
AnswerTo == [PUBREC |-> "PUBREL", SUBSCRIBE |-> "SUBACK", UNSUBSCRIBE |-> "UNSUBACK"]
Answers == {"PUBREL", "SUBACK", "UNSUBACK"}
At(s, types, id) == {i \in 1 .. Len(s) : s[i].type \in types /\ s[i].id = id}

\* Of what the client's map keeps under an identifier, the request or the answer
\* is under way once at most, and nothing else is under way with it.
Single(S) == \A i, j \in S : i = j
Matched(map, q, r, id) ==
    LET asked == At(q, Asks, id)
        answered == At(r, Answers, id)
    IN  /\ \A i \in asked : map[id] = q[i].type
        /\ \A i \in answered : map[id] \in Asks /\ r[i].type = AnswerTo[map[id]]
        /\ Single(asked) /\ Single(answered) /\ (asked = {} \/ answered = {})
Quiet == wrote["broker"] \cap {"PUBACK", "PUBREC"} = {}
Matching ==
    Quiet =>
      /\ "PUBREL" \notin wrote["client"] /\ "PUBCOMP" \notin wrote["broker"]
      /\ \A id \in PacketIDs \ {0} :
           Matched(term["client"].packetIDMap, stream["broker"], stream["client"], id)

Inv == Typed /\ Written /\ Legible /\ Handshake /\ Matching

-----------------------------------------------------------------------------
(***************************************************************************)
(* The messages that are made.                                             *)
(***************************************************************************)
LEMMA Below ==
    ASSUME NEW K \in Nat, NEW n \in 0 .. K
    PROVE  0 .. n \subseteq 0 .. K /\ 0 \in 0 .. n /\ n \in 0 .. n
OBVIOUS

LEMMA Identifiers ==
    PacketIDs \subseteq Uint16 /\ 0 \in PacketIDs /\ MaxPacketID \in PacketIDs
<1>. DEFINE K == 256 * 256 - 1
<1>1. MaxPacketID \in Uint16
  BY LinkAssumption, Zenon
<1>2. K \in Nat
  OBVIOUS
<1>3. Uint16 = 0 .. K
  BY Zenon DEF Uint16
<1>. HIDE DEF K
<1>4. /\ 0 .. MaxPacketID \subseteq 0 .. K
      /\ 0 \in 0 .. MaxPacketID /\ MaxPacketID \in 0 .. MaxPacketID
  BY <1>1, <1>2, <1>3, Below
<1>. QED
  BY <1>3, <1>4, Zenon DEF PacketIDs

\* What is needed of a message for it to be one that may be under way.
LEMMA IsSent ==
    ASSUME NEW type \in Range(MessageType), NEW length \in 0 .. MaxLength, NEW id \in PacketIDs,
           NEW qos \in 0 .. 2, NEW retain \in BOOLEAN, NEW body \in Bodies,
           NEW m, m = [type |-> type, dup |-> FALSE, qos |-> qos, retain |-> retain,
                       length |-> length, id |-> id, body |-> body],
           IsMessage(m),
           type = "CONNECT" => body.will = Will,
           type = "SUBSCRIBE" => body \in Seq(Filters)
    PROVE  m \in Messages
BY DEF Messages, Shapes

\* The identifier may be replaced.
LEMMA Renamed ==
    ASSUME NEW m \in Messages, NEW id \in PacketIDs
    PROVE  /\ [m EXCEPT !.id = id] \in Messages
           /\ [m EXCEPT !.id = id].type = m.type /\ [m EXCEPT !.id = id].id = id
<1>. DEFINE x == [m EXCEPT !.id = id]
<1>1. /\ m \in Shapes /\ IsMessage(m)
      /\ m.type = "CONNECT" => m.body.will = Will
      /\ m.type = "SUBSCRIBE" => m.body \in Seq(Filters)
  BY DEF Messages
<1>2. /\ x \in Shapes
      /\ x.type = m.type /\ x.dup = m.dup /\ x.qos = m.qos /\ x.retain = m.retain
      /\ x.length = m.length /\ x.body = m.body /\ x.id = id
  BY <1>1 DEF Shapes
<1>3. id \in Uint16
  BY Identifiers
<1>. HIDE DEF x
<1>4. IsMessage(x)
  <2>1. IsHeader(x)
    BY <1>1, <1>2 DEF IsMessage, IsHeader
  <2>. QED
    BY <1>1, <1>2, <1>3, <2>1 DEF IsMessage
<1>5. x \in Messages
  BY <1>1, <1>2, <1>4 DEF Messages
<1>. QED
  BY <1>2, <1>5 DEF x

LEMMA Lengths == 0 \in 0 .. MaxLength /\ 2 \in 0 .. MaxLength
<1>1. MaxLength \in Nat /\ MaxLength >= 2
  BY MaxLengthNat, MaxLengthValue
<1>. QED
  BY <1>1

LEMMA AckSent ==
    ASSUME NEW type \in AckTypes, NEW id \in PacketIDs
    PROVE  Ack(type, id) \in Messages /\ Ack(type, id).type = type /\ Ack(type, id).id = id
<1>. DEFINE m == Ack(type, id)
<1>1. /\ type \in Range(MessageType) /\ SentQoS(type) \in 0 .. 2
      /\ type \notin {"CONNECT", "CONNACK", "PUBLISH", "SUBSCRIBE", "SUBACK", "UNSUBSCRIBE"}
      /\ type \notin BareTypes
  BY DEF AckTypes, BareTypes, MessageType, Range, SentQoS
<1>2. m = [type |-> type, dup |-> FALSE, qos |-> SentQoS(type), retain |-> FALSE,
           length |-> 2, id |-> id, body |-> <<>>]
  BY DEF Ack, Message
<1>3. /\ m.type = type /\ m.dup = FALSE /\ m.qos = SentQoS(type) /\ m.retain = FALSE
      /\ m.length = 2 /\ m.id = id
  BY <1>2
<1>. HIDE DEF m
<1>4. IsMessage(m)
  <2>1. IsHeader(m)
    BY <1>1, <1>3 DEF IsHeader
  <2>. QED
    BY <1>1, <1>3, <2>1, Identifiers, Lengths DEF IsMessage
<1>5. <<>> \in Bodies
  BY DEF Bodies, Bytes
<1>6. m \in Messages
  BY <1>1, <1>2, <1>4, <1>5, Lengths, IsSent
<1>. QED
  BY <1>3, <1>6 DEF m

LEMMA BareSent ==
    ASSUME NEW type \in BareTypes
    PROVE  Bare(type) \in Messages /\ Bare(type).type = type
<1>. DEFINE m == Bare(type)
<1>1. /\ type \in Range(MessageType) /\ SentQoS(type) \in 0 .. 2
      /\ type \notin {"CONNECT", "CONNACK", "PUBLISH", "SUBSCRIBE", "SUBACK", "UNSUBSCRIBE"}
  BY DEF BareTypes, MessageType, Range, SentQoS
<1>2. m = [type |-> type, dup |-> FALSE, qos |-> SentQoS(type), retain |-> FALSE,
           length |-> 0, id |-> 0, body |-> <<>>]
  BY DEF Bare, Message
<1>3. /\ m.type = type /\ m.dup = FALSE /\ m.qos = SentQoS(type) /\ m.retain = FALSE
      /\ m.length = 0 /\ m.id = 0
  BY <1>2
<1>. HIDE DEF m
<1>4. IsMessage(m)
  <2>1. IsHeader(m)
    BY <1>1, <1>3 DEF IsHeader
  <2>. QED
    BY <1>1, <1>3, <2>1, Identifiers, Lengths DEF IsMessage
<1>5. <<>> \in Bodies
  BY DEF Bodies, Bytes
<1>6. m \in Messages
  BY <1>1, <1>2, <1>4, <1>5, Lengths, Identifiers, IsSent
<1>. QED
  BY <1>3, <1>6 DEF m

LEMMA ConnackSent ==
    LET m == ConnackMessage(FALSE, 0)
    IN  /\ m \in Messages /\ m.type = "CONNACK" /\ m.id = 0
        /\ m.body = [sessionPresent |-> FALSE, returnCode |-> 0]
<1>. DEFINE m == ConnackMessage(FALSE, 0)
            body == [sessionPresent |-> FALSE, returnCode |-> 0]
<1>1. "CONNACK" \in Range(MessageType) /\ SentQoS("CONNACK") = 0 /\ "CONNACK" \notin BareTypes
  BY DEF BareTypes, MessageType, Range, SentQoS
<1>2. m = [type |-> "CONNACK", dup |-> FALSE, qos |-> SentQoS("CONNACK"), retain |-> FALSE,
           length |-> 2, id |-> 0, body |-> body]
  BY DEF ConnackMessage, Message
<1>. HIDE DEF m, body
<1>3. /\ m.type = "CONNACK" /\ m.dup = FALSE /\ m.qos = 0 /\ m.retain = FALSE
      /\ m.length = 2 /\ m.id = 0 /\ m.body = body
  BY <1>1, <1>2
<1>4. body \in [sessionPresent : BOOLEAN, returnCode : Byte]
  BY DEF body, Byte
<1>5. IsMessage(m)
  <2>1. IsHeader(m)
    <3>1. m.qos = SentQoS(m.type) /\ 0 \in 0 .. 2
      BY <1>1, <1>3
    <3>. QED
      BY <1>1, <1>3, <3>1 DEF IsHeader
  <2>. QED
    BY <1>1, <1>3, <1>4, <2>1, Identifiers, Lengths DEF IsMessage
<1>6. body \in Bodies
  BY <1>4 DEF Bodies
<1>7. m \in Messages
  <2>1. /\ SentQoS("CONNACK") \in 0 .. 2 /\ FALSE \in BOOLEAN
        /\ "CONNACK" # "CONNECT" /\ "CONNACK" # "SUBSCRIBE"
    BY <1>1
  <2>. QED
    BY <1>1, <1>2, <1>5, <1>6, <2>1, Lengths, Identifiers, IsSent
<1>. QED
  BY <1>3, <1>7 DEF m, body

LEMMA TotalLen2 ==
    ASSUME NEW s \in Bytes, NEW t \in Bytes
    PROVE  TotalLen(<<s, t>>) = Len(s) + Len(t)
<1>. DEFINE ss == <<s, t>>
<1>1. ss \in Seq(Bytes) /\ Len(ss) = 2 /\ ss[1] = s /\ ss[2] = t
  OBVIOUS
<1>. HIDE DEF ss
<1>2. /\ Len(ss) # 0 => FlattenSeq(ss) = Flattening(ss)[Len(ss)]
      /\ Len(ss) # 0 => Flattening(ss)[1] = ss[1]
      /\ \A k \in 1 .. Len(ss) - 1 : Flattening(ss)[k + 1] = Flattening(ss)[k] \o ss[k + 1]
  BY <1>1, FlattenDef, Zenon
<1>3. Flattening(ss)[1 + 1] = Flattening(ss)[1] \o ss[1 + 1]
  BY <1>1, <1>2
<1>4. FlattenSeq(ss) = s \o t
  <2>1. Len(ss) # 0 /\ Len(ss) = 1 + 1 /\ ss[1 + 1] = t
    BY <1>1
  <2>. QED
    BY <1>1, <1>2, <1>3, <2>1, Zenon
<1>. QED
  BY <1>4, ConcatLen DEF TotalLen, ss

LEMMA TotalLen3 ==
    ASSUME NEW s \in Bytes, NEW t \in Bytes, NEW u \in Bytes
    PROVE  TotalLen(<<s, t, u>>) = Len(s) + Len(t) + Len(u)
<1>. DEFINE ss == <<s, t, u>>
<1>1. ss \in Seq(Bytes) /\ Len(ss) = 3 /\ ss[1] = s /\ ss[2] = t /\ ss[3] = u
  OBVIOUS
<1>. HIDE DEF ss
<1>2. /\ Len(ss) # 0 => FlattenSeq(ss) = Flattening(ss)[Len(ss)]
      /\ Len(ss) # 0 => Flattening(ss)[1] = ss[1]
      /\ \A k \in 1 .. Len(ss) - 1 : Flattening(ss)[k + 1] = Flattening(ss)[k] \o ss[k + 1]
  BY <1>1, FlattenDef, Zenon
<1>3. /\ Flattening(ss)[1 + 1] = Flattening(ss)[1] \o ss[1 + 1]
      /\ Flattening(ss)[2 + 1] = Flattening(ss)[2] \o ss[2 + 1]
  BY <1>1, <1>2
<1>4. FlattenSeq(ss) = (s \o t) \o u
  <2>1. /\ Len(ss) # 0 /\ Len(ss) = 2 + 1 /\ ss[1 + 1] = t /\ ss[2 + 1] = u
        /\ Flattening(ss)[2] = Flattening(ss)[1 + 1]
    BY <1>1
  <2>. QED
    BY <1>1, <1>2, <1>3, <2>1, Zenon
<1>5. s \o t \in Bytes /\ Len(s \o t) = Len(s) + Len(t)
  BY ConcatLen
<1>6. Len((s \o t) \o u) = Len(s \o t) + Len(u)
  BY <1>5, ConcatLen
<1>. QED
  BY <1>4, <1>5, <1>6, Zenon DEF TotalLen, ss

LEMMA ShortNumber == \A n \in Uint16 : n \in Nat /\ n <= 65535
BY DEF Uint16

\* Five strings, and a few bytes, fit in a message.
LEMMA Room ==
    ASSUME NEW a \in Uint16, NEW b \in Uint16, NEW c \in Uint16, NEW d \in Uint16, NEW e \in Uint16
    PROVE  /\ 16 + (a + b + c) \in 0 .. MaxLength /\ 16 + (a + b + c) # 0
           /\ 16 + (a + b + c) + 0 \in 0 .. MaxLength /\ 16 + (a + b + c) + 0 # 0
           /\ 16 + (a + b + c) + (4 + (d + e)) \in 0 .. MaxLength
           /\ 16 + (a + b + c) + (4 + (d + e)) # 0
<1>1. MaxLength \in Nat /\ MaxLength >= 400000
  BY SMT DEF MaxLength
<1>2. /\ a \in Nat /\ b \in Nat /\ c \in Nat /\ d \in Nat /\ e \in Nat
      /\ a <= 65535 /\ b <= 65535 /\ c <= 65535 /\ d <= 65535 /\ e <= 65535
  BY ShortNumber
<1>. QED
  BY <1>1, <1>2, SMT

LEMMA ConnectSent ==
    ASSUME NEW c \in Connects
    PROVE  LET m == ConnectMessage(0, ClientID, c.clean, Will, c.user)
           IN  m \in Messages /\ m.type = "CONNECT"
<1>. DEFINE strings == TotalLen(<<ClientID, Will.topic, Will.message>>)
            names == TotalLen(<<c.user.name, c.user.passwd>>)
            length == 16 + strings + (IF c.user = NoUser THEN 0 ELSE 4 + names)
            body == [keepAlive |-> 0, clientID |-> ClientID, clean |-> c.clean, will |-> Will,
                     user |-> c.user]
            m == ConnectMessage(0, ClientID, c.clean, Will, c.user)
<1>1. /\ ClientID \in Short /\ Will \in Wills /\ Will.topic \in Short /\ Will.message \in Short
      /\ c.clean \in BOOLEAN /\ c.user \in {NoUser} \cup Users
  BY LinkAssumption DEF Wills
<1>2. /\ Len(ClientID) \in Uint16 /\ Len(Will.topic) \in Uint16 /\ Len(Will.message) \in Uint16
      /\ strings = Len(ClientID) + Len(Will.topic) + Len(Will.message)
  BY <1>1, ShortLen, TotalLen3
<1>3. length \in 0 .. MaxLength /\ length # 0
  <2>1. CASE c.user = NoUser
    BY <1>2, <2>1, Room
  <2>2. CASE c.user # NoUser
    <3>1. c.user.name \in Short /\ c.user.passwd \in Short
      BY <1>1, <2>2 DEF Users
    <3>2. /\ Len(c.user.name) \in Uint16 /\ Len(c.user.passwd) \in Uint16
          /\ names = Len(c.user.name) + Len(c.user.passwd)
      BY <3>1, ShortLen, TotalLen2
    <3>3. length = 16 + (Len(ClientID) + Len(Will.topic) + Len(Will.message))
                   + (4 + (Len(c.user.name) + Len(c.user.passwd)))
      <4>. HIDE DEF strings, names
      <4>. QED
        BY <1>2, <2>2, <3>2
    <3>. HIDE DEF length
    <3>4. PICK u \in Uint16, v \in Uint16, w \in Uint16, x \in Uint16, y \in Uint16 :
            length = 16 + (u + v + w) + (4 + (x + y))
      BY <1>2, <3>2, <3>3, Zenon
    <3>. QED
      BY <3>4, Room
  <2>. QED
    BY <2>1, <2>2
<1>4. body \in ConnectBodies
  BY <1>1, Identifiers DEF ConnectBodies
<1>5. /\ "CONNECT" \in Range(MessageType) /\ SentQoS("CONNECT") = 0 /\ "CONNECT" \notin BareTypes
  BY DEF BareTypes, MessageType, Range, SentQoS
<1>6. m = [type |-> "CONNECT", dup |-> FALSE, qos |-> SentQoS("CONNECT"), retain |-> FALSE,
           length |-> length, id |-> 0, body |-> body]
  BY DEF ConnectMessage, Message
<1>7. body.will = Will
  OBVIOUS
<1>. HIDE DEF m, body, length
<1>8. /\ m.type = "CONNECT" /\ m.dup = FALSE /\ m.qos = 0 /\ m.retain = FALSE
      /\ m.length = length /\ m.id = 0 /\ m.body = body
  BY <1>5, <1>6
<1>9. IsMessage(m)
  <2>1. IsHeader(m)
    <3>1. m.qos = SentQoS(m.type) /\ 0 \in 0 .. 2
      BY <1>5, <1>8
    <3>. QED
      BY <1>5, <1>8, <3>1 DEF IsHeader
  <2>. QED
    BY <1>3, <1>4, <1>5, <1>8, <2>1, Identifiers DEF IsMessage
<1>10. m \in Messages
  <2>1. SentQoS("CONNECT") \in 0 .. 2 /\ FALSE \in BOOLEAN /\ body \in Bodies
    BY <1>4, <1>5 DEF Bodies
  <2>. QED
    BY <1>3, <1>5, <1>6, <1>7, <1>9, <2>1, Identifiers, IsSent
<1>. QED
  BY <1>8, <1>10 DEF m

\* A PUBLISH whose length can be said.
LEMMA PublishSent ==
    ASSUME NEW qos \in 0 .. 2, NEW retain \in BOOLEAN, NEW topic \in Bytes, NEW payload \in Bytes,
           PublishMessage(qos, retain, 0, topic, payload).length <= MaxLength
    PROVE  LET m == PublishMessage(qos, retain, 0, topic, payload)
           IN  m \in Messages /\ m.type = "PUBLISH"
<1>. DEFINE strings == TotalLen(<<topic, payload>>)
            length == strings + 2 + Bit(qos > 0, 2)
            body == [topic |-> topic, payload |-> payload]
            m == PublishMessage(qos, retain, 0, topic, payload)
<1>1. m = [type |-> "PUBLISH", dup |-> FALSE, qos |-> qos, retain |-> retain,
           length |-> length, id |-> 0, body |-> body]
  <2>1. m = [Message("PUBLISH", length, 0, body) EXCEPT !.qos = qos, !.retain = retain]
    BY DEF PublishMessage
  <2>. HIDE DEF length, body, m
  <2>. QED
    BY <2>1 DEF Message
<1>2. strings \in Nat
  <2>1. Len(topic) \in Nat /\ Len(payload) \in Nat
    BY BufferBytes
  <2>. QED
    BY <2>1, TotalLen2
<1>3. body.payload = payload /\ body \in Bodies
  BY DEF Bodies
<1>. HIDE DEF strings, body, m
<1>4. m.length = length
  BY <1>1
<1>5. length \in 0 .. MaxLength /\ length # 0
  <2>1. Bit(qos > 0, 2) \in {0, 2}
    BY DEF Bit
  <2>2. length <= MaxLength
    BY <1>4 DEF m
  <2>. QED
    BY <1>2, <2>1, <2>2, MaxLengthNat
<1>6. "PUBLISH" \in Range(MessageType) /\ "PUBLISH" \notin BareTypes
  BY DEF BareTypes, MessageType, Range
<1>. HIDE DEF length
<1>7. /\ m.type = "PUBLISH" /\ m.dup = FALSE /\ m.qos = qos /\ m.retain = retain
      /\ m.length = length /\ m.id = 0 /\ m.body = body
  BY <1>1
<1>8. IsMessage(m)
  <2>1. IsHeader(m)
    BY <1>6, <1>7 DEF IsHeader
  <2>. QED
    BY <1>3, <1>5, <1>6, <1>7, <2>1, Identifiers DEF IsMessage
<1>9. m \in Messages
  BY <1>1, <1>3, <1>5, <1>6, <1>8, Identifiers, IsSent
<1>. QED
  BY <1>7, <1>9 DEF m

LEMMA StringLengths ==
    ASSUME NEW ss \in Seq(Bytes)
    PROVE  TotalLen(ss) \in Nat
<1>1. FlattenSeq(ss) \in Bytes
  BY FlattenType DEF Bytes
<1>. QED
  BY <1>1, BufferBytes DEF TotalLen

LEMMA SubscribeSent ==
    ASSUME NEW topics \in SubscribeLists
    PROVE  LET m == SubscribeMessage(0, topics)
           IN  m \in Messages /\ m.type = "SUBSCRIBE"
<1>. DEFINE strings == TotalLen(TopicNames(topics))
            length == 2 + Len(topics) + strings
            m == SubscribeMessage(0, topics)
<1>1. /\ topics \in Seq(Wants) /\ Len(topics) \in Nat /\ DOMAIN topics = 1 .. Len(topics)
      /\ \A i \in 1 .. Len(topics) : topics[i] \in Wants
  BY LinkAssumption, ElementOfSeq, LenProperties
<1>2. topics \in Seq(Filters)
  <2>1. \A i \in 1 .. Len(topics) : topics[i] \in Filters
    BY <1>1, LinkAssumption DEF Filters
  <2>. QED
    BY <1>1, <2>1, SeqDef
<1>3. strings \in Nat
  <2>1. \A i \in 1 .. Len(topics) : topics[i].topic \in Bytes
    BY <1>1 DEF Wants, Short
  <2>2. TopicNames(topics) = [i \in 1 .. Len(topics) |-> topics[i].topic]
    BY <1>1 DEF TopicNames
  <2>3. TopicNames(topics) \in Seq(Bytes)
    BY <1>1, <2>1, <2>2
  <2>. QED
    BY <2>3, StringLengths
<1>4. m = [type |-> "SUBSCRIBE", dup |-> FALSE, qos |-> SentQoS("SUBSCRIBE"), retain |-> FALSE,
           length |-> length, id |-> 0, body |-> topics]
  BY DEF SubscribeMessage, Message, TopicNames
<1>5. m.length <= MaxLength
  BY LengthAssumption DEF m
<1>6. "SUBSCRIBE" \in Range(MessageType) /\ "SUBSCRIBE" \notin BareTypes /\ SentQoS("SUBSCRIBE") = 1
  BY DEF BareTypes, MessageType, Range, SentQoS
<1>. HIDE DEF m, strings
<1>7. length \in 0 .. MaxLength /\ length # 0
  <2>1. length <= MaxLength
    BY <1>4, <1>5
  <2>. QED
    BY <1>1, <1>3, <2>1, MaxLengthNat
<1>8. length = 2 + Len(topics) + TotalLen(TopicNames(topics))
  BY DEF strings
<1>. HIDE DEF length
<1>9. /\ m.type = "SUBSCRIBE" /\ m.dup = FALSE /\ m.qos = 1 /\ m.retain = FALSE
      /\ m.length = length /\ m.id = 0 /\ m.body = topics
  BY <1>4, <1>6
<1>10. IsMessage(m)
  <2>1. IsHeader(m)
    <3>1. m.qos = SentQoS(m.type) /\ 1 \in 0 .. 2
      BY <1>6, <1>9
    <3>. QED
      BY <1>6, <1>9, <3>1 DEF IsHeader
  <2>. QED
    BY <1>1, <1>6, <1>7, <1>8, <1>9, <2>1, Identifiers DEF IsMessage
<1>11. m \in Messages
  <2>1. SentQoS("SUBSCRIBE") \in 0 .. 2 /\ FALSE \in BOOLEAN /\ topics \in Bodies
    BY <1>1, <1>6 DEF Bodies
  <2>. QED
    BY <1>2, <1>4, <1>6, <1>7, <1>10, <2>1, Identifiers, IsSent
<1>. QED
  BY <1>9, <1>11 DEF m

LEMMA UnsubscribeSent ==
    ASSUME NEW topics \in UnsubscribeLists
    PROVE  LET m == UnsubscribeMessage(0, topics)
           IN  m \in Messages /\ m.type = "UNSUBSCRIBE"
<1>. DEFINE strings == TotalLen(topics)
            length == 2 + 2 * Len(topics) + strings
            m == UnsubscribeMessage(0, topics)
<1>1. topics \in Seq(Short) /\ Len(topics) \in Nat
  BY LinkAssumption, LenProperties
<1>2. strings \in Nat
  <2>1. topics \in Seq(Bytes)
    BY <1>1, ElementOfSeq, SeqDef DEF Short
  <2>. QED
    BY <2>1, StringLengths
<1>3. m = [type |-> "UNSUBSCRIBE", dup |-> FALSE, qos |-> SentQoS("UNSUBSCRIBE"),
           retain |-> FALSE, length |-> length, id |-> 0, body |-> topics]
  BY DEF UnsubscribeMessage, Message
<1>4. m.length <= MaxLength
  BY LengthAssumption DEF m
<1>5. /\ "UNSUBSCRIBE" \in Range(MessageType) /\ "UNSUBSCRIBE" \notin BareTypes
      /\ SentQoS("UNSUBSCRIBE") = 1
  BY DEF BareTypes, MessageType, Range, SentQoS
<1>. HIDE DEF m, strings
<1>6. length \in 0 .. MaxLength /\ length # 0 /\ length >= 2 + Len(topics)
  <2>1. length <= MaxLength
    BY <1>3, <1>4
  <2>. QED
    BY <1>1, <1>2, <2>1, MaxLengthNat
<1>. HIDE DEF length
<1>7. /\ m.type = "UNSUBSCRIBE" /\ m.dup = FALSE /\ m.qos = 1 /\ m.retain = FALSE
      /\ m.length = length /\ m.id = 0 /\ m.body = topics
  BY <1>3, <1>5
<1>8. IsMessage(m)
  <2>1. IsHeader(m)
    <3>1. m.qos = SentQoS(m.type) /\ 1 \in 0 .. 2
      BY <1>5, <1>7
    <3>. QED
      BY <1>5, <1>7, <3>1 DEF IsHeader
  <2>. QED
    BY <1>1, <1>5, <1>6, <1>7, <2>1, Identifiers DEF IsMessage
<1>9. m \in Messages
  <2>1. SentQoS("UNSUBSCRIBE") \in 0 .. 2 /\ FALSE \in BOOLEAN /\ topics \in Bodies
    BY <1>1, <1>5 DEF Bodies
  <2>. QED
    BY <1>3, <1>5, <1>6, <1>8, <2>1, Identifiers, IsSent
<1>. QED
  BY <1>7, <1>9 DEF m

\* The answer to a SUBSCRIBE has a byte for each topic.
LEMMA SubackSent ==
    ASSUME NEW id \in PacketIDs, NEW codes \in Bytes, 2 + Len(codes) <= MaxLength
    PROVE  LET m == SubackMessage(id, codes)
           IN  m \in Messages /\ m.type = "SUBACK" /\ m.id = id
<1>. DEFINE length == 2 + Len(codes)
            m == SubackMessage(id, codes)
<1>1. m = [type |-> "SUBACK", dup |-> FALSE, qos |-> SentQoS("SUBACK"), retain |-> FALSE,
           length |-> length, id |-> id, body |-> codes]
  BY DEF SubackMessage, Message
<1>2. "SUBACK" \in Range(MessageType) /\ "SUBACK" \notin BareTypes /\ SentQoS("SUBACK") = 0
  BY DEF BareTypes, MessageType, Range, SentQoS
<1>3. length \in 0 .. MaxLength /\ length # 0 /\ length = 2 + Len(codes)
  BY BufferBytes, MaxLengthNat
<1>. HIDE DEF m, length
<1>4. /\ m.type = "SUBACK" /\ m.dup = FALSE /\ m.qos = 0 /\ m.retain = FALSE
      /\ m.length = length /\ m.id = id /\ m.body = codes
  BY <1>1, <1>2
<1>5. IsMessage(m)
  <2>1. IsHeader(m)
    <3>1. m.qos = SentQoS(m.type) /\ 0 \in 0 .. 2
      BY <1>2, <1>4
    <3>. QED
      BY <1>2, <1>4, <3>1 DEF IsHeader
  <2>. QED
    BY <1>2, <1>3, <1>4, <2>1, Identifiers DEF IsMessage
<1>6. m \in Messages
  <2>1. SentQoS("SUBACK") \in 0 .. 2 /\ FALSE \in BOOLEAN /\ codes \in Bodies
    BY <1>2 DEF Bodies
  <2>. QED
    BY <1>1, <1>2, <1>3, <1>5, <2>1, Identifiers, IsSent
<1>. QED
  BY <1>4, <1>6 DEF m

-----------------------------------------------------------------------------
(***************************************************************************)
(* sendMessage, getUsablePacketID and ackMessage.                          *)
(***************************************************************************)
LEMMA MessageFields ==
    ASSUME NEW m \in Messages
    PROVE  m.id \in PacketIDs /\ m.type \in Range(MessageType) /\ IsMessage(m)
BY DEF Messages, Shapes

\* The fields that only CONNECT, SUBSCRIBE, UNSUBSCRIBE and DISCONNECT change.
Same(t, u) == u.isConnecting = t.isConnecting /\ u.will = t.will /\ u.subTopics = t.subTopics
Kept(map, m) == IF Keeps(m) THEN [map EXCEPT ![m.id] = m.type] ELSE map

LEMMA Remapped ==
    ASSUME NEW map \in Maps, NEW id \in PacketIDs, NEW kind \in Kinds \cup {NoMessage},
           id # 0 \/ kind = NoMessage
    PROVE  [map EXCEPT ![id] = kind] \in Maps
<1>. DEFINE after == [map EXCEPT ![id] = kind]
<1>1. map \in [PacketIDs -> Kinds \cup {NoMessage}] /\ map[0] = NoMessage
  BY DEF Maps
<1>2. after \in [PacketIDs -> Kinds \cup {NoMessage}] /\ after[0] = NoMessage
  BY <1>1, Identifiers
<1>. QED
  BY <1>2 DEF Maps

LEMMA AfterWriteTerm ==
    ASSUME NEW t \in Terminals, NEW m \in Messages
    PROVE  /\ AfterWrite(t, m) \in Terminals /\ Same(t, AfterWrite(t, m))
           /\ AfterWrite(t, m).packetIDMap = Kept(t.packetIDMap, m)
<1>1. CASE Keeps(m)
  <2>1. m.type \in Kinds /\ m.id \in PacketIDs /\ m.id # 0
    BY <1>1, MessageFields DEF Keeps
  <2>2. [t.packetIDMap EXCEPT ![m.id] = m.type] \in Maps
    <3>1. t.packetIDMap \in Maps /\ m.type \in Kinds \cup {NoMessage}
      BY <2>1 DEF Terminals
    <3>. QED
      BY <2>1, <3>1, Remapped
  <2>. QED
    BY <1>1, <2>2 DEF AfterWrite, Terminals, Same, Kept
<1>2. CASE ~Keeps(m)
  BY <1>2 DEF AfterWrite, Same, Kept
<1>. QED
  BY <1>1, <1>2

LEMMA AckedTerm ==
    ASSUME NEW t \in Terminals, NEW id \in PacketIDs
    PROVE  /\ Acked(t, id) \in Terminals /\ Same(t, Acked(t, id))
           /\ Acked(t, id).packetIDMap = [t.packetIDMap EXCEPT ![id] = NoMessage]
           /\ AckError(t, id) \in Errs
<1>1. [t.packetIDMap EXCEPT ![id] = NoMessage] \in Maps
  <2>1. t.packetIDMap \in Maps /\ NoMessage \in Kinds \cup {NoMessage}
    BY DEF Terminals
  <2>. QED
    BY <2>1, Remapped
<1>2. AckError(t, id) \in Errs
  BY DEF AckError, Errs
<1>. QED
  BY <1>1, <1>2 DEF Acked, Terminals, Same

LEMMA DrawTerm ==
    ASSUME NEW t \in Terminals, NEW d \in DrawOutcomes(t)
    PROVE  /\ d.id \in PacketIDs /\ d.t \in Terminals /\ Same(t, d.t)
           /\ d.t.packetIDMap = t.packetIDMap
           /\ d.err \in Errs /\ d.err \notin Fatal
<1>1. t.mt \in Nat /\ Period \in Nat \ {0} /\ Trials \in Nat
  BY TerminalAssumption DEF Terminals, GeneratorStates
<1>2. ASSUME NEW n \in Nat
      PROVE  StateAfter(t, n) \in GeneratorStates /\ Drawn(t, n) \in PacketIDs
  <2>1. StateAfter(t, n) \in 0 .. Period - 1
    BY <1>1 DEF StateAfter
  <2>. QED
    BY <2>1, TerminalAssumption DEF GeneratorStates, Drawn
<1>3. \E s \in GeneratorStates : d.t = [t EXCEPT !.mt = s]
  <2>1. CASE \E n \in 0 .. Trials - 1 :
               d = [t |-> [t EXCEPT !.mt = StateAfter(t, n + 1)],
                    id |-> Drawn(t, n), err |-> "NO_ERROR"]
    <3>1. PICK n \in 0 .. Trials - 1 :
               d = [t |-> [t EXCEPT !.mt = StateAfter(t, n + 1)],
                    id |-> Drawn(t, n), err |-> "NO_ERROR"]
      BY <2>1
    <3>2. n + 1 \in Nat
      BY <1>1
    <3>. QED
      BY <1>2, <3>1, <3>2
  <2>2. CASE d = [t |-> [t EXCEPT !.mt = StateAfter(t, Trials)],
                  id |-> MaxPacketID, err |-> "FAIL_TO_SET_PACKET_ID"]
    BY <1>1, <1>2, <2>2
  <2>. QED
    BY <2>1, <2>2 DEF DrawOutcomes
<1>4. d.id \in PacketIDs
  <2>1. \A n \in 0 .. Trials - 1 : n \in Nat
    BY <1>1
  <2>. QED
    BY <1>2, <2>1, Identifiers DEF DrawOutcomes
<1>5. d.err \in {"NO_ERROR", "FAIL_TO_SET_PACKET_ID"}
  BY DEF DrawOutcomes
<1>. QED
  BY <1>3, <1>4, <1>5 DEF Terminals, Same, Errs, Fatal

LEMMA SendTerm ==
    ASSUME NEW t \in Terminals, NEW m \in Messages, NEW link \in {"open", "closed", "gone"},
           NEW s \in SendOutcomes(t, m, link)
    PROVE  /\ s.t \in Terminals /\ s.err \in Errs /\ s.wrote \in BOOLEAN /\ Same(t, s.t)
           /\ ~s.wrote => s.t.packetIDMap = t.packetIDMap
           /\ s.wrote => /\ t.isConnecting /\ t.packetIDMap[m.id] = NoMessage
                         /\ s.t.packetIDMap = Kept(t.packetIDMap, m)
           /\ (t.isConnecting /\ t.packetIDMap[m.id] = NoMessage /\ link = "open")
                => s.wrote /\ s.err = AfterWriteError(m)
<1>1. CASE Refusal(t, m) # "NO_ERROR"
  <2>1. s = [t |-> t, err |-> Refusal(t, m), wrote |-> FALSE]
    BY <1>1 DEF SendOutcomes
  <2>2. /\ Refusal(t, m) \in Errs
        /\ ~(t.isConnecting /\ t.packetIDMap[m.id] = NoMessage)
    BY <1>1 DEF Refusal, Errs, InUse
  <2>. QED
    BY <2>1, <2>2 DEF Same
<1>2. CASE Refusal(t, m) = "NO_ERROR"
  <2>1. t.isConnecting /\ t.packetIDMap[m.id] = NoMessage
    BY <1>2 DEF Refusal, InUse
  <2>2. PICK r \in WriteResults(link) :
          s = IF r = "NO_ERROR"
              THEN [t |-> AfterWrite(t, m), err |-> AfterWriteError(m), wrote |-> TRUE]
              ELSE [t |-> t, err |-> r, wrote |-> FALSE]
    BY <1>2 DEF SendOutcomes
  <2>3. r \in Errs /\ (link = "open" => r = "NO_ERROR")
    BY DEF WriteResults, Errs
  <2>4. AfterWriteError(m) \in Errs
    BY DEF AfterWriteError, Errs
  <2>5. CASE r = "NO_ERROR"
    BY <2>1, <2>2, <2>4, <2>5, AfterWriteTerm
  <2>6. CASE r # "NO_ERROR"
    BY <2>2, <2>3, <2>6 DEF Same
  <2>. QED
    BY <2>5, <2>6
<1>. QED
  BY <1>1, <1>2

-----------------------------------------------------------------------------
(***************************************************************************)
(* The steps of handlers and calls.                                        *)
(***************************************************************************)
Links == {"open", "closed", "gone"}
Outcomes(types) == [t : Terminals, err : Errs, out : Seq(Sent(types))]

\* Nothing is written and the map stays, or m is, under an identifier that was
\* free.
Adds(o, s, m) ==
    \/ s.out = o.out /\ s.t.packetIDMap = o.t.packetIDMap
    \/ /\ s.out = Append(o.out, m)
       /\ o.t.isConnecting /\ o.t.packetIDMap[m.id] = NoMessage
       /\ s.t.packetIDMap = Kept(o.t.packetIDMap, m)

LEMMA SendStep ==
    ASSUME NEW types, NEW o \in Outcomes(types), NEW m \in Sent(types), NEW link \in Links,
           NEW s \in Send(o, m, link)
    PROVE  s \in Outcomes(types) /\ Same(o.t, s.t) /\ Adds(o, s, m)
<1>1. o.t \in Terminals /\ o.out \in Seq(Sent(types)) /\ m \in Messages
  BY DEF Outcomes, Sent
<1>2. CASE o.err \in Fatal
  BY <1>2 DEF Send, Same, Adds
<1>3. CASE o.err \notin Fatal
  <2>1. PICK r \in SendOutcomes(o.t, m, link) :
          s = [t |-> r.t, err |-> r.err, out |-> IF r.wrote THEN Append(o.out, m) ELSE o.out]
    BY <1>3 DEF Send
  <2>2. /\ r.t \in Terminals /\ r.err \in Errs /\ r.wrote \in BOOLEAN /\ Same(o.t, r.t)
        /\ ~r.wrote => r.t.packetIDMap = o.t.packetIDMap
        /\ r.wrote => /\ o.t.isConnecting /\ o.t.packetIDMap[m.id] = NoMessage
                      /\ r.t.packetIDMap = Kept(o.t.packetIDMap, m)
    BY <1>1, SendTerm DEF Links
  <2>3. Append(o.out, m) \in Seq(Sent(types))
    BY <1>1, AppendProperties
  <2>4. s \in Outcomes(types)
    BY <1>1, <2>1, <2>2, <2>3 DEF Outcomes
  <2>. QED
    BY <2>1, <2>2, <2>4 DEF Adds
<1>. QED
  BY <1>2, <1>3

LEMMA DrawStep ==
    ASSUME NEW types, NEW o \in Outcomes(types), NEW m \in Sent(types), NEW link \in Links,
           NEW s \in DrawAndSend(o, m, link)
    PROVE  /\ s \in Outcomes(types) /\ Same(o.t, s.t)
           /\ \E id \in PacketIDs : Adds(o, s, [m EXCEPT !.id = id])
<1>1. PICK d \in DrawOutcomes(o.t) :
        LET drawn == [o EXCEPT !.t = d.t, !.err = d.err]
        IN  s \in IF d.err = "NO_ERROR" THEN Send(drawn, [m EXCEPT !.id = d.id], link) ELSE {drawn}
  BY DEF DrawAndSend
<1>. DEFINE drawn == [o EXCEPT !.t = d.t, !.err = d.err]
            x == [m EXCEPT !.id = d.id]
<1>2. o.t \in Terminals
  BY DEF Outcomes
<1>3. /\ d.id \in PacketIDs /\ d.t \in Terminals /\ Same(o.t, d.t)
      /\ d.t.packetIDMap = o.t.packetIDMap /\ d.err \in Errs
  BY <1>2, DrawTerm
<1>4. drawn \in Outcomes(types) /\ drawn.t = d.t /\ drawn.out = o.out
  BY <1>3 DEF Outcomes
<1>5. x \in Sent(types)
  BY <1>3, Renamed DEF Sent
<1>6. s = drawn \/ s \in Send(drawn, x, link)
  BY <1>1
<1>. HIDE DEF drawn
<1>7. s \in Outcomes(types) /\ Same(drawn.t, s.t) /\ Adds(drawn, s, x)
  <2>1. CASE s = drawn
    BY <1>4, <2>1 DEF Same, Adds
  <2>2. CASE s \in Send(drawn, x, link)
    BY <1>4, <1>5, <2>2, SendStep
  <2>. QED
    BY <1>6, <2>1, <2>2
<1>8. Same(o.t, s.t)
  BY <1>3, <1>4, <1>7 DEF Same
<1>9. Adds(o, s, x)
  <2>. HIDE DEF x
  <2>. QED
    BY <1>3, <1>4, <1>7 DEF Adds, Same
<1>. QED
  BY <1>3, <1>7, <1>8, <1>9

\* A topic and a message of the lengths that a CONNECT or a SUBSCRIBE can say
\* fit in a PUBLISH, with a "/" at the end of the topic too.
LEMMA PublishFits ==
    ASSUME NEW topic \in Bytes, NEW u \in Uint16, Len(topic) = u \/ Len(topic) = u + 1,
           NEW payload \in Bytes, Len(payload) \in Uint16, NEW qos \in 0 .. 2, NEW retain \in BOOLEAN
    PROVE  PublishMessage(qos, retain, 0, topic, payload).length <= MaxLength
<1>. DEFINE length == TotalLen(<<topic, payload>>) + 2 + Bit(qos > 0, 2)
<1>1. PublishMessage(qos, retain, 0, topic, payload).length = length
  <2>1. PublishMessage(qos, retain, 0, topic, payload)
          = [Message("PUBLISH", length, 0, [topic |-> topic, payload |-> payload])
               EXCEPT !.qos = qos, !.retain = retain]
    BY DEF PublishMessage
  <2>. HIDE DEF length
  <2>. QED
    BY <2>1 DEF Message
<1>2. TotalLen(<<topic, payload>>) = Len(topic) + Len(payload)
  BY TotalLen2
<1>3. PICK x \in Nat, y \in Nat : x = Len(topic) /\ y = Len(payload) /\ x <= 65536 /\ y <= 65535
  <2>1. Len(topic) \in Nat /\ Len(payload) \in Nat /\ u \in Nat /\ u <= 65535 /\ Len(payload) <= 65535
    BY BufferBytes, ShortNumber
  <2>. QED
    BY <2>1
<1>4. Bit(qos > 0, 2) = 0 \/ Bit(qos > 0, 2) = 2
  BY DEF Bit
<1>5. MaxLength >= 400000 /\ MaxLength \in Nat
  BY SMT DEF MaxLength
<1>6. length = x + y + 2 + 0 \/ length = x + y + 2 + 2
  BY <1>2, <1>3, <1>4
<1>. HIDE DEF length
<1>. QED
  BY <1>1, <1>3, <1>5, <1>6

\* checkQoSAndPublish.
LEMMA PublishStep ==
    ASSUME NEW types, "PUBLISH" \in types, NEW o \in Outcomes(types), NEW link \in Links,
           NEW published \in 0 .. 2, NEW requested \in 0 .. 2, NEW retain \in BOOLEAN,
           NEW topic \in Bytes, NEW u \in Uint16, Len(topic) = u \/ Len(topic) = u + 1,
           NEW message \in Bytes, Len(message) \in Uint16,
           NEW s \in CheckQoSAndPublish(o, published, requested, retain, topic, message, link)
    PROVE  s \in Outcomes(types) /\ Same(o.t, s.t)
<1>. DEFINE qos == Smaller(published, requested)
            m == PublishMessage(qos, retain, 0, topic, message)
<1>1. qos \in 0 .. 2
  BY DEF Smaller
<1>2. s \in DrawAndSend(o, m, link) \/ s \in Send(o, m, link)
  BY DEF CheckQoSAndPublish
<1>. HIDE DEF qos
<1>3. m \in Sent(types)
  BY <1>1, PublishFits, PublishSent DEF Sent
<1>. HIDE DEF m
<1>. QED
  BY <1>2, <1>3, SendStep, DrawStep

-----------------------------------------------------------------------------
(***************************************************************************)
(* What a handler is given of a message.                                   *)
(***************************************************************************)
IsRecord(p) ==
    \E type, dup, qos, retain, length, id, body :
        p = [type |-> type, dup |-> dup, qos |-> qos, retain |-> retain,
             length |-> length, id |-> id, body |-> body]

LEMMA RecordIs ==
    ASSUME NEW type, NEW dup, NEW qos, NEW retain, NEW length, NEW id, NEW body,
           NEW p, p = [type |-> type, dup |-> dup, qos |-> qos, retain |-> retain,
                       length |-> length, id |-> id, body |-> body]
    PROVE  IsRecord(p)
BY DEF IsRecord

LEMMA RecordChanged ==
    ASSUME NEW p, IsRecord(p), NEW i, NEW x
    PROVE  /\ IsRecord([p EXCEPT !.id = i]) /\ IsRecord([p EXCEPT !.body = x])
           /\ IsRecord([p EXCEPT !.id = i, !.body = x])
           /\ LET g == [p EXCEPT !.id = i]
              IN  /\ g.type = p.type /\ g.dup = p.dup /\ g.qos = p.qos /\ g.retain = p.retain
                  /\ g.body = p.body /\ g.id = i
<1>1. PICK type, dup, qos, retain, length, id, body :
        p = [type |-> type, dup |-> dup, qos |-> qos, retain |-> retain,
             length |-> length, id |-> id, body |-> body]
  BY DEF IsRecord
<1>2. [p EXCEPT !.id = i]
        = [type |-> type, dup |-> dup, qos |-> qos, retain |-> retain,
           length |-> length, id |-> i, body |-> body]
  BY <1>1
<1>3. [p EXCEPT !.body = x]
        = [type |-> type, dup |-> dup, qos |-> qos, retain |-> retain,
           length |-> length, id |-> id, body |-> x]
  BY <1>1
<1>4. [p EXCEPT !.id = i, !.body = x]
        = [type |-> type, dup |-> dup, qos |-> qos, retain |-> retain,
           length |-> length, id |-> i, body |-> x]
  <2>. DEFINE q == [p EXCEPT !.id = i]
  <2>1. [q EXCEPT !.body = x]
          = [type |-> type, dup |-> dup, qos |-> qos, retain |-> retain,
             length |-> length, id |-> i, body |-> x]
    <3>. HIDE DEF q
    <3>1. q = [type |-> type, dup |-> dup, qos |-> qos, retain |-> retain,
               length |-> length, id |-> i, body |-> body]
      BY <1>2 DEF q
    <3>. QED
      BY <3>1
  <2>2. [p EXCEPT !.id = i, !.body = x] = [q EXCEPT !.body = x]
    OBVIOUS
  <2>. QED
    BY <2>1, <2>2, Zenon
<1>5. IsRecord([p EXCEPT !.id = i])
  BY <1>2, RecordIs
<1>6. IsRecord([p EXCEPT !.body = x])
  BY <1>3, RecordIs
<1>7. IsRecord([p EXCEPT !.id = i, !.body = x])
  BY <1>4, RecordIs
<1>. QED
  BY <1>1, <1>2, <1>5, <1>6, <1>7

LEMMA ParsedRecord ==
    ASSUME NEW b, Parse(b).err = "NO_ERROR"
    PROVE  IsRecord(Parse(b).msg)
<1>. DEFINE h == ParseHeader(b)
            i == 2 + LengthBytes(b)
<1>1. Parse(b).msg = ParseBody(b, i, h) /\ TypeAt(b) # "RESERVED"
  BY DEF Parse, Failure
<1>2. IsRecord(h) /\ h.type = TypeAt(b)
  BY DEF ParseHeader, IsRecord
<1>3. TypeAt(b) \in Range(MessageType)
  BY <1>1 DEF TypeAt, Range
<1>. HIDE DEF h, i
<1>4. h.type \in {"CONNECT", "CONNACK", "PUBLISH", "PUBACK", "PUBREC", "PUBREL", "PUBCOMP",
                  "SUBSCRIBE", "SUBACK", "UNSUBSCRIBE", "UNSUBACK", "PINGREQ", "PINGRESP",
                  "DISCONNECT"}
  BY <1>2, <1>3 DEF MessageType, Range
<1>5. IsRecord(ParseBody(b, i, h))
  <2>1. CASE h.type = "CONNECT"
    BY <1>2, <2>1, RecordChanged DEF ParseBody
  <2>2. CASE h.type = "CONNACK"
    BY <1>2, <2>2, RecordChanged DEF ParseBody, ParseConnack
  <2>3. CASE h.type = "PUBLISH"
    BY <1>2, <2>3, RecordChanged DEF ParseBody, ParsePublish
  <2>4. CASE h.type = "SUBSCRIBE"
    BY <1>2, <2>4, RecordChanged DEF ParseBody, ParseSubscribe
  <2>5. CASE h.type = "SUBACK"
    BY <1>2, <2>5, RecordChanged DEF ParseBody, ParseSuback
  <2>6. CASE h.type = "UNSUBSCRIBE"
    BY <1>2, <2>6, RecordChanged DEF ParseBody, ParseUnsubscribe
  <2>7. CASE h.type = "UNSUBACK"
    BY <1>2, <2>7, RecordChanged DEF ParseBody, ParseUnsuback
  <2>8. CASE h.type \in {"PUBACK", "PUBREC", "PUBREL", "PUBCOMP"}
    BY <1>2, <2>8, RecordChanged DEF ParseBody, ParseAck
  <2>9. CASE h.type \in {"PINGREQ", "PINGRESP", "DISCONNECT"}
    BY <1>2, <2>9, RecordChanged DEF ParseBody, ParseBare
  <2>. QED
    BY <1>4, <2>1, <2>2, <2>3, <2>4, <2>5, <2>6, <2>7, <2>8, <2>9
<1>. QED
  BY <1>1, <1>5

\* g is what the handler is given of m.
Identified == {"PUBACK", "PUBREC", "PUBREL", "PUBCOMP", "SUBSCRIBE", "SUBACK", "UNSUBSCRIBE",
               "UNSUBACK"}
Came(m, g) ==
    /\ g.type = m.type /\ g.qos \in 0 .. 2 /\ g.id \in PacketIDs
    /\ m.type \in Identified => g.id = m.id
    /\ m.type = "CONNECT" => g.body = AsRead(m.body)
    /\ m.type = "SUBSCRIBE" => Part(g.body, m.body)
    /\ m.type = "PUBLISH" /\ PublishStops(g.body.topic) => g.body.payload = <<>>

LEMMA GivenCame ==
    ASSUME NEW m \in Messages, NEW p, IsRecord(p), Arrives(m, p), NEW g \in Given(p)
    PROVE  Came(m, g)
<1>1. m.qos \in 0 .. 2 /\ m.id \in PacketIDs
  BY DEF Messages, Shapes
<1>2. /\ g.type = p.type /\ g.qos = p.qos /\ g.body = p.body
      /\ g.id \in PacketIDs /\ (p.id \in PacketIDs => g.id = p.id)
  <2>1. CASE p.id \in PacketIDs
    BY <2>1 DEF Given
  <2>2. CASE p.id \notin PacketIDs
    <3>1. PICK id \in PacketIDs : g = [p EXCEPT !.id = id]
      BY <2>2 DEF Given
    <3>. QED
      BY <2>2, <3>1, RecordChanged
  <2>. QED
    BY <2>1, <2>2
<1>3. /\ p.type = m.type /\ p.qos = m.qos
      /\ m.type \in Identified => p.id = m.id
      /\ m.type = "CONNECT" => p.body = AsRead(m.body)
      /\ m.type = "SUBSCRIBE" => Part(p.body, m.body)
      /\ m.type = "PUBLISH" /\ PublishStops(p.body.topic) => p.body.payload = <<>>
  BY DEF Arrives, Faithful, Identified
<1>. QED
  BY <1>1, <1>2, <1>3 DEF Came

-----------------------------------------------------------------------------
(***************************************************************************)
(* A SUBSCRIBE, topic by topic.                                            *)
(***************************************************************************)
\* The outcomes after some of the topics: PUBLISH messages have been written.
Subscribing(t) ==
    {o \in Outcomes({"PUBLISH"}) : o.t.isConnecting = t.isConnecting /\ o.t.will = t.will}

LEMMA FullPathType ==
    ASSUME NEW topic \in Short
    PROVE  /\ FullPath(topic) \in Bytes /\ Len(topic) \in Uint16
           /\ Len(FullPath(topic)) = Len(topic) \/ Len(FullPath(topic)) = Len(topic) + 1
<1>1. topic \in Bytes /\ Len(topic) \in Uint16
  BY DEF Short
<1>2. 47 \in Byte
  BY DEF Byte
<1>3. Append(topic, 47) \in Bytes /\ Len(Append(topic, 47)) = Len(topic) + 1
  BY <1>1, <1>2, AppendProperties DEF Bytes
<1>. QED
  BY <1>1, <1>3 DEF FullPath

LEMMA SubscribeTopicStep ==
    ASSUME NEW t, NEW o \in Subscribing(t), NEW w \in Filters, NEW link \in Links,
           NEW s \in SubscribeTopic(o, w, link)
    PROVE  s \in Subscribing(t)
<1>. DEFINE topics == {x \in o.t.subTopics : x.topic # w.topic} \cup {w}
            subscribed == [o EXCEPT !.t.subTopics = topics]
            kept == {r \in Retained : r.topic = w.topic}
<1>1. /\ o.t \in Terminals /\ o.err \in Errs /\ o.out \in Seq(Sent({"PUBLISH"}))
      /\ o = [t |-> o.t, err |-> o.err, out |-> o.out]
      /\ o.t.isConnecting = t.isConnecting /\ o.t.will = t.will
  BY DEF Subscribing, Outcomes
<1>2. topics \in SUBSET Filters
  BY <1>1 DEF Terminals
<1>. HIDE DEF topics
<1>3. subscribed = [t |-> [o.t EXCEPT !.subTopics = topics], err |-> o.err, out |-> o.out]
  BY <1>1
<1>4. /\ [o.t EXCEPT !.subTopics = topics] \in Terminals
      /\ [o.t EXCEPT !.subTopics = topics].isConnecting = t.isConnecting
      /\ [o.t EXCEPT !.subTopics = topics].will = t.will
  BY <1>1, <1>2 DEF Terminals
<1>5. /\ subscribed \in Outcomes({"PUBLISH"})
      /\ subscribed.t.isConnecting = t.isConnecting /\ subscribed.t.will = t.will
  BY <1>1, <1>3, <1>4 DEF Outcomes
<1>6. \/ s = o
      \/ s = subscribed
      \/ \E r \in kept : s \in CheckQoSAndPublish(subscribed, r.qos, w.qos, TRUE,
                                                  FullPath(r.topic), r.message, link)
  BY DEF SubscribeTopic, topics
<1>. HIDE DEF subscribed
<1>7. ASSUME NEW r \in kept,
             s \in CheckQoSAndPublish(subscribed, r.qos, w.qos, TRUE, FullPath(r.topic),
                                      r.message, link)
      PROVE  s \in Subscribing(t)
  <2>1. r.topic \in Short /\ r.qos \in 0 .. 2 /\ r.message \in Short /\ w.qos \in 0 .. 2
    BY LinkAssumption DEF Filters, Wants
  <2>2. /\ FullPath(r.topic) \in Bytes /\ Len(r.topic) \in Uint16
        /\ Len(FullPath(r.topic)) = Len(r.topic) \/ Len(FullPath(r.topic)) = Len(r.topic) + 1
        /\ r.message \in Bytes /\ Len(r.message) \in Uint16
    BY <2>1, FullPathType, ShortLen
  <2>3. "PUBLISH" \in {"PUBLISH"} /\ TRUE \in BOOLEAN
    OBVIOUS
  <2>4. s \in Outcomes({"PUBLISH"}) /\ Same(subscribed.t, s.t)
    BY <1>5, <1>7, <2>1, <2>2, <2>3, PublishStep
  <2>. QED
    BY <1>5, <2>4 DEF Subscribing, Same
<1>. QED
  BY <1>5, <1>6, <1>7 DEF Subscribing

\* After the topics there is the answer, or an error.
Subscribes(t, m, link, s) ==
    \E o \in Subscribing(t) :
      s \in IF o.err = "NO_ERROR"
            THEN Send(o, SubackMessage(m.id, [i \in DOMAIN m.body |-> m.body[i].qos]), link)
            ELSE {o}

\* The recursive function of RecvSubscribe is defined by its equation, and its
\* values are sets of outcomes.
LEMMA SubscribeSteps ==
    ASSUME NEW t \in Terminals, NEW m, m.body \in Seq(Filters), NEW link \in Links,
           NEW s \in RecvSubscribe(t, m, link)
    PROVE  Subscribes(t, m, link, s)
<1>. DEFINE n == Len(m.body)
            D == SUBSET Subscribing(t)
            first == {Done(t, "NO_ERROR")}
            N(k, os) == UNION {SubscribeTopic(o, m.body[k], link) : o \in os}
            next == [p \in Nat \X D |->
                       <<p[1] + 1, IF p[1] + 1 \in 1 .. n THEN N(p[1] + 1, p[2]) ELSE p[2]>>]
            g == Iterate(next, <<0, first>>)
            f == [k \in 0 .. n |-> g[k][2]]
            IsAfter(h) == h = [i \in 0 .. n |-> IF i = 0 THEN first ELSE N(i, h[i - 1])]
            after == CHOOSE h : IsAfter(h)
<1>1. n \in Nat /\ \A k \in 1 .. n : m.body[k] \in Filters
  BY ElementOfSeq
<1>2. first \in D
  <2>1. /\ Done(t, "NO_ERROR").t = t /\ Done(t, "NO_ERROR").err = "NO_ERROR"
        /\ Done(t, "NO_ERROR") \in Outcomes({"PUBLISH"})
    BY EmptySeq DEF Done, Outcomes, Errs
  <2>. QED
    BY <2>1 DEF Subscribing
<1>3. ASSUME NEW k \in 1 .. n, NEW os \in D PROVE N(k, os) \in D
  BY <1>1, SubscribeTopicStep
<1>. HIDE DEF n, D, first, N
<1>4. ASSUME NEW p \in Nat \X D
      PROVE  next[p] \in Nat \X D /\ next[p][1] = p[1] + 1
             /\ (p[1] + 1 \in 1 .. n => next[p][2] = N(p[1] + 1, p[2]))
  BY <1>3
<1>. HIDE DEF next
<1>5. g[0] = <<0, first>> /\ \A k \in Nat : g[k + 1] = next[g[k]]
  BY IterateDef
<1>. HIDE DEF g
<1>6. \A k \in Nat : g[k] \in Nat \X D /\ g[k][1] = k
  <2>. DEFINE T == {k \in Nat : g[k] \in Nat \X D /\ g[k][1] = k}
  <2>1. 0 \in T
    <3>1. <<0, first>> \in Nat \X D /\ <<0, first>>[1] = 0
      BY <1>2
    <3>. QED
      BY <1>5, <3>1
  <2>2. ASSUME NEW k \in Nat, k \in T PROVE k + 1 \in T
    <3>1. g[k] \in Nat \X D /\ g[k][1] = k
      BY <2>2
    <3>2. next[g[k]] \in Nat \X D /\ next[g[k]][1] = k + 1
      BY <1>4, <3>1
    <3>. QED
      BY <1>5, <3>2
  <2>. HIDE DEF T
  <2>3. Nat \subseteq T
    BY <2>1, <2>2, Induction
  <2>. QED
    BY <2>3 DEF T
<1>7. IsAfter(f)
  <2>1. ASSUME NEW i \in 0 .. n PROVE f[i] = IF i = 0 THEN first ELSE N(i, f[i - 1])
    <3>1. CASE i = 0
      BY <1>1, <1>5, <3>1
    <3>2. CASE i # 0
      <4>1. i - 1 \in Nat /\ (i - 1) + 1 = i /\ i \in 1 .. n /\ i - 1 \in 0 .. n
        BY <1>1, <3>2
      <4>2. g[i] = next[g[i - 1]] /\ g[i - 1] \in Nat \X D /\ g[i - 1][1] = i - 1
        BY <1>5, <1>6, <4>1
      <4>3. g[i][2] = N(i, g[i - 1][2])
        BY <1>4, <4>1, <4>2
      <4>. QED
        BY <3>2, <4>1, <4>3
    <3>. QED
      BY <3>1, <3>2
  <2>2. f = [i \in 0 .. n |-> f[i]]
    OBVIOUS
  <2>. HIDE DEF f
  <2>. QED
    BY <2>1, <2>2
<1>. HIDE DEF f
<1>8. IsAfter(after)
  <2>. HIDE DEF IsAfter
  <2>. QED
    BY <1>7
<1>9. s \in UNION { IF o.err = "NO_ERROR"
                    THEN Send(o, SubackMessage(m.id, [i \in DOMAIN m.body |-> m.body[i].qos]), link)
                    ELSE {o} : o \in after[n] }
  BY DEF RecvSubscribe, n, N, first
<1>. HIDE DEF after
<1>10. \A k \in 0 .. n : after[k] \in D
  <2>. DEFINE T == {k \in Nat : k <= n => after[k] \in D}
  <2>1. 0 \in T
    BY <1>1, <1>2, <1>8
  <2>2. ASSUME NEW k \in Nat, k \in T PROVE k + 1 \in T
    <3>. SUFFICES ASSUME k + 1 <= n PROVE after[k + 1] \in D
      OBVIOUS
    <3>1. k \in 0 .. n /\ k + 1 \in 0 .. n /\ k + 1 \in 1 .. n /\ k + 1 # 0 /\ (k + 1) - 1 = k
      BY <1>1
    <3>2. after[k] \in D
      BY <1>1, <2>2, <3>1
    <3>3. after[k + 1] = N(k + 1, after[(k + 1) - 1])
      BY <1>8, <3>1
    <3>. QED
      BY <1>3, <3>1, <3>2, <3>3
  <2>. HIDE DEF T
  <2>3. Nat \subseteq T
    BY <2>1, <2>2, Induction
  <2>. QED
    BY <1>1, <2>3 DEF T
<1>11. after[n] \subseteq Subscribing(t)
  BY <1>1, <1>10 DEF D
<1>. QED
  BY <1>9, <1>11 DEF Subscribes

-----------------------------------------------------------------------------
(***************************************************************************)
(* The handlers of the broker.                                             *)
(***************************************************************************)
LEMMA DoneType ==
    ASSUME NEW types, NEW t \in Terminals, NEW err \in Errs
    PROVE  /\ Done(t, err) \in Outcomes(types)
           /\ Done(t, err).t = t /\ Done(t, err).err = err /\ Done(t, err).out = <<>>
BY EmptySeq DEF Done, Outcomes

\* What may be among the messages that are written when m is handled: a message
\* that answers another one is the last, and answers m.
Reply(m, r) ==
    /\ r.type \in Answers => m.type \in Asks /\ r.id = m.id /\ r.type = AnswerTo[m.type]
    /\ r.type = "PUBCOMP" => m.type = "PUBREL"
Replies(m, out) ==
    \A i \in 1 .. Len(out) : Reply(m, out[i]) /\ (out[i].type \in Answers => i = Len(out))

LEMMA OnlyPublish ==
    ASSUME NEW m, NEW o \in Outcomes({"PUBLISH"})
    PROVE  o \in Outcomes(BrokerTypes) /\ Replies(m, o.out)
<1>1. Sent({"PUBLISH"}) \subseteq Sent(BrokerTypes)
  BY DEF Sent, BrokerTypes
<1>2. o.out \in Seq(Sent(BrokerTypes))
  BY <1>1, SeqDef DEF Outcomes
<1>3. \A i \in 1 .. Len(o.out) : o.out[i].type = "PUBLISH"
  BY ElementOfSeq DEF Outcomes, Sent
<1>4. "PUBLISH" \notin Answers /\ "PUBLISH" # "PUBCOMP"
  BY DEF Answers
<1>. QED
  BY <1>2, <1>3, <1>4 DEF Outcomes, Replies, Reply

LEMMA ReplyStep ==
    ASSUME NEW m, NEW o \in Outcomes({"PUBLISH"}), NEW r \in Sent(BrokerTypes), Reply(m, r),
           NEW link \in Links, NEW s \in Send(o, r, link)
    PROVE  s \in Outcomes(BrokerTypes) /\ Same(o.t, s.t) /\ Replies(m, s.out)
<1>1. o \in Outcomes(BrokerTypes) /\ Replies(m, o.out)
  BY OnlyPublish
<1>2. s \in Outcomes(BrokerTypes) /\ Same(o.t, s.t) /\ Adds(o, s, r)
  BY <1>1, SendStep
<1>3. /\ o.out \in Seq(Sent({"PUBLISH"})) /\ Len(o.out) \in Nat
      /\ \A i \in 1 .. Len(o.out) : o.out[i].type = "PUBLISH"
  BY ElementOfSeq DEF Outcomes, Sent
<1>4. CASE s.out = o.out
  BY <1>1, <1>2, <1>4
<1>5. CASE s.out = Append(o.out, r)
  <2>1. /\ Len(s.out) = Len(o.out) + 1 /\ s.out[Len(o.out) + 1] = r
        /\ \A i \in 1 .. Len(o.out) : s.out[i] = o.out[i]
    BY <1>3, <1>5, AppendProperties
  <2>2. ASSUME NEW i \in 1 .. Len(s.out)
        PROVE  Reply(m, s.out[i]) /\ (s.out[i].type \in Answers => i = Len(s.out))
    <3>1. CASE i = Len(o.out) + 1
      BY <2>1, <3>1
    <3>2. CASE i # Len(o.out) + 1
      <4>1. i \in 1 .. Len(o.out)
        BY <1>3, <2>1, <3>2
      <4>2. s.out[i].type = "PUBLISH"
        BY <1>3, <2>1, <4>1
      <4>. QED
        BY <4>2 DEF Reply, Answers
    <3>. QED
      BY <3>1, <3>2
  <2>. QED
    BY <1>2, <2>2 DEF Replies
<1>. QED
  BY <1>2, <1>4, <1>5 DEF Adds

\* What ends the handling of a PUBLISH, at either end.
LEMMA AcknowledgeCases ==
    ASSUME NEW os, NEW g, NEW link, NEW s \in Acknowledge(os, g, link)
    PROVE  \E o \in os : \/ s = o
                         \/ s = [o EXCEPT !.err = "PACKET_ID_SHOULD_BE_ZERO"]
                         \/ s \in Send(o, Ack("PUBACK", g.id), link)
                         \/ s \in Send(o, Ack("PUBREC", g.id), link)
<1>1. CASE g.qos = 0
  BY <1>1 DEF Acknowledge
<1>2. CASE g.qos # 0
  BY <1>2 DEF Acknowledge
<1>. QED
  BY <1>1, <1>2

LEMMA ErrChanged ==
    ASSUME NEW types, NEW o \in Outcomes(types)
    PROVE  LET s == [o EXCEPT !.err = "PACKET_ID_SHOULD_BE_ZERO"]
           IN  s \in Outcomes(types) /\ s.t = o.t /\ s.out = o.out
BY DEF Outcomes, Errs

LEMMA BrokerPublish ==
    ASSUME NEW t \in Terminals, NEW m \in Messages, NEW g, Came(m, g), m.type = "PUBLISH",
           NEW link \in Links, NEW s \in RecvPublish(t, g, link)
    PROVE  s \in Outcomes(BrokerTypes) /\ Same(t, s.t) /\ Replies(m, s.out)
<1>. DEFINE subs == {x \in t.subTopics : x.topic = g.body.topic}
            forwarded == IF subs = {} THEN {Done(t, "NO_ERROR")}
                         ELSE UNION { CheckQoSAndPublish(Done(t, "NO_ERROR"), g.qos, x.qos, FALSE,
                                        g.body.topic, g.body.payload, link) : x \in subs }
<1>1. g.qos \in 0 .. 2 /\ g.id \in PacketIDs
  BY DEF Came
<1>2. Done(t, "NO_ERROR") \in Outcomes({"PUBLISH"}) /\ Done(t, "NO_ERROR").t = t
  BY DoneType DEF Errs
<1>3. ASSUME NEW o \in forwarded PROVE o \in Outcomes({"PUBLISH"}) /\ Same(t, o.t)
  <2>1. CASE subs = {}
    BY <1>2, <1>3, <2>1 DEF Same
  <2>2. CASE subs # {}
    <3>1. PICK x \in subs : o \in CheckQoSAndPublish(Done(t, "NO_ERROR"), g.qos, x.qos, FALSE,
                                    g.body.topic, g.body.payload, link)
      BY <1>3, <2>2
    <3>2. x \in Filters /\ x.topic = g.body.topic
      BY <3>1 DEF Terminals
    <3>3. x.topic \in Short /\ x.qos \in 0 .. 2 /\ 35 \notin Range(x.topic)
      BY <3>2 DEF Filters, Wants
    <3>4. g.body.topic \in Bytes /\ Len(g.body.topic) \in Uint16 /\ g.body.payload = <<>>
      BY <3>2, <3>3, ShortLen DEF Came, PublishStops
    <3>5. <<>> \in Bytes /\ Len(<<>>) \in Uint16 /\ FALSE \in BOOLEAN /\ "PUBLISH" \in {"PUBLISH"}
      BY Identifiers, EmptySeq DEF Bytes
    <3>. HIDE DEF forwarded, subs
    <3>6. o \in Outcomes({"PUBLISH"}) /\ Same(Done(t, "NO_ERROR").t, o.t)
      BY <1>1, <1>2, <3>1, <3>3, <3>4, <3>5, PublishStep
    <3>. QED
      BY <1>2, <3>6
  <2>. QED
    BY <2>1, <2>2
<1>4. s \in Acknowledge(forwarded, g, link)
  BY DEF RecvPublish
<1>. HIDE DEF forwarded
<1>5. PICK o \in forwarded : \/ s = o
                             \/ s = [o EXCEPT !.err = "PACKET_ID_SHOULD_BE_ZERO"]
                             \/ s \in Send(o, Ack("PUBACK", g.id), link)
                             \/ s \in Send(o, Ack("PUBREC", g.id), link)
  BY <1>4, AcknowledgeCases
<1>6. o \in Outcomes({"PUBLISH"}) /\ Same(t, o.t)
  BY <1>3
<1>7. CASE s = o
  BY <1>6, <1>7, OnlyPublish
<1>8. CASE s = [o EXCEPT !.err = "PACKET_ID_SHOULD_BE_ZERO"]
  <2>1. s \in Outcomes({"PUBLISH"}) /\ s.t = o.t
    BY <1>6, <1>8, ErrChanged
  <2>. QED
    BY <1>6, <2>1, OnlyPublish
<1>9. ASSUME NEW type \in {"PUBACK", "PUBREC"}, s \in Send(o, Ack(type, g.id), link)
      PROVE  s \in Outcomes(BrokerTypes) /\ Same(t, s.t) /\ Replies(m, s.out)
  <2>1. Ack(type, g.id) \in Messages /\ Ack(type, g.id).type = type
    BY <1>1, AckSent DEF AckTypes
  <2>2. Ack(type, g.id) \in Sent(BrokerTypes) /\ Reply(m, Ack(type, g.id))
    BY <2>1 DEF Sent, BrokerTypes, Reply, Answers
  <2>3. s \in Outcomes(BrokerTypes) /\ Same(o.t, s.t) /\ Replies(m, s.out)
    BY <1>6, <1>9, <2>2, ReplyStep
  <2>. QED
    BY <1>6, <2>3 DEF Same
<1>. QED
  BY <1>5, <1>7, <1>8, <1>9

\* PUBACK, PUBREC, PUBREL and PUBCOMP, at either end.
LEMMA ExchangeCases ==
    ASSUME NEW t \in Terminals, NEW g, g.type \in Exchanged, g.id \in PacketIDs, NEW link,
           NEW s \in Exchange(t, g, link)
    PROVE  LET acked == Done(Acked(t, g.id), AckError(t, g.id))
           IN  /\ g.type = "PUBACK" => s = acked \/ s = Done(t, "NO_ERROR")
               /\ g.type = "PUBREC" => s \in Send(acked, Ack("PUBREL", g.id), link)
               /\ g.type = "PUBREL" => s \in Send(acked, Ack("PUBCOMP", g.id), link)
               /\ g.type = "PUBCOMP" => s = acked
<1>. DEFINE acked == Done(Acked(t, g.id), AckError(t, g.id))
<1>1. CASE g.type = "PUBACK"
  BY <1>1 DEF Exchange
<1>2. CASE g.type = "PUBREC"
  BY <1>2 DEF Exchange
<1>3. CASE g.type = "PUBREL"
  BY <1>3 DEF Exchange
<1>4. CASE g.type = "PUBCOMP"
  BY <1>4 DEF Exchange
<1>. QED
  BY <1>1, <1>2, <1>3, <1>4 DEF Exchanged

LEMMA BrokerExchange ==
    ASSUME NEW t \in Terminals, NEW m \in Messages, NEW g, Came(m, g), m.type \in Exchanged,
           NEW link \in Links, NEW s \in Exchange(t, g, link)
    PROVE  s \in Outcomes(BrokerTypes) /\ Same(t, s.t) /\ Replies(m, s.out)
<1>. DEFINE acked == Done(Acked(t, g.id), AckError(t, g.id))
<1>1. g.type = m.type /\ g.id = m.id /\ g.id \in PacketIDs
  BY DEF Came, Identified, Exchanged
<1>2. /\ acked \in Outcomes({"PUBLISH"}) /\ Same(t, acked.t)
      /\ Done(t, "NO_ERROR") \in Outcomes({"PUBLISH"}) /\ Same(t, Done(t, "NO_ERROR").t)
  <2>1. /\ Acked(t, g.id) \in Terminals /\ Same(t, Acked(t, g.id)) /\ AckError(t, g.id) \in Errs
        /\ "NO_ERROR" \in Errs /\ Same(t, t)
    BY <1>1, AckedTerm DEF Errs, Same
  <2>. QED
    BY <2>1, DoneType
<1>. HIDE DEF acked
<1>3. /\ g.type = "PUBACK" => s = acked \/ s = Done(t, "NO_ERROR")
      /\ g.type = "PUBREC" => s \in Send(acked, Ack("PUBREL", g.id), link)
      /\ g.type = "PUBREL" => s \in Send(acked, Ack("PUBCOMP", g.id), link)
      /\ g.type = "PUBCOMP" => s = acked
  BY <1>1, ExchangeCases DEF acked
<1>4. CASE m.type = "PUBACK" \/ m.type = "PUBCOMP"
  BY <1>1, <1>2, <1>3, <1>4, OnlyPublish
<1>5. ASSUME NEW type \in {"PUBREL", "PUBCOMP"}, s \in Send(acked, Ack(type, g.id), link),
             m.type = IF type = "PUBREL" THEN "PUBREC" ELSE "PUBREL"
      PROVE  s \in Outcomes(BrokerTypes) /\ Same(t, s.t) /\ Replies(m, s.out)
  <2>1. /\ Ack(type, g.id) \in Messages /\ Ack(type, g.id).type = type
        /\ Ack(type, g.id).id = g.id
    BY <1>1, AckSent DEF AckTypes
  <2>2. Ack(type, g.id) \in Sent(BrokerTypes) /\ Reply(m, Ack(type, g.id))
    BY <1>1, <1>5, <2>1 DEF Sent, BrokerTypes, Reply, Answers, Asks, AnswerTo
  <2>3. s \in Outcomes(BrokerTypes) /\ Same(acked.t, s.t) /\ Replies(m, s.out)
    BY <1>2, <1>5, <2>2, ReplyStep
  <2>. QED
    BY <1>2, <2>3 DEF Same
<1>6. CASE m.type = "PUBREC"
  BY <1>1, <1>3, <1>5, <1>6
<1>7. CASE m.type = "PUBREL"
  BY <1>1, <1>3, <1>5, <1>7
<1>. QED
  BY <1>4, <1>6, <1>7 DEF Exchanged

LEMMA BrokerSubscribe ==
    ASSUME NEW t \in Terminals, NEW m \in Messages, NEW g, Came(m, g), m.type = "SUBSCRIBE",
           NEW link \in Links, NEW s \in RecvSubscribe(t, g, link)
    PROVE  s \in Outcomes(BrokerTypes) /\ s.t.isConnecting = t.isConnecting /\ Replies(m, s.out)
<1>. DEFINE codes == [i \in DOMAIN g.body |-> g.body[i].qos]
            r == SubackMessage(g.id, codes)
<1>1. /\ g.id = m.id /\ g.id \in PacketIDs /\ Part(g.body, m.body)
  BY DEF Came, Identified
<1>2. /\ m.body \in Seq(Filters) /\ m.body \in Seq(Wants) /\ m.length \in 0 .. MaxLength
      /\ m.length = 2 + Len(m.body) + TotalLen(TopicNames(m.body))
  BY DEF Messages, IsMessage
<1>3. g.body \in Seq(Filters) /\ Len(g.body) <= Len(m.body)
  BY <1>1, <1>2 DEF Part
<1>4. codes \in Bytes /\ Len(codes) = Len(g.body)
  <2>1. /\ Len(g.body) \in Nat /\ DOMAIN g.body = 1 .. Len(g.body)
        /\ \A i \in 1 .. Len(g.body) : g.body[i] \in Filters
    BY <1>3, ElementOfSeq, LenProperties
  <2>2. \A i \in 1 .. Len(g.body) : g.body[i].qos \in Byte
    <3>1. \A q \in 0 .. 2 : q \in Byte
      BY DEF Byte
    <3>. QED
      BY <2>1, <3>1 DEF Filters, Wants
  <2>3. codes \in [1 .. Len(g.body) -> Byte]
    BY <2>1, <2>2
  <2>. QED
    BY <2>1, <2>3 DEF Bytes
<1>5. 2 + Len(codes) <= MaxLength
  <2>1. TotalLen(TopicNames(m.body)) \in Nat
    <3>1. /\ Len(m.body) \in Nat /\ DOMAIN m.body = 1 .. Len(m.body)
          /\ \A i \in 1 .. Len(m.body) : m.body[i] \in Wants
      BY <1>2, ElementOfSeq, LenProperties
    <3>2. \A i \in 1 .. Len(m.body) : m.body[i].topic \in Bytes
      BY <3>1 DEF Wants, Short
    <3>3. TopicNames(m.body) = [i \in 1 .. Len(m.body) |-> m.body[i].topic]
      BY <3>1 DEF TopicNames
    <3>4. TopicNames(m.body) \in Seq(Bytes)
      BY <3>1, <3>2, <3>3
    <3>. QED
      BY <3>4, StringLengths
  <2>2. PICK k \in Nat, l \in Nat, n \in Nat :
          k = Len(codes) /\ l = Len(m.body) /\ n = TotalLen(TopicNames(m.body))
    BY <1>2, <1>4, <2>1, BufferBytes
  <2>3. k <= l /\ 2 + l + n <= MaxLength
    BY <1>2, <1>3, <1>4, <2>2, MaxLengthNat
  <2>. QED
    BY <2>2, <2>3, MaxLengthNat
<1>6. r \in Sent(BrokerTypes) /\ Reply(m, r)
  <2>. HIDE DEF codes
  <2>1. r \in Messages /\ r.type = "SUBACK" /\ r.id = m.id
    BY <1>1, <1>4, <1>5, SubackSent
  <2>. HIDE DEF r
  <2>. QED
    BY <2>1 DEF Sent, BrokerTypes, Reply, Asks, AnswerTo
<1>7. PICK o \in Subscribing(t) : s \in IF o.err = "NO_ERROR" THEN Send(o, r, link) ELSE {o}
  <2>1. Subscribes(t, g, link, s)
    BY <1>3, SubscribeSteps
  <2>. QED
    BY <2>1, Zenon DEF Subscribes
<1>8. o \in Outcomes({"PUBLISH"}) /\ o.t.isConnecting = t.isConnecting
  BY DEF Subscribing
<1>. HIDE DEF r
<1>9. CASE s = o
  BY <1>8, <1>9, OnlyPublish
<1>10. CASE s \in Send(o, r, link)
  BY <1>6, <1>8, <1>10, ReplyStep DEF Same
<1>. QED
  BY <1>7, <1>9, <1>10

LEMMA BrokerUnsubscribe ==
    ASSUME NEW t \in Terminals, NEW m \in Messages, NEW g, Came(m, g), m.type = "UNSUBSCRIBE",
           NEW link \in Links, NEW s \in RecvUnsubscribe(t, g, link)
    PROVE  s \in Outcomes(BrokerTypes) /\ s.t.isConnecting = t.isConnecting /\ Replies(m, s.out)
<1>. DEFINE after == [t EXCEPT !.subTopics = {x \in @ : x.topic \notin Range(g.body)}]
            r == Ack("UNSUBACK", g.id)
<1>1. g.id = m.id /\ g.id \in PacketIDs
  BY DEF Came, Identified
<1>2. after \in Terminals /\ after.isConnecting = t.isConnecting
  BY DEF Terminals
<1>3. s = Done(t, "PROTOCOL_VIOLATION") \/ s \in Send(Done(after, "NO_ERROR"), r, link)
  BY DEF RecvUnsubscribe
<1>. HIDE DEF after
<1>4. /\ Done(t, "PROTOCOL_VIOLATION") \in Outcomes({"PUBLISH"})
      /\ Done(t, "PROTOCOL_VIOLATION").t = t
      /\ Done(after, "NO_ERROR") \in Outcomes({"PUBLISH"}) /\ Done(after, "NO_ERROR").t = after
  <2>1. "PROTOCOL_VIOLATION" \in Errs /\ "NO_ERROR" \in Errs
    BY DEF Errs
  <2>. QED
    BY <1>2, <2>1, DoneType
<1>5. r \in Sent(BrokerTypes) /\ Reply(m, r)
  <2>1. r \in Messages /\ r.type = "UNSUBACK" /\ r.id = m.id
    BY <1>1, AckSent DEF AckTypes
  <2>. HIDE DEF r
  <2>. QED
    BY <2>1 DEF Sent, BrokerTypes, Reply, Asks, AnswerTo
<1>. HIDE DEF r
<1>6. CASE s = Done(t, "PROTOCOL_VIOLATION")
  BY <1>4, <1>6, OnlyPublish
<1>7. CASE s \in Send(Done(after, "NO_ERROR"), r, link)
  <2>1. s \in Outcomes(BrokerTypes) /\ Same(Done(after, "NO_ERROR").t, s.t) /\ Replies(m, s.out)
    BY <1>4, <1>5, <1>7, ReplyStep
  <2>. QED
    BY <1>2, <1>4, <2>1 DEF Same
<1>. QED
  BY <1>3, <1>6, <1>7

LEMMA DisconnectedTerm ==
    ASSUME NEW t \in Terminals
    PROVE  Disconnected(t) \in Terminals /\ ~Disconnected(t).isConnecting
BY DEF Disconnected, Terminals

LEMMA BrokerStep ==
    ASSUME NEW t \in Terminals, NEW m \in Sent(ClientTypes), NEW g, Came(m, g),
           NEW link \in Links, NEW s \in BrokerHandles(t, g, link)
    PROVE  /\ s \in Outcomes(BrokerTypes) /\ Replies(m, s.out)
           /\ m.type = "DISCONNECT" => s.err = "CRASH" \/ (s.err = "NO_ERROR" /\ ~s.t.isConnecting)
           /\ m.type # "DISCONNECT" => s.t.isConnecting = t.isConnecting
<1>1. m \in Messages /\ m.type \in ClientTypes /\ g.type = m.type
  BY DEF Sent, Came
<1>2. CASE m.type = "PUBLISH"
  <2>1. s \in RecvPublish(t, g, link)
    BY <1>1, <1>2 DEF BrokerHandles, Exchanged
  <2>. QED
    BY <1>1, <1>2, <2>1, BrokerPublish DEF Same
<1>3. CASE m.type \in Exchanged
  <2>1. s \in Exchange(t, g, link) /\ m.type # "DISCONNECT"
    BY <1>1, <1>3 DEF BrokerHandles, Exchanged
  <2>. QED
    BY <1>1, <1>3, <2>1, BrokerExchange DEF Same
<1>4. CASE m.type = "SUBSCRIBE"
  <2>1. s \in RecvSubscribe(t, g, link)
    BY <1>1, <1>4 DEF BrokerHandles, Exchanged
  <2>. QED
    BY <1>1, <1>4, <2>1, BrokerSubscribe
<1>5. CASE m.type = "UNSUBSCRIBE"
  <2>1. s \in RecvUnsubscribe(t, g, link)
    BY <1>1, <1>5 DEF BrokerHandles, Exchanged
  <2>. QED
    BY <1>1, <1>5, <2>1, BrokerUnsubscribe
<1>6. CASE m.type = "PINGREQ"
  <2>1. s \in Send(Done(t, "NO_ERROR"), Bare("PINGRESP"), link)
    BY <1>1, <1>6 DEF BrokerHandles, Exchanged
  <2>2. Done(t, "NO_ERROR") \in Outcomes({"PUBLISH"}) /\ Done(t, "NO_ERROR").t = t
    BY DoneType DEF Errs
  <2>3. Bare("PINGRESP") \in Messages /\ Bare("PINGRESP").type = "PINGRESP"
    BY BareSent DEF BareTypes
  <2>4. Bare("PINGRESP") \in Sent(BrokerTypes) /\ Reply(m, Bare("PINGRESP"))
    BY <2>3 DEF Sent, BrokerTypes, Reply, Answers
  <2>5. s \in Outcomes(BrokerTypes) /\ Same(Done(t, "NO_ERROR").t, s.t) /\ Replies(m, s.out)
    BY <2>1, <2>2, <2>4, ReplyStep
  <2>. QED
    BY <1>6, <2>2, <2>5 DEF Same
<1>7. CASE m.type = "DISCONNECT"
  <2>1. s \in RecvDisconnect(t)
    BY <1>1, <1>7 DEF BrokerHandles, Exchanged
  <2>2. /\ s \in Outcomes({"PUBLISH"})
        /\ s.err = "CRASH" \/ (s.err = "NO_ERROR" /\ ~s.t.isConnecting)
    <3>1. CASE s = Done(Disconnected(t), "NO_ERROR")
      <4>1. /\ Disconnected(t) \in Terminals /\ ~Disconnected(t).isConnecting
            /\ "NO_ERROR" \in Errs
        BY DisconnectedTerm DEF Errs
      <4>2. /\ Done(Disconnected(t), "NO_ERROR") \in Outcomes({"PUBLISH"})
            /\ Done(Disconnected(t), "NO_ERROR").t = Disconnected(t)
            /\ Done(Disconnected(t), "NO_ERROR").err = "NO_ERROR"
        BY <4>1, DoneType
      <4>. QED
        BY <3>1, <4>1, <4>2
    <3>2. CASE s = Done(t, "CRASH")
      <4>1. "CRASH" \in Errs
        BY DEF Errs
      <4>. QED
        BY <3>2, <4>1, DoneType
    <3>. QED
      BY <2>1, <3>1, <3>2 DEF RecvDisconnect
  <2>. QED
    BY <1>7, <2>2, OnlyPublish
<1>. QED
  BY <1>1, <1>2, <1>3, <1>4, <1>5, <1>6, <1>7 DEF ClientTypes, Exchanged

\* A CONNECT ends the process, or is accepted.
LEMMA BrokerConnect ==
    ASSUME NEW t \in Terminals, NEW m \in Messages, m.type = "CONNECT", NEW g, Came(m, g),
           NEW s \in BrokerHandles(t, g, "open")
    PROVE  /\ s.t \in Terminals /\ s.err \in Errs
           /\ \/ s.err = "CRASH" /\ s.out = <<>>
              \/ /\ s.err = "NO_ERROR" /\ s.out = <<ConnackMessage(FALSE, 0)>>
                 /\ s.t.isConnecting
<1>. DEFINE after == [t EXCEPT !.will = g.body.will, !.cleanSession = g.body.clean,
                               !.isConnecting = TRUE]
            r == ConnackMessage(FALSE, 0)
            o == Done(after, "NO_ERROR")
<1>1. s \in RecvConnect(t, g, "open")
  <2>1. g.type = "CONNECT"
    BY DEF Came
  <2>. QED
    BY <2>1 DEF BrokerHandles, Exchanged
<1>2. CASE g.body.will = Unset \/ g.body.user = Unset
  <2>1. s = Done(t, "CRASH") /\ "CRASH" \in Errs
    BY <1>1, <1>2 DEF RecvConnect, Errs
  <2>. QED
    BY <2>1, DoneType DEF Outcomes
<1>3. CASE ~(g.body.will = Unset \/ g.body.user = Unset)
  <2>1. g.body = AsRead(m.body) /\ m.body \in ConnectBodies /\ m.body.will = Will
    BY DEF Came, Messages, IsMessage
  <2>2. g.body.will = Will
    <3>1. [m.body EXCEPT !.user = Unset].user = Unset
      BY <2>1 DEF ConnectBodies
    <3>2. NoFields.will = Unset
      BY DEF NoFields
    <3>. QED
      BY <1>3, <2>1, <3>1, <3>2 DEF AsRead
  <2>3. /\ after \in Terminals /\ after.isConnecting = TRUE
        /\ after.packetIDMap = t.packetIDMap
    <3>1. g.body.clean \in BOOLEAN
      <4>1. /\ m.body.clean \in BOOLEAN /\ [m.body EXCEPT !.user = Unset].clean = m.body.clean
            /\ NoFields.clean = FALSE
        BY <2>1 DEF ConnectBodies, NoFields
      <4>2. \/ g.body = [m.body EXCEPT !.user = Unset] \/ g.body = NoFields \/ g.body = m.body
        BY <2>1, Zenon DEF AsRead
      <4>. QED
        BY <4>1, <4>2
    <3>. QED
      BY <2>2, <3>1 DEF Terminals
  <2>4. r \in Messages /\ r.type = "CONNACK" /\ r.id = 0
    BY ConnackSent
  <2>5. s \in Send(o, r, "open")
    BY <1>1, <1>3 DEF RecvConnect
  <2>. HIDE DEF after, r
  <2>6. o.t = after /\ o.err = "NO_ERROR" /\ o.out = <<>>
    BY DEF Done
  <2>7. t.packetIDMap[0] = NoMessage
    BY DEF Terminals, Maps
  <2>8. PICK x \in SendOutcomes(after, r, "open") :
          s = [t |-> x.t, err |-> x.err, out |-> IF x.wrote THEN Append(o.out, r) ELSE o.out]
    BY <2>5, <2>6 DEF Send, Fatal
  <2>9. x.t \in Terminals /\ Same(after, x.t) /\ x.wrote /\ x.err = AfterWriteError(r)
    BY <2>3, <2>4, <2>7, SendTerm
  <2>10. AfterWriteError(r) = "NO_ERROR"
    BY <2>4 DEF AfterWriteError, Acknowledged
  <2>11. Append(o.out, r) = <<r>>
    <3>1. Append(<<>>, r) = <<r>>
      OBVIOUS
    <3>. QED
      BY <2>6, <3>1, Zenon
  <2>. HIDE DEF o
  <2>12. s.t = x.t /\ s.err = "NO_ERROR" /\ s.out = <<r>> /\ "NO_ERROR" \in Errs
    BY <2>8, <2>9, <2>10, <2>11 DEF Errs
  <2>. QED
    BY <2>3, <2>9, <2>12 DEF Same, r
<1>. QED
  BY <1>2, <1>3

-----------------------------------------------------------------------------
(***************************************************************************)
(* The handlers and the calls of the client.                               *)
(***************************************************************************)
\* One message at most is written, under an identifier that was free.
Extends(base, map, out, types) ==
    \/ out = <<>> /\ map = base
    \/ \E x \in Sent(types) : /\ out = <<x>> /\ base[x.id] = NoMessage
                              /\ map = Kept(base, x)

LEMMA SendOnce ==
    ASSUME NEW types, NEW o \in Outcomes(types), o.out = <<>>, NEW m \in Sent(types),
           NEW link \in Links, NEW s \in Send(o, m, link)
    PROVE  /\ s \in Outcomes(types) /\ Same(o.t, s.t)
           /\ Extends(o.t.packetIDMap, s.t.packetIDMap, s.out, types)
           /\ ~o.t.isConnecting => s.out = <<>>
<1>1. s \in Outcomes(types) /\ Same(o.t, s.t) /\ Adds(o, s, m)
  BY SendStep
<1>2. Append(<<>>, m) = <<m>>
  OBVIOUS
<1>. QED
  BY <1>1, <1>2 DEF Adds, Extends

LEMMA DrawOnce ==
    ASSUME NEW types, NEW o \in Outcomes(types), o.out = <<>>, NEW m \in Sent(types),
           NEW link \in Links, NEW s \in DrawAndSend(o, m, link)
    PROVE  /\ s \in Outcomes(types) /\ Same(o.t, s.t)
           /\ Extends(o.t.packetIDMap, s.t.packetIDMap, s.out, types)
           /\ ~o.t.isConnecting => s.out = <<>>
<1>1. s \in Outcomes(types) /\ Same(o.t, s.t)
  BY DrawStep
<1>2. PICK id \in PacketIDs : Adds(o, s, [m EXCEPT !.id = id])
  BY DrawStep
<1>. DEFINE x == [m EXCEPT !.id = id]
<1>3. x \in Sent(types)
  BY Renamed DEF Sent
<1>4. Adds(o, s, x)
  BY <1>2
<1>. HIDE DEF x
<1>5. Append(<<>>, x) = <<x>>
  OBVIOUS
<1>. QED
  BY <1>1, <1>3, <1>4, <1>5 DEF Adds, Extends

\* All but a PUBREL, which only a PUBREC brings about.
Unprompted == ClientTypes \ {"PUBREL"}
Writable(m) == IF m.type = "PUBREC" THEN ClientTypes ELSE Unprompted

\* What the handling of m does to the map: the entry of what m acknowledges
\* goes, and what is written may come.
Acks == Exchanged \cup {"SUBACK", "UNSUBACK"}
Handled(m, map, s) ==
    \E base : /\ \/ base = map
                 \/ m.type \in Acks /\ base = [map EXCEPT ![m.id] = NoMessage]
              /\ Extends(base, s.t.packetIDMap, s.out, Writable(m))

LEMMA Widen ==
    ASSUME NEW types, NEW wider, types \subseteq wider, NEW o \in Outcomes(types)
    PROVE  o \in Outcomes(wider)
<1>1. Sent(types) \subseteq Sent(wider)
  BY DEF Sent
<1>2. o.out \in Seq(Sent(wider))
  BY <1>1, SeqDef DEF Outcomes
<1>. QED
  BY <1>2 DEF Outcomes

\* What has written nothing yet may be all, or x is sent then.
Unwritten(m, t, o) ==
    /\ o \in Outcomes(Writable(m)) /\ o.out = <<>> /\ o.t.will = t.will
    /\ \/ o.t.packetIDMap = t.packetIDMap
       \/ m.type \in Acks /\ o.t.packetIDMap = [t.packetIDMap EXCEPT ![m.id] = NoMessage]

LEMMA HandledSend ==
    ASSUME NEW t \in Terminals, NEW m \in Messages, NEW link \in Links,
           NEW o, Unwritten(m, t, o), NEW s,
           s = o \/ \E x \in Sent(Writable(m)) : s \in Send(o, x, link)
    PROVE  s \in Outcomes(ClientTypes) /\ s.t.will = t.will /\ Handled(m, t.packetIDMap, s)
<1>0. /\ o \in Outcomes(Writable(m)) /\ o.out = <<>> /\ o.t.will = t.will
      /\ \/ o.t.packetIDMap = t.packetIDMap
         \/ m.type \in Acks /\ o.t.packetIDMap = [t.packetIDMap EXCEPT ![m.id] = NoMessage]
  BY DEF Unwritten
<1>1. /\ s \in Outcomes(Writable(m)) /\ s.t.will = o.t.will
      /\ Extends(o.t.packetIDMap, s.t.packetIDMap, s.out, Writable(m))
  <2>1. ASSUME NEW x \in Sent(Writable(m)), s \in Send(o, x, link)
        PROVE  /\ s \in Outcomes(Writable(m)) /\ Same(o.t, s.t)
               /\ Extends(o.t.packetIDMap, s.t.packetIDMap, s.out, Writable(m))
    BY <1>0, <2>1, SendOnce
  <2>2. CASE s = o
    BY <1>0, <2>2 DEF Extends
  <2>. QED
    BY <2>1, <2>2 DEF Same
<1>2. Writable(m) \subseteq ClientTypes
  BY DEF Writable, Unprompted
<1>3. s \in Outcomes(ClientTypes)
  BY <1>1, <1>2, Widen
<1>. QED
  BY <1>0, <1>1, <1>3 DEF Handled

LEMMA ClientStep ==
    ASSUME NEW t \in Terminals, NEW m \in Messages, m.type \in BrokerTypes \cup {"CONNACK"},
           NEW g, Came(m, g), NEW link \in Links, NEW s \in ClientHandles(t, g, link)
    PROVE  /\ s \in Outcomes(ClientTypes) /\ s.t.will = t.will
           /\ Handled(m, t.packetIDMap, s)
           /\ m.type = "CONNACK" => s.out = <<>>
<1>. DEFINE none == Done(t, "NO_ERROR")
            acked == Done(Acked(t, g.id), AckError(t, g.id))
            W == Writable(m)
<1>1. g.type = m.type /\ g.id \in PacketIDs /\ (m.type \in Acks => g.id = m.id)
  BY DEF Came, Acks, Exchanged, Identified
<1>. HIDE DEF W
<1>2. none \in Outcomes(W) /\ none.t = t /\ none.out = <<>>
  <2>1. "NO_ERROR" \in Errs
    BY DEF Errs
  <2>. QED
    BY <2>1, DoneType
<1>3. /\ Unwritten(m, t, none)
      /\ m.type \in Acks => Unwritten(m, t, acked)
  <2>1. /\ Acked(t, g.id) \in Terminals /\ Same(t, Acked(t, g.id))
        /\ Acked(t, g.id).packetIDMap = [t.packetIDMap EXCEPT ![g.id] = NoMessage]
        /\ AckError(t, g.id) \in Errs
    BY <1>1, AckedTerm
  <2>2. acked \in Outcomes(W) /\ acked.out = <<>> /\ acked.t = Acked(t, g.id)
    BY <2>1, DoneType
  <2>. HIDE DEF none, acked
  <2>. QED
    BY <1>1, <1>2, <2>1, <2>2 DEF Unwritten, Same, W
<1>4. /\ Ack("PUBACK", g.id) \in Sent(W) /\ Ack("PUBREC", g.id) \in Sent(W)
      /\ Ack("PUBCOMP", g.id) \in Sent(W) /\ Bare("DISCONNECT") \in Sent(W)
      /\ m.type = "PUBREC" => Ack("PUBREL", g.id) \in Sent(W)
  <2>1. \A type \in {"PUBACK", "PUBREC", "PUBREL", "PUBCOMP"} :
          Ack(type, g.id) \in Messages /\ Ack(type, g.id).type = type
    BY <1>1, AckSent DEF AckTypes
  <2>2. Bare("DISCONNECT") \in Messages /\ Bare("DISCONNECT").type = "DISCONNECT"
    BY BareSent DEF BareTypes
  <2>. QED
    BY <2>1, <2>2 DEF Sent, Writable, Unprompted, ClientTypes, W
<1>. HIDE DEF none, acked
<1>5. CASE m.type = "CONNACK"
  <2>. DEFINE after == [t EXCEPT !.isConnecting = TRUE]
  <2>1. s = Done(after, "NO_ERROR")
    BY <1>1, <1>5 DEF ClientHandles, Exchanged
  <2>2. after \in Terminals /\ after.will = t.will /\ after.packetIDMap = t.packetIDMap
    BY DEF Terminals
  <2>. HIDE DEF after
  <2>3. s \in Outcomes(ClientTypes) /\ s.t = after /\ s.out = <<>>
    BY <2>1, <2>2, DoneType DEF Errs
  <2>. QED
    BY <2>2, <2>3 DEF Handled, Extends
<1>6. CASE m.type = "PUBLISH"
  <2>1. s \in Acknowledge({none}, g, link)
    BY <1>1, <1>6 DEF ClientHandles, Exchanged, none
  <2>2. \/ s = none
        \/ s = [none EXCEPT !.err = "PACKET_ID_SHOULD_BE_ZERO"]
        \/ s \in Send(none, Ack("PUBACK", g.id), link)
        \/ s \in Send(none, Ack("PUBREC", g.id), link)
    BY <2>1, AcknowledgeCases
  <2>3. CASE s = [none EXCEPT !.err = "PACKET_ID_SHOULD_BE_ZERO"]
    <3>1. s \in Outcomes(W) /\ s.t = none.t /\ s.out = none.out
      BY <1>2, <2>3, ErrChanged
    <3>2. Unwritten(m, t, s)
      BY <1>3, <3>1 DEF Unwritten, W
    <3>. QED
      BY <1>6, <3>2, HandledSend
  <2>4. CASE s = none
    BY <1>3, <1>6, <2>4, HandledSend
  <2>5. CASE s \in Send(none, Ack("PUBACK", g.id), link)
    BY <1>3, <1>4, <1>6, <2>5, HandledSend DEF W
  <2>6. CASE s \in Send(none, Ack("PUBREC", g.id), link)
    BY <1>3, <1>4, <1>6, <2>6, HandledSend DEF W
  <2>. QED
    BY <2>2, <2>3, <2>4, <2>5, <2>6
<1>7. CASE m.type \in Exchanged
  <2>1. s \in Exchange(t, g, link)
    BY <1>1, <1>7 DEF ClientHandles, Exchanged
  <2>2. /\ g.type = "PUBACK" => s = acked \/ s = none
        /\ g.type = "PUBREC" => s \in Send(acked, Ack("PUBREL", g.id), link)
        /\ g.type = "PUBREL" => s \in Send(acked, Ack("PUBCOMP", g.id), link)
        /\ g.type = "PUBCOMP" => s = acked
    BY <1>1, <1>7, <2>1, ExchangeCases DEF acked, none
  <2>3. m.type # "CONNACK" /\ Unwritten(m, t, acked)
    BY <1>3, <1>7 DEF Acks, Exchanged
  <2>4. CASE s = none
    BY <1>3, <2>3, <2>4, HandledSend
  <2>5. CASE s = acked
    BY <2>3, <2>5, HandledSend
  <2>6. CASE m.type = "PUBREC"
    <3>1. Ack("PUBREL", g.id) \in Sent(Writable(m)) /\ s \in Send(acked, Ack("PUBREL", g.id), link)
      BY <1>1, <1>4, <2>2, <2>6 DEF W
    <3>. QED
      BY <2>3, <3>1, HandledSend
  <2>7. CASE m.type = "PUBREL"
    <3>1. Ack("PUBCOMP", g.id) \in Sent(Writable(m)) /\ s \in Send(acked, Ack("PUBCOMP", g.id), link)
      BY <1>1, <1>4, <2>2, <2>7 DEF W
    <3>. QED
      BY <2>3, <3>1, HandledSend
  <2>. QED
    BY <1>1, <1>7, <2>2, <2>4, <2>5, <2>6, <2>7 DEF Exchanged
<1>8. CASE m.type \in {"SUBACK", "UNSUBACK"}
  <2>1. s = acked
    BY <1>1, <1>8 DEF ClientHandles, Exchanged, acked
  <2>2. Unwritten(m, t, acked) /\ m.type # "CONNACK"
    BY <1>3, <1>8 DEF Acks
  <2>. QED
    BY <2>1, <2>2, HandledSend
<1>9. CASE m.type = "PINGRESP"
  <2>1. PICK o \in Send(none, Bare("DISCONNECT"), link) :
          s = IF o.err \in Fatal THEN o ELSE [o EXCEPT !.err = "SERVER_TIMED_OUT"]
    BY <1>1, <1>9 DEF ClientHandles, Exchanged, none
  <2>2. o \in Outcomes(ClientTypes) /\ o.t.will = t.will /\ Handled(m, t.packetIDMap, o)
    BY <1>3, <1>4, HandledSend DEF W
  <2>3. s \in Outcomes(ClientTypes) /\ s.t = o.t /\ s.out = o.out
    BY <2>1, <2>2 DEF Outcomes, Errs
  <2>. QED
    BY <1>9, <2>2, <2>3 DEF Handled
<1>. QED
  BY <1>5, <1>6, <1>7, <1>8, <1>9 DEF BrokerTypes, Exchanged

\* A call writes one message at most, and none before the session is open.
Called(t, o) ==
    /\ o \in Outcomes(Unprompted) /\ Same(t, o.t)
    /\ Extends(t.packetIDMap, o.t.packetIDMap, o.out, Unprompted)
    /\ ~t.isConnecting => o.out = <<>>

LEMMA CalledSend ==
    ASSUME NEW t \in Terminals, NEW m \in Messages, m.type \in Unprompted, NEW link \in Links,
           NEW o \in Send(Done(t, "NO_ERROR"), m, link)
                       \cup DrawAndSend(Done(t, "NO_ERROR"), m, link)
    PROVE  Called(t, o)
<1>. DEFINE none == Done(t, "NO_ERROR")
<1>1. none \in Outcomes(Unprompted) /\ none.t = t /\ none.out = <<>>
  <2>1. "NO_ERROR" \in Errs
    BY DEF Errs
  <2>. QED
    BY <2>1, DoneType
<1>2. m \in Sent(Unprompted)
  BY DEF Sent
<1>. HIDE DEF none
<1>3. /\ o \in Outcomes(Unprompted) /\ Same(none.t, o.t)
      /\ Extends(none.t.packetIDMap, o.t.packetIDMap, o.out, Unprompted)
      /\ ~none.t.isConnecting => o.out = <<>>
  <2>1. CASE o \in Send(none, m, link)
    BY <1>1, <1>2, <2>1, SendOnce
  <2>2. CASE o \in DrawAndSend(none, m, link)
    BY <1>1, <1>2, <2>2, DrawOnce
  <2>. QED
    BY <2>1, <2>2 DEF none
<1>. QED
  BY <1>1, <1>3 DEF Called

Calling == \/ \E topics \in SubscribeLists : Subscribe(topics)
           \/ \E topics \in UnsubscribeLists : Unsubscribe(topics)
           \/ \E p \in Publishes : Publish(p)
           \/ Ping

LEMMA CallStep ==
    ASSUME term["client"] \in Terminals, Calling
    PROVE  \E o : /\ Called(term["client"], o)
                  /\ loop["client"] \notin Fatal /\ calls < MaxCalls /\ calls' = calls + 1
                  /\ term' = [term EXCEPT !["client"] = o.t]
                  /\ loop' = IF o.err \in Fatal THEN [loop EXCEPT !["client"] = o.err] ELSE loop
                  /\ stream' = [stream EXCEPT !["broker"] = @ \o o.out]
                  /\ Writes("client", o.out)
                  /\ UNCHANGED <<sock, buff, merged>>
<1>. DEFINE t == term["client"]
            link == LinkOf("client")
            Outs(m) == Send(Caller, m, link) \cup DrawAndSend(Caller, m, link)
<1>1. link \in Links
  BY DEF LinkOf, Links
<1>. HIDE DEF link
<1>2. ASSUME NEW m \in Messages, m.type \in Unprompted, NEW o \in Outs(m) PROVE Called(t, o)
  BY <1>1, <1>2, CalledSend DEF Caller
<1>3. {"SUBSCRIBE", "UNSUBSCRIBE", "PUBLISH", "PINGREQ"} \subseteq Unprompted
  BY DEF Unprompted, ClientTypes
<1>. HIDE DEF Outs
<1>4. \E outcomes : Call(outcomes) /\ \A o \in outcomes : Called(t, o)
  <2>1. ASSUME NEW topics \in SubscribeLists, Subscribe(topics)
        PROVE  \E outcomes : Call(outcomes) /\ \A o \in outcomes : Called(t, o)
    <3>. DEFINE m == SubscribeMessage(0, topics)
    <3>1. m \in Messages /\ m.type = "SUBSCRIBE"
      BY SubscribeSent
    <3>2. Call(DrawAndSend(Caller, m, link))
      BY <2>1 DEF Subscribe, link
    <3>. HIDE DEF m
    <3>3. \A o \in DrawAndSend(Caller, m, link) : Called(t, o)
      BY <1>2, <1>3, <3>1 DEF Outs
    <3>. QED
      BY <3>2, <3>3
  <2>2. ASSUME NEW topics \in UnsubscribeLists, Unsubscribe(topics)
        PROVE  \E outcomes : Call(outcomes) /\ \A o \in outcomes : Called(t, o)
    <3>. DEFINE m == UnsubscribeMessage(0, topics)
    <3>1. m \in Messages /\ m.type = "UNSUBSCRIBE"
      BY UnsubscribeSent
    <3>2. Call(DrawAndSend(Caller, m, link))
      BY <2>2 DEF Unsubscribe, link
    <3>. HIDE DEF m
    <3>3. \A o \in DrawAndSend(Caller, m, link) : Called(t, o)
      BY <1>2, <1>3, <3>1 DEF Outs
    <3>. QED
      BY <3>2, <3>3
  <2>3. ASSUME NEW p \in Publishes, Publish(p)
        PROVE  \E outcomes : Call(outcomes) /\ \A o \in outcomes : Called(t, o)
    <3>. DEFINE m == PublishMessage(p.qos, FALSE, 0, p.topic, p.payload)
    <3>1. m \in Messages /\ m.type = "PUBLISH"
      <4>1. p.qos \in 0 .. 2 /\ FALSE \in BOOLEAN /\ p.topic \in Bytes /\ p.payload \in Bytes
        BY LinkAssumption DEF Short
      <4>2. PublishMessage(p.qos, FALSE, 0, p.topic, p.payload).length <= MaxLength
        BY LengthAssumption
      <4>. QED
        BY <4>1, <4>2, PublishSent
    <3>2. \/ Call(DrawAndSend(Caller, m, link))
          \/ Call(Send(Caller, m, link))
      BY <2>3 DEF Publish, link
    <3>. HIDE DEF m
    <3>3. /\ \A o \in DrawAndSend(Caller, m, link) : Called(t, o)
          /\ \A o \in Send(Caller, m, link) : Called(t, o)
      BY <1>2, <1>3, <3>1 DEF Outs
    <3>. QED
      BY <3>2, <3>3
  <2>4. ASSUME Ping
        PROVE  \E outcomes : Call(outcomes) /\ \A o \in outcomes : Called(t, o)
    <3>. DEFINE m == Bare("PINGREQ")
    <3>1. m \in Messages /\ m.type = "PINGREQ"
      BY BareSent DEF BareTypes
    <3>2. Call(Send(Caller, m, link))
      BY <2>4 DEF Ping, link
    <3>. HIDE DEF m
    <3>3. \A o \in Send(Caller, m, link) : Called(t, o)
      BY <1>2, <1>3, <3>1 DEF Outs
    <3>. QED
      BY <3>2, <3>3
  <2>. QED
    BY <2>1, <2>2, <2>3, <2>4 DEF Calling
<1>5. PICK outcomes : Call(outcomes) /\ \A o \in outcomes : Called(t, o)
  BY <1>4
<1>. QED
  BY <1>5 DEF Call

-----------------------------------------------------------------------------
(***************************************************************************)
(* What a read returns.                                                    *)
(***************************************************************************)
LEMMA Suffix ==
    ASSUME NEW S, NEW s \in Seq(S), NEW k \in 1 .. Len(s)
    PROVE  LET rest == SubSeq(s, k + 1, Len(s))
           IN  /\ rest \in Seq(S) /\ Len(rest) = Len(s) - k
               /\ \A i \in 1 .. Len(rest) : i + k \in 1 .. Len(s) /\ rest[i] = s[i + k]
<1>. DEFINE rest == SubSeq(s, k + 1, Len(s))
<1>1. Len(s) \in Nat /\ k \in Nat /\ k >= 1 /\ k <= Len(s)
  OBVIOUS
<1>2. \A i \in k + 1 .. Len(s) : s[i] \in S
  BY <1>1, ElementOfSeq
<1>3. /\ rest \in Seq(S)
      /\ Len(rest) = IF k + 1 <= Len(s) THEN Len(s) - (k + 1) + 1 ELSE 0
      /\ \A i \in 1 .. Len(s) - (k + 1) + 1 : rest[i] = s[k + 1 + i - 1]
  BY <1>1, <1>2, SubSeqProperties
<1>. HIDE DEF rest
<1>4. Len(rest) = Len(s) - k
  BY <1>1, <1>3
<1>5. ASSUME NEW i \in 1 .. Len(rest) PROVE i + k \in 1 .. Len(s) /\ rest[i] = s[i + k]
  <2>1. i + k \in 1 .. Len(s) /\ i \in 1 .. Len(s) - (k + 1) + 1 /\ k + 1 + i - 1 = i + k
    BY <1>1, <1>4
  <2>. QED
    BY <1>3, <2>1
<1>. QED
  BY <1>3, <1>4, <1>5 DEF rest

LEMMA OverlayParts ==
    ASSUME NEW bytes \in Bytes, NEW old \in Bytes
    PROVE  /\ Overlay(bytes, old) \in Bytes /\ Holds(Overlay(bytes, old), 1, bytes)
           /\ \A i \in Nat : i > Len(bytes) => ByteAt(Overlay(bytes, old), i) = ByteAt(old, i)
<1>. DEFINE rest == SubSeq(old, Len(bytes) + 1, Len(old))
            b == bytes \o rest
<1>1. PICK l \in Nat, n \in Nat : l = Len(bytes) /\ n = Len(old)
  BY BufferBytes
<1>2. /\ \A i \in 1 .. n : old[i] \in Byte
      /\ DOMAIN old = 1 .. n
  BY <1>1, BufferBytes
<1>3. /\ rest \in Bytes
      /\ Len(rest) = IF l + 1 <= n THEN n - (l + 1) + 1 ELSE 0
      /\ \A i \in 1 .. n - (l + 1) + 1 : rest[i] = old[l + 1 + i - 1]
  <2>1. /\ l + 1 \in Int /\ n \in Int /\ \A i \in l + 1 .. n : old[i] \in Byte
        /\ rest = SubSeq(old, l + 1, n)
    BY <1>1, <1>2
  <2>. HIDE DEF rest
  <2>. QED
    BY <2>1, SubSeqProperties DEF Bytes
<1>. HIDE DEF rest
<1>4. /\ b \in Bytes /\ Len(b) = l + Len(rest)
      /\ \A k \in 1 .. l + Len(rest) : b[k] = IF k <= l THEN bytes[k] ELSE rest[k - l]
  BY <1>1, <1>3, ConcatProperties DEF Bytes
<1>5. Overlay(bytes, old) = b
  BY DEF Overlay, rest
<1>. HIDE DEF b
<1>6. DOMAIN b = 1 .. Len(b) /\ Len(rest) \in Nat
  BY <1>3, <1>4, BufferBytes
<1>7. Holds(b, 1, bytes)
  <2>1. ASSUME NEW k \in 1 .. Len(bytes)
        PROVE  1 + k - 1 \in DOMAIN b /\ b[1 + k - 1] = bytes[k]
    <3>1. k \in 1 .. l + Len(rest) /\ k <= l /\ 1 + k - 1 = k
      BY <1>1, <1>6
    <3>. QED
      BY <1>4, <1>6, <3>1
  <2>. QED
    BY <2>1 DEF Holds
<1>8. ASSUME NEW i \in Nat, i > l PROVE ByteAt(b, i) = ByteAt(old, i)
  <2>1. CASE i <= n
    <3>1. /\ Len(rest) = n - l /\ i \in 1 .. l + Len(rest) /\ ~(i <= l)
          /\ i - l \in 1 .. n - (l + 1) + 1 /\ l + 1 + (i - l) - 1 = i /\ i \in 1 .. n
      BY <1>3, <1>8, <2>1
    <3>2. b[i] = rest[i - l] /\ rest[i - l] = old[l + 1 + (i - l) - 1]
      BY <1>3, <1>4, <3>1
    <3>. QED
      BY <1>2, <1>4, <1>6, <3>1, <3>2 DEF ByteAt
  <2>2. CASE i > n
    <3>1. ~(i \in 1 .. n) /\ ~(i \in 1 .. l + Len(rest))
      BY <1>3, <1>8, <2>2
    <3>. QED
      BY <1>2, <1>4, <1>6, <3>1 DEF ByteAt
  <2>. QED
    BY <2>1, <2>2
<1>. QED
  BY <1>1, <1>4, <1>5, <1>7, <1>8

\* Whatever else a read returns, the buffer begins with the first message, and
\* the rest of it is as it was when nothing else has come.
LEMMA ReadHolds ==
    ASSUME NEW e \in Ends, stream[e] \in Seq(Messages), buff[e] \in Bytes,
           NEW k \in 1 .. Len(stream[e])
    PROVE  LET m == stream[e][1]
           IN  /\ m \in Messages /\ Wire(m) \in Bytes
               /\ Read(e, k) \in Bytes /\ Holds(Read(e, k), 1, Wire(m))
               /\ k = 1 => \A i \in Nat : i > Len(Wire(m)) =>
                             ByteAt(Read(e, k), i) = ByteAt(buff[e], i)
<1>. DEFINE s == stream[e]
            ws == [i \in 1 .. k |-> Wire(s[i])]
            all == FlattenSeq(ws)
<1>1. /\ Len(s) \in Nat /\ k \in Nat /\ 1 \in 1 .. k
      /\ \A i \in 1 .. k : s[i] \in Messages
  BY ElementOfSeq
<1>2. \A i \in 1 .. k : Wire(s[i]) \in Bytes
  BY <1>1, MessageFields, WireType
<1>3. ws \in Seq(Bytes) /\ Len(ws) = k /\ ws[1] = Wire(s[1])
  <2>1. ws \in [1 .. k -> Bytes]
    BY <1>2
  <2>. QED
    BY <1>1, <2>1
<1>4. Read(e, k) = Overlay(all, buff[e])
  BY DEF Read
<1>. HIDE DEF ws
<1>5. all \in Bytes
  BY <1>3, FlattenType DEF Bytes
<1>6. k = 1 => all = ws[1]
  <2>1. /\ Len(ws) # 0 => FlattenSeq(ws) = Flattening(ws)[Len(ws)]
        /\ Len(ws) # 0 => Flattening(ws)[1] = ws[1]
    BY <1>3, FlattenDef, Zenon
  <2>. QED
    BY <1>3, <2>1
<1>7. /\ Read(e, k) \in Bytes /\ Holds(Read(e, k), 1, all)
      /\ \A i \in Nat : i > Len(all) => ByteAt(Read(e, k), i) = ByteAt(buff[e], i)
  <2>. HIDE DEF all
  <2>. QED
    BY <1>4, <1>5, OverlayParts
<1>8. Holds(Read(e, k), 1, Wire(s[1]))
  <2>1. Holds(Read(e, k), Place(ws, 1, 1), ws[1])
    BY <1>1, <1>3, <1>7, PlacesHold
  <2>2. Place(ws, 1, 1) = 1
    BY <1>3, Places
  <2>. QED
    BY <1>3, <2>1, <2>2
<1>. HIDE DEF all
<1>. QED
  BY <1>1, <1>2, <1>3, <1>6, <1>7, <1>8

LEMMA HeadTypes ==
    ASSUME Typed, Handshake, NEW e \in Ends, stream[e] # <<>>
    PROVE  LET m == stream[e][1]
           IN  /\ m.type = "CONNECT" => Connecting /\ e = "broker"
               /\ m.type = "CONNACK" => /\ Accepted /\ e = "client" /\ Len(stream[e]) = 1
                                        /\ m = ConnackMessage(FALSE, 0) /\ buff[e] = <<>>
               /\ m.type \notin {"CONNECT", "CONNACK"} =>
                    /\ Open
                    /\ m \in Sent(IF e = "client" THEN BrokerTypes ELSE ClientTypes)
<1>. DEFINE m == stream[e][1]
<1>1. /\ e \in {"client", "broker"} /\ stream[e] \in Seq(Messages)
      /\ ConnackMessage(FALSE, 0).type = "CONNACK"
  BY ConnackSent DEF Typed, Ends
<1>2. Len(stream[e]) >= 1 /\ Len(stream[e]) \in Nat
  BY <1>1
<1>3. CASE Unconnected
  BY <1>1, <1>3 DEF Unconnected, Silent
<1>4. CASE Connecting
  BY <1>1, <1>4 DEF Connecting, Silent
<1>5. CASE Accepted
  <2>1. e = "client" /\ stream[e] = <<ConnackMessage(FALSE, 0)>> /\ buff[e] = <<>>
    BY <1>1, <1>5 DEF Accepted
  <2>2. m = ConnackMessage(FALSE, 0) /\ Len(stream[e]) = 1
    BY <2>1
  <2>. QED
    BY <1>1, <1>5, <2>1, <2>2
<1>6. CASE Open
  <2>1. stream[e] \in Seq(Sent(IF e = "client" THEN BrokerTypes ELSE ClientTypes))
    BY <1>1, <1>6 DEF Open
  <2>2. m \in Sent(IF e = "client" THEN BrokerTypes ELSE ClientTypes)
    BY <1>2, <2>1, ElementOfSeq
  <2>3. m.type \notin {"CONNECT", "CONNACK"}
    BY <2>2 DEF Sent, BrokerTypes, ClientTypes
  <2>. QED
    BY <1>6, <2>2, <2>3
<1>. QED
  BY <1>3, <1>4, <1>5, <1>6 DEF Handshake

\* What readLoop makes of what it reads.
LEMMA ReadMeets ==
    ASSUME Typed, Legible, Handshake, NEW e \in Ends, NEW k \in 1 .. Len(stream[e])
    PROVE  LET m == stream[e][1]
               b == Read(e, k)
           IN  /\ m \in Messages /\ b \in Bytes
               /\ Parse(b).err = "NO_ERROR" =>
                    Faithful(m, Parse(b).msg) /\ \A g \in Given(Parse(b).msg) : Came(m, g)
               /\ Parse(b).err # "NO_ERROR" =>
                    /\ Parse(b).err = "MALFORMED_REMAIN_LENGTH"
                    /\ m.length = 0 /\ m.type \in BareTypes /\ (merged \/ k > 1)
               /\ ~merged /\ k = 1 => LengthEnds(b) # {}
<1>. DEFINE m == stream[e][1]
            b == Read(e, k)
<1>1. /\ stream[e] \in Seq(Messages) /\ buff[e] \in Bytes /\ merged \in BOOLEAN
      /\ Len(stream[e]) \in Nat /\ stream[e] # <<>> /\ k \in Nat /\ k >= 1
  BY DEF Typed
<1>2. /\ m \in Messages /\ Wire(m) \in Bytes /\ b \in Bytes /\ Holds(b, 1, Wire(m))
      /\ k = 1 => \A i \in Nat : i > Len(Wire(m)) => ByteAt(b, i) = ByteAt(buff[e], i)
  BY <1>1, ReadHolds
<1>3. /\ IsMessage(m) /\ IsHeader(m) /\ m.length \in 0 .. MaxLength
      /\ m.length = 0 <=> m.type \in BareTypes
  BY <1>2, MessageFields DEF IsMessage
<1>4. m.type = "CONNACK" => m.body.returnCode = 0 /\ ByteAt(b, Len(Wire(m)) + 1) = 0
  <2>. SUFFICES ASSUME m.type = "CONNACK"
                PROVE  m.body.returnCode = 0 /\ ByteAt(b, Len(Wire(m)) + 1) = 0
    OBVIOUS
  <2>1. Len(stream[e]) = 1 /\ m = ConnackMessage(FALSE, 0) /\ buff[e] = <<>>
    BY <1>1, HeadTypes
  <2>2. m.body.returnCode = 0
    <3>1. ConnackMessage(FALSE, 0).body = [sessionPresent |-> FALSE, returnCode |-> 0]
      BY ConnackSent
    <3>2. [sessionPresent |-> FALSE, returnCode |-> 0].returnCode = 0
      OBVIOUS
    <3>. QED
      BY <2>1, <3>1, <3>2
  <2>. HIDE DEF m, b
  <2>3. PICK l \in Nat : l = Len(Wire(m))
    BY <1>2, BufferBytes
  <2>4. k = 1 /\ l + 1 \in Nat /\ l + 1 > l
    BY <2>1
  <2>5. ByteAt(b, l + 1) = ByteAt(<<>>, l + 1)
    BY <1>2, <2>1, <2>3, <2>4
  <2>6. ByteAt(<<>>, l + 1) = 0
    BY DEF ByteAt
  <2>. QED
    BY <2>2, <2>3, <2>5, <2>6
<1>. HIDE DEF b
<1>5. /\ Parse(b).err = "NO_ERROR" => Faithful(m, Parse(b).msg) /\ Arrives(m, Parse(b).msg)
      /\ Parse(b).err # "NO_ERROR" => LengthEnds(b) = {} /\ m.type \in BareTypes
  BY <1>2, <1>3, <1>4, MessageReadBack
<1>6. ASSUME Parse(b).err = "NO_ERROR", NEW g \in Given(Parse(b).msg) PROVE Came(m, g)
  BY <1>2, <1>5, <1>6, ParsedRecord, GivenCame
<1>7. /\ HeaderWire(m) \in Bytes /\ BodyWire(m) \in Bytes /\ Holds(b, 1, HeaderWire(m))
      /\ Len(Wire(m)) = Len(HeaderWire(m)) + Len(BodyWire(m))
  <2>1. /\ HeaderWire(m) \in Bytes /\ BodyWire(m) \in Bytes
        /\ Len(Wire(m)) = Len(HeaderWire(m)) + Len(BodyWire(m))
    BY <1>3, WireType
  <2>2. Holds(b, 1, HeaderWire(m) \o BodyWire(m))
    BY <1>2, Zenon DEF Wire
  <2>. QED
    BY <2>1, <2>2, HoldsParts
<1>8. /\ Parse(b).err = IF LengthEnds(b) = {} THEN "MALFORMED_REMAIN_LENGTH" ELSE "NO_ERROR"
      /\ m.length = 0 => Len(HeaderWire(m)) = 1
      /\ m.length # 0 => LengthEnds(b) # {}
  BY <1>3, <1>7, HeaderReadBack
<1>9. ASSUME ~merged, k = 1 PROVE LengthEnds(b) # {}
  <2>1. CASE m.length # 0
    BY <1>8, <2>1
  <2>2. CASE m.length = 0
    <3>1. Len(Wire(m)) = 1
      <4>1. BodyWire(m) = <<>>
        BY <1>3, <2>2 DEF BodyWire, BareWire, BareTypes
      <4>. QED
        BY <1>7, <1>8, <2>2, <4>1
    <3>2. \A j \in 1 .. 4 : ByteAt(b, 1 + j) = ByteAt(buff[e], 1 + j)
      <4>1. \A j \in 1 .. 4 : 1 + j \in Nat /\ 1 + j > 1
        OBVIOUS
      <4>. QED
        BY <1>2, <1>9, <3>1, <4>1
    <3>3. LengthEnds(buff[e]) # {}
      BY <1>9 DEF Legible
    <3>. QED
      BY <3>2, <3>3 DEF LengthEnds
  <2>. QED
    BY <2>1, <2>2
<1>. HIDE DEF m
<1>10. ASSUME Parse(b).err # "NO_ERROR"
       PROVE  /\ Parse(b).err = "MALFORMED_REMAIN_LENGTH"
              /\ m.length = 0 /\ m.type \in BareTypes /\ (merged \/ k > 1)
  <2>1. LengthEnds(b) = {} /\ m.type \in BareTypes /\ m.length = 0
    BY <1>3, <1>5, <1>10
  <2>2. Parse(b).err = "MALFORMED_REMAIN_LENGTH"
    BY <1>8, <2>1
  <2>3. merged \/ k > 1
    BY <1>1, <1>9, <2>1
  <2>. QED
    BY <2>1, <2>2, <2>3
<1>. QED
  BY <1>2, <1>5, <1>6, <1>9, <1>10 DEF m, b

-----------------------------------------------------------------------------
(***************************************************************************)
(* A read: k messages are taken off the stream, and o is what comes of the *)
(* first.                                                                  *)
(***************************************************************************)
\* What closes the session's socket.
Closing(o) == o.err = "CRASH" \/ (o.err = "NO_ERROR" /\ ~o.t.isConnecting)

Took(e, k, o) ==
    /\ loop[e] = "read" /\ k \in 1 .. Len(stream[e])
    /\ merged' = (merged \/ k > 1) /\ calls' = calls
    /\ buff' = [buff EXCEPT ![e] = Read(e, k)]
    /\ term' = [term EXCEPT ![e] = o.t]
    /\ loop' = [loop EXCEPT ![e] = IF o.err # "NO_ERROR" THEN o.err
                                   ELSE IF o.t.isConnecting THEN "read" ELSE "idle"]
    /\ sock' = IF e = "broker" /\ Closing(o) THEN "closed" ELSE sock
    /\ stream' = [stream EXCEPT ![e] = SubSeq(stream[e], k + 1, Len(stream[e])),
                                ![Other(e)] = stream[Other(e)] \o o.out]
    /\ Writes(e, o.out)

OwnTypes(e) == IF e = "client" THEN ClientTypes ELSE BrokerTypes

Yields(e, m, o) ==
    /\ o.t \in Terminals /\ o.err \in Errs /\ o.out \in Seq(Messages)
    /\ m.type = "CONNECT" =>
         /\ Connecting /\ e = "broker"
         /\ \/ o.err = "CRASH" /\ o.out = <<>>
            \/ o.err = "NO_ERROR" /\ o.out = <<ConnackMessage(FALSE, 0)>> /\ o.t.isConnecting
    /\ m.type = "CONNACK" => Accepted /\ e = "client" /\ o.out = <<>>
    /\ m.type \notin {"CONNECT", "CONNACK"} => Open /\ o.out \in Seq(Sent(OwnTypes(e)))
    /\ e = "client" => o.t.will = Will /\ Handled(m, term["client"].packetIDMap, o)
    /\ e = "broker" => Replies(m, o.out)

LEMMA OwnMessages ==
    ASSUME NEW types, NEW out \in Seq(Sent(types))
    PROVE  out \in Seq(Messages)
BY SeqDef DEF Sent

\* What a handler returns.
LEMMA HandleYields ==
    ASSUME Typed, Handshake, NEW e \in Ends, stream[e] # <<>>, loop[e] = "read",
           NEW g, Came(stream[e][1], g), NEW o \in Handles(e, g)
    PROVE  /\ Yields(e, stream[e][1], o)
           /\ e = "broker" => (stream[e][1].type = "DISCONNECT" \/ o.err = "CRASH"
                                 <=> Closing(o))
<1>. DEFINE m == stream[e][1]
            t == term[e]
            link == LinkOf(e)
<1>1. /\ t \in Terminals /\ e \in {"client", "broker"} /\ g.type = m.type
      /\ term["client"].will = Will /\ (sock = "closed" <=> loop["broker"] \in {"idle", "CRASH"})
      /\ sock \in {"open", "closed"}
  BY DEF Typed, Ends, Came
<1>2. link \in Links /\ (e = "broker" => link = "open")
  BY <1>1 DEF LinkOf, Links
<1>3. /\ m.type = "CONNECT" => Connecting /\ e = "broker"
      /\ m.type = "CONNACK" => Accepted /\ e = "client"
      /\ m.type \notin {"CONNECT", "CONNACK"} =>
           Open /\ m \in Sent(IF e = "client" THEN BrokerTypes ELSE ClientTypes)
  BY HeadTypes
<1>4. m \in Messages
  BY <1>1, ElementOfSeq DEF Typed
<1>. HIDE DEF m, link
<1>5. Came(m, g)
  BY DEF m
<1>6. CASE e = "client"
  <2>1. o \in ClientHandles(t, g, link)
    BY <1>6, Zenon DEF Handles, link
  <2>2. m.type \in BrokerTypes \cup {"CONNACK"}
    BY <1>3, <1>6 DEF Sent
  <2>3. /\ o \in Outcomes(ClientTypes) /\ o.t.will = t.will
        /\ Handled(m, t.packetIDMap, o)
        /\ m.type = "CONNACK" => o.out = <<>>
    BY <1>1, <1>2, <1>4, <1>5, <2>1, <2>2, ClientStep
  <2>4. /\ o.t \in Terminals /\ o.err \in Errs /\ o.out \in Seq(Sent(ClientTypes))
        /\ o.out \in Seq(Messages)
    BY <2>3, OwnMessages DEF Outcomes
  <2>. QED
    BY <1>1, <1>3, <1>6, <2>3, <2>4 DEF Yields, OwnTypes, m
<1>7. CASE e = "broker"
  <2>1. o \in BrokerHandles(t, g, link) /\ link = "open"
    BY <1>2, <1>7, Zenon DEF Handles, link
  <2>2. CASE m.type = "CONNECT"
    <3>1. /\ o.t \in Terminals /\ o.err \in Errs
          /\ \/ o.err = "CRASH" /\ o.out = <<>>
             \/ /\ o.err = "NO_ERROR" /\ o.out = <<ConnackMessage(FALSE, 0)>>
                /\ o.t.isConnecting
      BY <1>1, <1>4, <1>5, <2>1, <2>2, BrokerConnect
    <3>2. ConnackMessage(FALSE, 0) \in Messages /\ ConnackMessage(FALSE, 0).type = "CONNACK"
      BY ConnackSent
    <3>3. o.out \in Seq(Messages) /\ Replies(m, o.out)
      <4>1. CASE o.out = <<>>
        BY <4>1, EmptySeq DEF Replies
      <4>2. CASE o.out = <<ConnackMessage(FALSE, 0)>>
        <5>1. /\ o.out \in Seq(Messages) /\ Len(o.out) = 1
              /\ \A i \in 1 .. Len(o.out) : o.out[i].type = "CONNACK"
          <6>1. PICK c \in Messages : c = ConnackMessage(FALSE, 0)
            BY <3>2
          <6>2. <<c>> \in Seq(Messages) /\ Len(<<c>>) = 1 /\ \A i \in 1 .. 1 : <<c>>[i] = c
            OBVIOUS
          <6>. QED
            BY <3>2, <4>2, <6>1, <6>2
        <5>. QED
          BY <5>1 DEF Replies, Reply, Answers
      <4>. QED
        BY <3>1, <4>1, <4>2
    <3>. QED
      BY <1>3, <1>7, <2>2, <3>1, <3>3 DEF Yields, Closing, m
  <2>3. CASE m.type # "CONNECT"
    <3>1. Open /\ m \in Sent(ClientTypes) /\ m.type # "CONNACK"
      BY <1>3, <1>7, <2>3
    <3>2. /\ o \in Outcomes(BrokerTypes) /\ Replies(m, o.out)
          /\ m.type = "DISCONNECT" => Closing(o)
          /\ m.type # "DISCONNECT" => o.t.isConnecting = t.isConnecting
      BY <1>1, <1>2, <1>5, <2>1, <3>1, BrokerStep DEF Closing
    <3>3. t.isConnecting
      BY <1>7, <3>1 DEF Open
    <3>4. /\ o.t \in Terminals /\ o.err \in Errs /\ o.out \in Seq(Sent(BrokerTypes))
          /\ o.out \in Seq(Messages)
      BY <3>2, OwnMessages DEF Outcomes
    <3>. QED
      BY <1>7, <2>3, <3>1, <3>2, <3>3, <3>4 DEF Yields, OwnTypes, Closing, m
  <2>. QED
    BY <2>2, <2>3
<1>. QED
  BY <1>1, <1>6, <1>7

LEMMA OthersOf == \A e \in Ends : Other(e) \in Ends /\ Other(e) # e
BY DEF Other, Ends

LEMMA ReadYields ==
    ASSUME Typed, Legible, Handshake, NEW e \in Ends, NEW k \in 1 .. MaxMerged, ReadLoop(e, k)
    PROVE  \E o : Took(e, k, o) /\ Yields(e, stream[e][1], o)
<1>. DEFINE m == stream[e][1]
            b == Read(e, k)
            p == Parse(b)
            rest == SubSeq(stream[e], k + 1, Len(stream[e]))
<1>1. /\ loop[e] = "read" /\ stream[e] # <<>> /\ k <= Len(stream[e])
      /\ merged' = (merged \/ k > 1) /\ calls' = calls
      /\ buff' = [buff EXCEPT ![e] = b]
      /\ IF p.err = "NO_ERROR" THEN Handle(e, p.msg, rest)
         ELSE /\ loop' = [loop EXCEPT ![e] = p.err]
              /\ stream' = [stream EXCEPT ![e] = rest]
              /\ UNCHANGED <<term, sock, wrote>>
  BY DEF ReadLoop, CanRead
<1>2. /\ stream \in [Ends -> Seq(Messages)] /\ term \in [Ends -> Terminals]
      /\ wrote \in [Ends -> SUBSET Range(MessageType)] /\ loop \in [Ends -> Errs \cup {"idle", "read"}]
      /\ term["client"].will = Will
  BY DEF Typed
<1>3. k \in 1 .. Len(stream[e])
  <2>1. MaxMerged \in Nat /\ Len(stream[e]) \in Nat
    BY <1>2, LinkAssumption
  <2>. QED
    BY <1>1, <2>1
<1>4. /\ m \in Messages /\ b \in Bytes
      /\ p.err = "NO_ERROR" => Faithful(m, p.msg) /\ \A g \in Given(p.msg) : Came(m, g)
      /\ p.err # "NO_ERROR" => p.err = "MALFORMED_REMAIN_LENGTH" /\ m.type \in BareTypes
  BY <1>3, ReadMeets
<1>. HIDE DEF m, p, b
<1>5. CASE p.err = "NO_ERROR"
  <2>g. PICK g \in Given(p.msg) : \E o \in Handles(e, g) :
          /\ term' = [term EXCEPT ![e] = o.t]
          /\ loop' = [loop EXCEPT ![e] = IF o.err # "NO_ERROR" THEN o.err
                                         ELSE IF o.t.isConnecting THEN "read" ELSE "idle"]
          /\ sock' = IF e = "broker" /\ (p.msg.type = "DISCONNECT" \/ o.err = "CRASH")
                     THEN "closed" ELSE sock
          /\ stream' = [stream EXCEPT ![e] = rest, ![Other(e)] = @ \o o.out]
          /\ Writes(e, o.out)
    BY <1>1, <1>5 DEF Handle
  <2>1. PICK o \in Handles(e, g) :
          /\ term' = [term EXCEPT ![e] = o.t]
          /\ loop' = [loop EXCEPT ![e] = IF o.err # "NO_ERROR" THEN o.err
                                         ELSE IF o.t.isConnecting THEN "read" ELSE "idle"]
          /\ sock' = IF e = "broker" /\ (p.msg.type = "DISCONNECT" \/ o.err = "CRASH")
                     THEN "closed" ELSE sock
          /\ stream' = [stream EXCEPT ![e] = rest, ![Other(e)] = stream[Other(e)] \o o.out]
          /\ Writes(e, o.out)
    BY <2>g, OthersOf
  <2>2. Came(m, g) /\ p.msg.type = m.type
    BY <1>4, <1>5 DEF Faithful
  <2>3. /\ Yields(e, m, o)
        /\ e = "broker" => (m.type = "DISCONNECT" \/ o.err = "CRASH" <=> Closing(o))
    BY <1>1, <2>2, HandleYields DEF m
  <2>5. sock' = IF e = "broker" /\ Closing(o) THEN "closed" ELSE sock
    BY <2>1, <2>2, <2>3
  <2>6. Took(e, k, o)
    BY <1>1, <1>3, <2>1, <2>5 DEF Took, b
  <2>. QED
    BY <2>3, <2>6 DEF m
<1>6. CASE p.err # "NO_ERROR"
  <2>. DEFINE o == [t |-> term[e], err |-> p.err, out |-> <<>>]
  <2>1. o.t = term[e] /\ o.err = p.err /\ o.out = <<>>
    OBVIOUS
  <2>. HIDE DEF o
  <2>2. m.type \in BareTypes /\ p.err \in Errs /\ p.err = "MALFORMED_REMAIN_LENGTH"
    BY <1>4, <1>6 DEF Errs
  <2>3. Open /\ m.type \notin {"CONNECT", "CONNACK"}
    BY <1>1, <2>2, HeadTypes DEF BareTypes, m
  <2>4. Took(e, k, o)
    <3>1. term' = [term EXCEPT ![e] = o.t]
      BY <1>1, <1>2, <1>6, <2>1
    <3>2. loop' = [loop EXCEPT ![e] = o.err]
      BY <1>1, <1>6, <2>1
    <3>3. stream' = [stream EXCEPT ![e] = rest, ![Other(e)] = stream[Other(e)] \o o.out]
      <4>1. stream[Other(e)] \in Seq(Messages) /\ Other(e) # e /\ Other(e) \in Ends
        BY <1>2, OthersOf
      <4>2. stream[Other(e)] \o <<>> = stream[Other(e)]
        BY <4>1, ConcatEmptySeq
      <4>3. stream' = [stream EXCEPT ![e] = rest]
        BY <1>1, <1>6
      <4>. HIDE DEF rest
      <4>. QED
        BY <1>2, <2>1, <4>1, <4>2, <4>3
    <3>4. sock' = sock /\ Writes(e, o.out)
      BY <1>1, <1>2, <1>6, <2>1 DEF Writes
    <3>. QED
      BY <1>1, <1>3, <1>6, <2>1, <2>2, <3>1, <3>2, <3>3, <3>4 DEF Took, Closing, b
  <2>5. Yields(e, m, o)
    <3>1. o.t \in Terminals /\ o.err \in Errs
      BY <1>2, <2>1, <2>2
    <3>2. o.out \in Seq(Messages) /\ o.out \in Seq(Sent(OwnTypes(e)))
      BY <2>1, EmptySeq
    <3>3. e = "client" => o.t.will = Will /\ Handled(m, term["client"].packetIDMap, o)
      BY <1>2, <2>1 DEF Handled, Extends
    <3>4. Replies(m, o.out)
      BY <2>1, EmptySeq DEF Replies
    <3>. QED
      BY <2>3, <3>1, <3>2, <3>3, <3>4 DEF Yields
  <2>. QED
    BY <2>4, <2>5 DEF m
<1>. QED
  BY <1>5, <1>6

LEMMA WritesParts ==
    ASSUME wrote \in [Ends -> SUBSET Range(MessageType)], NEW e \in Ends,
           NEW out \in Seq(Messages), Writes(e, out)
    PROVE  /\ wrote' \in [Ends -> SUBSET Range(MessageType)]
           /\ wrote'[e] = wrote[e] \cup {out[i].type : i \in 1 .. Len(out)}
           /\ wrote'[Other(e)] = wrote[Other(e)]
<1>. DEFINE types == {out[i].type : i \in 1 .. Len(out)}
<1>1. DOMAIN out = 1 .. Len(out)
  BY LenProperties
<1>2. wrote' = [wrote EXCEPT ![e] = wrote[e] \cup types]
  BY <1>1 DEF Writes
<1>3. types \in SUBSET Range(MessageType)
  <2>1. \A i \in 1 .. Len(out) : out[i] \in Messages
    BY ElementOfSeq
  <2>2. \A m \in Messages : m.type \in Range(MessageType)
    BY DEF Messages, Shapes
  <2>. QED
    BY <2>1, <2>2
<1>. HIDE DEF types
<1>4. Other(e) \in Ends /\ Other(e) # e
  BY OthersOf
<1>5. wrote' \in [Ends -> SUBSET Range(MessageType)]
  BY <1>2, <1>3
<1>6. wrote'[e] = wrote[e] \cup types /\ wrote'[Other(e)] = wrote[Other(e)]
  BY <1>2, <1>4
<1>. QED
  BY <1>5, <1>6 DEF types

\* r is what is left of s behind its first k, and q is s with out behind it.
Dropped(s, k, r) ==
    /\ r \in Seq(Messages) /\ Len(r) = Len(s) - k
    /\ \A i \in 1 .. Len(r) : i + k \in 1 .. Len(s) /\ r[i] = s[i + k]
Appended(s, out, q) ==
    /\ q \in Seq(Messages) /\ Len(q) = Len(s) + Len(out)
    /\ \A i \in 1 .. Len(q) : q[i] = IF i <= Len(s) THEN s[i] ELSE out[i - Len(s)]

LEMMA AppendedOut ==
    ASSUME NEW s \in Seq(Messages), NEW out \in Seq(Messages)
    PROVE  Appended(s, out, s \o out)
<1>1. /\ s \o out \in Seq(Messages) /\ Len(s \o out) = Len(s) + Len(out)
      /\ \A i \in 1 .. Len(s) + Len(out) :
           (s \o out)[i] = IF i <= Len(s) THEN s[i] ELSE out[i - Len(s)]
  BY ConcatProperties
<1>. QED
  BY <1>1 DEF Appended

LEMMA TookStreams ==
    ASSUME stream \in [Ends -> Seq(Messages)], NEW e \in Ends, NEW k \in Nat, NEW o,
           Took(e, k, o), o.out \in Seq(Messages)
    PROVE  /\ stream' \in [Ends -> Seq(Messages)]
           /\ stream'[e] = SubSeq(stream[e], k + 1, Len(stream[e]))
           /\ stream'[Other(e)] = stream[Other(e)] \o o.out
           /\ Dropped(stream[e], k, stream'[e])
           /\ Appended(stream[Other(e)], o.out, stream'[Other(e)])
<1>. DEFINE rest == SubSeq(stream[e], k + 1, Len(stream[e]))
            more == stream[Other(e)] \o o.out
<1>1. /\ k \in 1 .. Len(stream[e])
      /\ stream' = [stream EXCEPT ![e] = rest, ![Other(e)] = more]
  BY DEF Took
<1>2. Other(e) \in Ends /\ Other(e) # e
  BY OthersOf
<1>3. stream[e] \in Seq(Messages) /\ stream[Other(e)] \in Seq(Messages)
  BY <1>2
<1>4. Dropped(stream[e], k, rest)
  BY <1>1, <1>3, Suffix DEF Dropped
<1>5. Appended(stream[Other(e)], o.out, more)
  BY <1>3, AppendedOut
<1>6. rest \in Seq(Messages) /\ more \in Seq(Messages)
  BY <1>4, <1>5 DEF Dropped, Appended
<1>. HIDE DEF rest, more
<1>7. /\ stream' \in [Ends -> Seq(Messages)]
      /\ stream'[e] = rest /\ stream'[Other(e)] = more
  BY <1>1, <1>2, <1>6
<1>. QED
  BY <1>4, <1>5, <1>7 DEF rest, more

LEMMA TookTyped ==
    ASSUME Typed, NEW e \in Ends, NEW k \in Nat, NEW o, Took(e, k, o), Yields(e, stream[e][1], o)
    PROVE  Typed'
<1>1. /\ o.t \in Terminals /\ o.err \in Errs /\ o.out \in Seq(Messages)
      /\ e = "client" => o.t.will = Will
  BY DEF Yields
<1>2. /\ term \in [Ends -> Terminals] /\ term["client"].will = Will
      /\ loop \in [Ends -> Errs \cup {"idle", "read"}]
      /\ sock \in {"open", "closed"} /\ (sock = "closed" <=> loop["broker"] \in {"idle", "CRASH"})
      /\ stream \in [Ends -> Seq(Messages)] /\ buff \in [Ends -> Bytes]
      /\ calls \in 0 .. MaxCalls /\ merged \in BOOLEAN
      /\ wrote \in [Ends -> SUBSET Range(MessageType)]
  BY DEF Typed
<1>3. /\ loop[e] = "read" /\ k \in 1 .. Len(stream[e])
      /\ merged' = (merged \/ k > 1) /\ calls' = calls
      /\ buff' = [buff EXCEPT ![e] = Read(e, k)]
      /\ term' = [term EXCEPT ![e] = o.t]
      /\ loop' = [loop EXCEPT ![e] = IF o.err # "NO_ERROR" THEN o.err
                                     ELSE IF o.t.isConnecting THEN "read" ELSE "idle"]
      /\ sock' = IF e = "broker" /\ Closing(o) THEN "closed" ELSE sock
      /\ Writes(e, o.out)
  BY DEF Took
<1>4. "client" \in Ends /\ "broker" \in Ends /\ e \in {"client", "broker"}
  BY DEF Ends
<1>5. term' \in [Ends -> Terminals] /\ term'["client"].will = Will
  BY <1>1, <1>2, <1>3, <1>4
<1>6. /\ loop' \in [Ends -> Errs \cup {"idle", "read"}]
      /\ sock' \in {"open", "closed"} /\ (sock' = "closed" <=> loop'["broker"] \in {"idle", "CRASH"})
  <2>1. "idle" \notin Errs /\ "read" # "idle" /\ "read" # "CRASH" /\ "NO_ERROR" # "CRASH"
    BY DEF Errs
  <2>. QED
    BY <1>1, <1>2, <1>3, <1>4, <2>1 DEF Closing
<1>7. stream' \in [Ends -> Seq(Messages)]
  BY <1>1, <1>2, TookStreams, Zenon
<1>8. buff' \in [Ends -> Bytes]
  <2>1. Read(e, k) \in Bytes
    BY <1>2, <1>3, ReadHolds
  <2>. QED
    BY <1>2, <1>3, <2>1
<1>9. calls' \in 0 .. MaxCalls /\ merged' \in BOOLEAN
  BY <1>2, <1>3
<1>10. wrote' \in [Ends -> SUBSET Range(MessageType)]
  BY <1>1, <1>2, <1>3, WritesParts
<1>. QED
  BY <1>5, <1>6, <1>7, <1>8, <1>9, <1>10 DEF Typed

LEMMA TookWritten ==
    ASSUME Typed, Written, NEW e \in Ends, NEW k \in Nat, NEW o, Took(e, k, o), Yields(e, stream[e][1], o)
    PROVE  Written'
<1>1. /\ o.out \in Seq(Messages) /\ stream \in [Ends -> Seq(Messages)]
      /\ wrote \in [Ends -> SUBSET Range(MessageType)] /\ Writes(e, o.out)
  BY DEF Typed, Yields, Took
<1>. DEFINE rest == stream'[e]
            more == stream'[Other(e)]
<1>2. Other(e) \in Ends /\ Other(e) # e /\ \A x \in Ends : x = e \/ x = Other(e)
  BY DEF Other, Ends
<1>3. Other(Other(e)) = e
  BY DEF Other, Ends
<1>4. PICK n \in Nat, l \in Nat : n = Len(stream[Other(e)]) /\ l = Len(o.out)
  BY <1>1, <1>2, LenProperties
<1>5. /\ \A i \in 1 .. Len(rest) : /\ i + k \in 1 .. Len(stream[e])
                                   /\ rest[i] = stream[e][i + k]
      /\ Len(more) = n + l
      /\ \A i \in 1 .. Len(more) :
           more[i] = IF i <= n THEN stream[Other(e)][i] ELSE o.out[i - n]
  <2>1. Dropped(stream[e], k, rest) /\ Appended(stream[Other(e)], o.out, more)
    BY <1>1, TookStreams
  <2>. QED
    BY <1>4, <2>1 DEF Dropped, Appended
<1>6. /\ wrote'[e] = wrote[e] \cup {o.out[i].type : i \in 1 .. l}
      /\ wrote'[Other(e)] = wrote[Other(e)]
  BY <1>1, <1>4, WritesParts
<1>. HIDE DEF rest, more
<1>7. ASSUME NEW i \in 1 .. Len(rest) PROVE rest[i].type \in wrote'[Other(e)]
  BY <1>5, <1>6 DEF Written
<1>8. ASSUME NEW i \in 1 .. Len(more) PROVE more[i].type \in wrote'[e]
  <2>1. i \in 1 .. n + l
    BY <1>5
  <2>2. CASE i <= n
    <3>1. i \in 1 .. Len(stream[Other(e)])
      BY <1>4, <2>1, <2>2
    <3>2. stream[Other(e)][i].type \in wrote[e]
      BY <1>2, <1>3, <3>1 DEF Written
    <3>. QED
      BY <1>5, <1>6, <2>2, <3>2
  <2>3. CASE ~(i <= n)
    <3>1. i - n \in 1 .. l
      BY <2>1, <2>3
    <3>. QED
      BY <1>5, <1>6, <2>3, <3>1
  <2>. QED
    BY <2>2, <2>3
<1>. QED
  BY <1>2, <1>3, <1>7, <1>8 DEF Written, rest, more

LEMMA TookLegible ==
    ASSUME Typed, Legible, Handshake, NEW e \in Ends, NEW k \in Nat, NEW o, Took(e, k, o)
    PROVE  Legible'
<1>. SUFFICES ASSUME ~merged' PROVE \A x \in Ends : LengthEnds(buff'[x]) # {}
  BY DEF Legible
<1>1. /\ k \in 1 .. Len(stream[e]) /\ merged' = (merged \/ k > 1)
      /\ buff' = [buff EXCEPT ![e] = Read(e, k)]
  BY DEF Took
<1>2. merged \in BOOLEAN /\ buff \in [Ends -> Bytes] /\ Len(stream[e]) \in Nat
  BY DEF Typed
<1>3. ~merged /\ k = 1
  <2>1. ~(merged \/ k > 1)
    BY <1>1, Zenon
  <2>. QED
    BY <1>1, <1>2, <2>1
<1>4. LengthEnds(Read(e, k)) # {}
  BY <1>1, <1>3, ReadMeets
<1>. QED
  BY <1>1, <1>2, <1>3, <1>4 DEF Legible

LEMMA WroteMore ==
    ASSUME wrote \in [Ends -> SUBSET Range(MessageType)], NEW e \in Ends,
           NEW out \in Seq(Messages), Writes(e, out)
    PROVE  \A x \in Ends : wrote[x] \subseteq wrote'[x]
<1>1. /\ wrote[e] \subseteq wrote'[e] /\ wrote'[Other(e)] = wrote[Other(e)]
  BY WritesParts
<1>2. \A x \in Ends : x = e \/ x = Other(e)
  BY DEF Ends, Other
<1>. QED
  BY <1>1, <1>2

LEMMA TookHandshake ==
    ASSUME Typed, Handshake, NEW e \in Ends, NEW k \in Nat, NEW o, Took(e, k, o),
           Yields(e, stream[e][1], o)
    PROVE  Handshake'
<1>. DEFINE m == stream[e][1]
<1>1. /\ o.t \in Terminals /\ o.err \in Errs /\ o.out \in Seq(Messages)
      /\ m.type = "CONNECT" =>
           /\ Connecting /\ e = "broker"
           /\ \/ o.err = "CRASH" /\ o.out = <<>>
              \/ o.err = "NO_ERROR" /\ o.out = <<ConnackMessage(FALSE, 0)>> /\ o.t.isConnecting
      /\ m.type = "CONNACK" => Accepted /\ e = "client" /\ o.out = <<>>
      /\ m.type \notin {"CONNECT", "CONNACK"} => Open /\ o.out \in Seq(Sent(OwnTypes(e)))
  BY DEF Yields
<1>2. /\ term \in [Ends -> Terminals]
      /\ loop \in [Ends -> Errs \cup {"idle", "read"}]
      /\ stream \in [Ends -> Seq(Messages)] /\ buff \in [Ends -> Bytes]
      /\ wrote \in [Ends -> SUBSET Range(MessageType)]
  BY DEF Typed
<1>3. /\ loop[e] = "read" /\ k \in 1 .. Len(stream[e])
      /\ buff' = [buff EXCEPT ![e] = Read(e, k)]
      /\ term' = [term EXCEPT ![e] = o.t]
      /\ loop' = [loop EXCEPT ![e] = IF o.err # "NO_ERROR" THEN o.err
                                     ELSE IF o.t.isConnecting THEN "read" ELSE "idle"]
      /\ Writes(e, o.out)
  BY DEF Took
<1>4. /\ "client" \in Ends /\ "broker" \in Ends /\ e \in {"client", "broker"}
      /\ Other("client") = "broker" /\ Other("broker") = "client"
  BY DEF Ends, Other
<1>5. wrote["client"] \subseteq wrote'["client"]
  BY <1>1, <1>2, <1>3, <1>4, WroteMore
<1>6. /\ stream'[e] = SubSeq(stream[e], k + 1, Len(stream[e]))
      /\ stream'[Other(e)] = stream[Other(e)] \o o.out
      /\ Dropped(stream[e], k, stream'[e])
  BY <1>1, <1>2, TookStreams, Zenon
<1>7. "read" \notin Errs /\ "CRASH" # "NO_ERROR" /\ "CRASH" # "read"
  BY DEF Errs
<1>8. Len(stream[e]) = 1 => stream'[e] = <<>>
  <2>. SUFFICES ASSUME Len(stream[e]) = 1 PROVE stream'[e] = <<>>
    OBVIOUS
  <2>1. k = 1
    BY <1>3
  <2>2. stream'[e] \in Seq(Messages) /\ Len(stream'[e]) = 0
    BY <1>6, <2>1 DEF Dropped
  <2>. QED
    BY <2>2, EmptySeq
<1>. HIDE DEF m
<1>9. CASE m.type = "CONNECT"
  <2>1. Connecting /\ e = "broker" /\ Other(e) = "client"
    BY <1>1, <1>4, <1>9
  <2>2. /\ "CONNECT" \in wrote'["client"] /\ stream'["broker"] = <<>>
        /\ stream["client"] = <<>>
        /\ buff'["client"] = <<>> /\ term'["client"] = term["client"]
        /\ ~term["client"].isConnecting
    BY <1>2, <1>3, <1>4, <1>5, <1>8, <2>1 DEF Connecting, Silent
  <2>3. CASE o.err = "CRASH" /\ o.out = <<>>
    <3>1. loop'["broker"] # "read"
      BY <1>2, <1>3, <1>4, <1>7, <2>1, <2>3
    <3>2. stream'["client"] = <<>>
      BY <1>6, <2>1, <2>2, <2>3
    <3>. QED
      BY <2>2, <3>1, <3>2, EmptySeq DEF Open, Handshake
  <2>4. CASE o.err = "NO_ERROR" /\ o.out = <<ConnackMessage(FALSE, 0)>> /\ o.t.isConnecting
    <3>1. loop'["broker"] = "read" /\ term'["broker"].isConnecting
      BY <1>2, <1>3, <1>4, <2>1, <2>4
    <3>2. stream'["client"] = o.out
      <4>1. stream'["client"] = <<>> \o o.out
        BY <1>6, <2>1, <2>2
      <4>. QED
        BY <1>1, <4>1, ConcatEmptySeq
    <3>. QED
      BY <2>2, <2>4, <3>1, <3>2 DEF Accepted, Handshake
  <2>. QED
    BY <1>1, <1>9, <2>3, <2>4
<1>10. CASE m.type = "CONNACK"
  <2>1. Accepted /\ e = "client" /\ Other(e) = "broker" /\ o.out = <<>>
    BY <1>1, <1>4, <1>10
  <2>2. Len(stream["client"]) = 1
    BY <2>1 DEF Accepted
  <2>3. /\ "CONNECT" \in wrote'["client"] /\ stream'["client"] = <<>>
        /\ term'["broker"] = term["broker"] /\ term["broker"].isConnecting
    BY <1>2, <1>3, <1>4, <1>5, <1>8, <2>1, <2>2 DEF Accepted
  <2>4. stream'["broker"] = <<>>
    BY <1>6, <2>1 DEF Accepted
  <2>. QED
    BY <2>3, <2>4, EmptySeq DEF Open, Handshake
<1>11. CASE m.type \notin {"CONNECT", "CONNACK"}
  <2>1. /\ Open /\ o.out \in Seq(Sent(OwnTypes(e)))
        /\ stream[e] \in Seq(Sent(OwnTypes(Other(e))))
        /\ stream[Other(e)] \in Seq(Sent(OwnTypes(e)))
    BY <1>1, <1>4, <1>11 DEF Open, OwnTypes
  <2>2. stream'[e] \in Seq(Sent(OwnTypes(Other(e))))
    BY <1>3, <1>6, <2>1, Suffix
  <2>3. stream'[Other(e)] \in Seq(Sent(OwnTypes(e)))
    BY <1>6, <2>1, ConcatProperties
  <2>4. /\ stream'["client"] \in Seq(Sent(BrokerTypes))
        /\ stream'["broker"] \in Seq(Sent(ClientTypes))
    BY <1>4, <2>2, <2>3 DEF OwnTypes
  <2>5. loop'["broker"] = "read" => term'["broker"].isConnecting
    <3>1. CASE e = "broker"
      BY <1>1, <1>2, <1>3, <1>4, <1>7, <3>1
    <3>2. CASE e = "client"
      BY <1>2, <1>3, <1>4, <2>1, <3>2 DEF Open
    <3>. QED
      BY <1>4, <3>1, <3>2
  <2>. QED
    BY <1>5, <2>1, <2>4, <2>5 DEF Open, Handshake
<1>. QED
  BY <1>9, <1>10, <1>11

-----------------------------------------------------------------------------
(***************************************************************************)
(* Requests and answers under way: what a step takes and what it adds.     *)
(***************************************************************************)
LEMMA DroppedAt ==
    ASSUME NEW s \in Seq(Messages), NEW k \in Nat, NEW r, Dropped(s, k, r), NEW types, NEW id,
           NEW i \in At(r, types, id)
    PROVE  i \in Nat /\ i >= 1 /\ i + k \in At(s, types, id) /\ r[i] = s[i + k]
<1>1. /\ i \in 1 .. Len(r) /\ Len(r) \in Nat /\ r[i].type \in types /\ r[i].id = id
  BY LenProperties DEF At, Dropped
<1>2. i + k \in 1 .. Len(s) /\ r[i] = s[i + k]
  BY <1>1 DEF Dropped
<1>. QED
  BY <1>1, <1>2 DEF At

LEMMA AppendedAt ==
    ASSUME NEW s \in Seq(Messages), NEW out \in Seq(Messages), NEW q, Appended(s, out, q),
           NEW types, NEW id, NEW i \in At(q, types, id)
    PROVE  \/ i \in At(s, types, id) /\ q[i] = s[i]
           \/ /\ i - Len(s) \in At(out, types, id) /\ q[i] = out[i - Len(s)]
              /\ i \in Nat
<1>1. PICK n \in Nat, l \in Nat : n = Len(s) /\ l = Len(out)
  BY LenProperties
<1>2. /\ i \in 1 .. n + l /\ q[i].type \in types /\ q[i].id = id
      /\ q[i] = IF i <= n THEN s[i] ELSE out[i - n]
  BY <1>1 DEF At, Appended
<1>3. CASE i <= n
  <2>1. i \in 1 .. n /\ q[i] = s[i]
    BY <1>2, <1>3
  <2>. QED
    BY <1>1, <1>2, <2>1 DEF At
<1>4. CASE ~(i <= n)
  <2>1. i - n \in 1 .. l /\ q[i] = out[i - n] /\ i \in Nat
    BY <1>2, <1>4
  <2>. QED
    BY <1>1, <1>2, <2>1 DEF At
<1>. QED
  BY <1>3, <1>4

\* Fewer requests and fewer answers match as well.
LEMMA MatchedDropped ==
    ASSUME NEW map, NEW id, NEW q \in Seq(Messages), NEW r \in Seq(Messages),
           Matched(map, q, r, id), NEW j \in Nat, NEW k \in Nat, NEW s, NEW u,
           Dropped(q, j, s), Dropped(r, k, u)
    PROVE  Matched(map, s, u, id)
<1>1. \A i \in At(s, Asks, id) : i \in Nat /\ i + j \in At(q, Asks, id) /\ s[i] = q[i + j]
  BY DroppedAt
<1>2. \A i \in At(u, Answers, id) : i \in Nat /\ i + k \in At(r, Answers, id) /\ u[i] = r[i + k]
  BY DroppedAt
<1>3. /\ \A i \in At(q, Asks, id) : map[id] = q[i].type
      /\ \A i \in At(r, Answers, id) : map[id] \in Asks /\ r[i].type = AnswerTo[map[id]]
      /\ Single(At(q, Asks, id)) /\ Single(At(r, Answers, id))
      /\ At(q, Asks, id) = {} \/ At(r, Answers, id) = {}
  BY DEF Matched
<1>4. Single(At(s, Asks, id))
  <2>1. ASSUME NEW i \in At(s, Asks, id), NEW l \in At(s, Asks, id) PROVE i = l
    <3>1. i \in Nat /\ l \in Nat /\ i + j = l + j
      BY <1>1, <1>3 DEF Single
    <3>. QED
      BY <3>1
  <2>. QED
    BY <2>1 DEF Single
<1>5. Single(At(u, Answers, id))
  <2>1. ASSUME NEW i \in At(u, Answers, id), NEW l \in At(u, Answers, id) PROVE i = l
    <3>1. i \in Nat /\ l \in Nat /\ i + k = l + k
      BY <1>2, <1>3 DEF Single
    <3>. QED
      BY <3>1
  <2>. QED
    BY <2>1 DEF Single
<1>6. At(s, Asks, id) = {} \/ At(u, Answers, id) = {}
  BY <1>1, <1>2, <1>3
<1>. QED
  BY <1>1, <1>2, <1>3, <1>4, <1>5, <1>6 DEF Matched

LEMMA DroppedNone ==
    ASSUME NEW s \in Seq(Messages)
    PROVE  Dropped(s, 0, s)
<1>1. \A i \in 1 .. Len(s) : i + 0 = i
  BY LenProperties
<1>2. Len(s) - 0 = Len(s)
  BY LenProperties
<1>. QED
  BY <1>1, <1>2 DEF Dropped

\* What the client sends under an identifier that is free.
LEMMA MatchedSent ==
    ASSUME NEW map \in Maps, NEW id \in PacketIDs \ {0}, NEW q \in Seq(Messages), NEW r,
           Matched(map, q, r, id), NEW x \in Messages, map[x.id] = NoMessage, NEW s,
           Appended(q, <<x>>, s)
    PROVE  Matched(Kept(map, x), s, r, id)
<1>1. /\ \A i \in At(q, Asks, id) : map[id] = q[i].type
      /\ \A i \in At(r, Answers, id) : map[id] \in Asks /\ r[i].type = AnswerTo[map[id]]
      /\ Single(At(q, Asks, id)) /\ Single(At(r, Answers, id))
      /\ At(q, Asks, id) = {} \/ At(r, Answers, id) = {}
  BY DEF Matched
<1>2. x.id \in PacketIDs /\ x.type \in Range(MessageType)
  BY MessageFields
<1>3. map \in [PacketIDs -> Kinds \cup {NoMessage}]
  BY DEF Maps
<1>4. NoMessage \notin Asks
  BY DEF NoMessage, Asks
<1>5. PICK out \in Seq(Messages) : out = <<x>> /\ Len(out) = 1 /\ out[1] = x
  <2>1. <<x>> \in Seq(Messages) /\ Len(<<x>>) = 1 /\ <<x>>[1] = x
    OBVIOUS
  <2>. QED
    BY <2>1, Zenon
<1>6. ASSUME NEW i \in At(s, Asks, id)
      PROVE  \/ i \in At(q, Asks, id) /\ s[i] = q[i]
             \/ i = Len(q) + 1 /\ s[i] = x /\ x.type \in Asks /\ x.id = id
  <2>1. Appended(q, out, s)
    BY <1>5
  <2>2. \/ i \in At(q, Asks, id) /\ s[i] = q[i]
        \/ /\ i - Len(q) \in At(out, Asks, id) /\ s[i] = out[i - Len(q)]
           /\ i \in Nat
    BY <2>1, AppendedAt
  <2>3. ASSUME i - Len(q) \in At(out, Asks, id), s[i] = out[i - Len(q)], i \in Nat
        PROVE  i = Len(q) + 1 /\ s[i] = x /\ x.type \in Asks /\ x.id = id
    <3>1. /\ i - Len(q) \in 1 .. 1 /\ out[i - Len(q)].type \in Asks
          /\ out[i - Len(q)].id = id
      BY <1>5, <2>3 DEF At
    <3>2. i - Len(q) = 1 /\ Len(q) \in Nat
      BY <3>1, LenProperties
    <3>. QED
      BY <1>5, <2>3, <3>1, <3>2
  <2>. QED
    BY <2>2, <2>3
<1>7. CASE x.id # id
  <2>1. Kept(map, x)[id] = map[id]
    BY <1>2, <1>3, <1>7 DEF Kept
  <2>2. \A i \in At(s, Asks, id) : i \in At(q, Asks, id) /\ s[i] = q[i]
    BY <1>6, <1>7
  <2>3. Single(At(s, Asks, id)) /\ (At(s, Asks, id) = {} \/ At(r, Answers, id) = {})
    BY <1>1, <2>2 DEF Single
  <2>. QED
    BY <1>1, <2>1, <2>2, <2>3 DEF Matched
<1>8. CASE x.id = id
  <2>1. At(q, Asks, id) = {} /\ At(r, Answers, id) = {}
    <3>1. ASSUME NEW i \in At(q, Asks, id) PROVE FALSE
      <4>1. q[i].type \in Asks
        BY DEF At
      <4>. QED
        BY <1>1, <1>4, <1>8, <4>1
    <3>. QED
      BY <1>1, <1>4, <1>8, <3>1
  <2>2. \A i \in At(s, Asks, id) : i = Len(q) + 1 /\ s[i] = x /\ x.type \in Asks
    BY <1>6, <2>1
  <2>3. x.type \in Asks => Kept(map, x)[id] = x.type
    <3>1. id > 0 /\ Asks \subseteq Kinds
      BY DEF PacketIDs, Asks, Kinds, Acknowledged
    <3>. QED
      BY <1>2, <1>3, <1>8, <3>1 DEF Kept, Keeps
  <2>4. Single(At(s, Asks, id))
    BY <2>2 DEF Single
  <2>. QED
    BY <1>1, <2>1, <2>2, <2>3, <2>4 DEF Matched
<1>. QED
  BY <1>7, <1>8

\* An answer that the client reads.
LEMMA MatchedAnswered ==
    ASSUME NEW map \in Maps, NEW id \in PacketIDs \ {0}, NEW q \in Seq(Messages),
           NEW r \in Seq(Messages), Matched(map, q, r, id), r # <<>>, r[1].type \in Answers,
           NEW k \in Nat, k >= 1, NEW u, Dropped(r, k, u)
    PROVE  Matched([map EXCEPT ![r[1].id] = NoMessage], q, u, id)
<1>. DEFINE m == r[1]
            base == [map EXCEPT ![m.id] = NoMessage]
<1>1. Matched(map, q, u, id)
  BY DroppedNone, MatchedDropped
<1>2. Len(r) \in Nat /\ Len(r) >= 1
  BY LenProperties, EmptySeq
<1>3. m \in Messages /\ m.id \in PacketIDs
  BY <1>2, MessageFields, ElementOfSeq
<1>4. map \in [PacketIDs -> Kinds \cup {NoMessage}]
  BY DEF Maps
<1>. HIDE DEF m
<1>5. CASE m.id # id
  <2>1. base[id] = map[id]
    BY <1>3, <1>4, <1>5
  <2>. HIDE DEF base
  <2>. QED
    BY <1>1, <2>1 DEF Matched, m, base
<1>6. CASE m.id = id
  <2>1. 1 \in At(r, Answers, id)
    BY <1>2, <1>6 DEF At, m
  <2>2. At(q, Asks, id) = {} /\ \A i \in At(r, Answers, id) : i = 1
    BY <2>1 DEF Matched, Single
  <2>3. At(u, Answers, id) = {}
    <3>1. ASSUME NEW i \in At(u, Answers, id) PROVE FALSE
      <4>1. i \in Nat /\ i >= 1 /\ i + k \in At(r, Answers, id)
        BY DroppedAt
      <4>2. i + k = 1
        BY <2>2, <4>1
      <4>. QED
        BY <4>1, <4>2
    <3>. QED
      BY <3>1
  <2>. QED
    BY <2>2, <2>3 DEF Matched, Single
<1>. QED
  BY <1>5, <1>6 DEF m

\* A request, or anything else, that the broker reads.
LEMMA MatchedReplied ==
    ASSUME NEW map, NEW id, NEW q \in Seq(Messages), NEW r \in Seq(Messages),
           Matched(map, q, r, id), q # <<>>, NEW k \in Nat, k >= 1, NEW s, Dropped(q, k, s),
           NEW out \in Seq(Messages), Replies(q[1], out), NEW u, Appended(r, out, u)
    PROVE  Matched(map, s, u, id)
<1>. DEFINE m == q[1]
<1>1. Matched(map, s, r, id)
  BY DroppedNone, MatchedDropped
<1>2. /\ \A i \in At(s, Asks, id) : map[id] = s[i].type
      /\ \A i \in At(r, Answers, id) : map[id] \in Asks /\ r[i].type = AnswerTo[map[id]]
      /\ Single(At(s, Asks, id)) /\ Single(At(r, Answers, id))
      /\ At(s, Asks, id) = {} \/ At(r, Answers, id) = {}
  BY <1>1 DEF Matched
<1>3. Len(q) \in Nat /\ Len(q) >= 1 /\ Len(r) \in Nat /\ Len(out) \in Nat
  BY LenProperties, EmptySeq
<1>4. ASSUME NEW i \in At(out, Answers, id)
      PROVE  /\ i = Len(out) /\ m.type \in Asks /\ m.id = id
             /\ out[i].type = AnswerTo[m.type]
  <2>1. i \in 1 .. Len(out) /\ out[i].type \in Answers /\ out[i].id = id
    BY DEF At
  <2>. QED
    BY <2>1 DEF Replies, Reply
<1>5. CASE At(out, Answers, id) = {}
  <2>1. \A i \in At(u, Answers, id) : i \in At(r, Answers, id) /\ u[i] = r[i]
    BY <1>5, AppendedAt
  <2>2. Single(At(u, Answers, id)) /\ (At(s, Asks, id) = {} \/ At(u, Answers, id) = {})
    BY <1>2, <2>1 DEF Single
  <2>. QED
    BY <1>2, <2>1, <2>2 DEF Matched
<1>6. CASE At(out, Answers, id) # {}
  <2>1. m.type \in Asks /\ m.id = id
    BY <1>4, <1>6
  <2>2. 1 \in At(q, Asks, id)
    BY <1>3, <2>1 DEF At
  <2>3. At(r, Answers, id) = {} /\ map[id] = m.type /\ \A i \in At(q, Asks, id) : i = 1
    BY <2>2 DEF Matched, Single
  <2>4. At(s, Asks, id) = {}
    <3>1. ASSUME NEW i \in At(s, Asks, id) PROVE FALSE
      <4>1. i \in Nat /\ i >= 1 /\ i + k \in At(q, Asks, id)
        BY DroppedAt
      <4>2. i + k = 1
        BY <2>3, <4>1
      <4>. QED
        BY <4>1, <4>2
    <3>. QED
      BY <3>1
  <2>5. ASSUME NEW i \in At(u, Answers, id)
        PROVE  i = Len(r) + Len(out) /\ u[i].type = AnswerTo[m.type]
    <3>1. /\ i - Len(r) \in At(out, Answers, id) /\ u[i] = out[i - Len(r)]
          /\ i \in Nat
      BY <2>3, AppendedAt
    <3>2. i - Len(r) = Len(out) /\ u[i].type = AnswerTo[m.type]
      BY <1>4, <3>1
    <3>. QED
      BY <1>3, <3>1, <3>2
  <2>6. Single(At(u, Answers, id)) /\ Single(At(s, Asks, id))
    BY <2>4, <2>5 DEF Single
  <2>. QED
    BY <2>1, <2>3, <2>4, <2>5, <2>6 DEF Matched
<1>. QED
  BY <1>5, <1>6

LEMMA MatchedExtended ==
    ASSUME NEW base \in Maps, NEW id \in PacketIDs \ {0}, NEW q \in Seq(Messages),
           NEW r \in Seq(Messages), Matched(base, q, r, id), NEW map, NEW out,
           Extends(base, map, out, Unprompted), NEW s, Appended(q, out, s)
    PROVE  Matched(map, s, r, id)
<1>1. CASE out = <<>> /\ map = base
  <2>1. Len(q) \in Nat /\ Len(<<>>) = 0 /\ Appended(q, <<>>, s)
    BY <1>1, LenProperties
  <2>2. Dropped(q, 0, s)
    <3>1. s \in Seq(Messages) /\ Len(s) = Len(q) - 0
      BY <2>1 DEF Appended
    <3>2. ASSUME NEW i \in 1 .. Len(s) PROVE i + 0 \in 1 .. Len(q) /\ s[i] = q[i + 0]
      <4>1. i \in 1 .. Len(q) /\ i + 0 = i /\ i <= Len(q)
        BY <2>1, <3>1
      <4>. QED
        BY <2>1, <4>1 DEF Appended
    <3>. QED
      BY <3>1, <3>2 DEF Dropped
  <2>. QED
    BY <1>1, <2>2, DroppedNone, MatchedDropped
<1>2. CASE \E x \in Sent(Unprompted) : /\ out = <<x>> /\ base[x.id] = NoMessage
                                       /\ map = Kept(base, x)
  <2>1. PICK x \in Messages : out = <<x>> /\ base[x.id] = NoMessage /\ map = Kept(base, x)
    BY <1>2 DEF Sent
  <2>2. Appended(q, <<x>>, s)
    BY <2>1
  <2>. QED
    BY <2>1, <2>2, MatchedSent
<1>. QED
  BY <1>1, <1>2 DEF Extends

LEMMA ExtendsTypes ==
    ASSUME NEW base, NEW map, NEW out, NEW types, Extends(base, map, out, types)
    PROVE  \A i \in 1 .. Len(out) : out[i].type \in types
<1>1. CASE out = <<>>
  BY <1>1
<1>2. ASSUME NEW x \in Sent(types), out = <<x>> PROVE \A i \in 1 .. Len(out) : out[i].type \in types
  <2>1. Len(out) = 1 /\ out[1] = x /\ x.type \in types
    BY <1>2 DEF Sent
  <2>. QED
    BY <2>1
<1>. QED
  BY <1>1, <1>2 DEF Extends

LEMMA TookMatching ==
    ASSUME Typed, Written, Matching, NEW e \in Ends, NEW k \in Nat, NEW o, Took(e, k, o),
           Yields(e, stream[e][1], o)
    PROVE  Matching'
<1>. DEFINE m == stream[e][1]
            map == term["client"].packetIDMap
            map2 == term'["client"].packetIDMap
<1>1. /\ o.out \in Seq(Messages) /\ o.t \in Terminals
      /\ e = "client" => Handled(m, map, o)
      /\ e = "broker" => Replies(m, o.out)
  BY DEF Yields
<1>2. /\ term \in [Ends -> Terminals] /\ stream \in [Ends -> Seq(Messages)]
      /\ wrote \in [Ends -> SUBSET Range(MessageType)]
  BY DEF Typed
<1>3. /\ k \in 1 .. Len(stream[e]) /\ k >= 1 /\ term' = [term EXCEPT ![e] = o.t] /\ Writes(e, o.out)
  BY DEF Took
<1>4. /\ "client" \in Ends /\ "broker" \in Ends /\ e \in {"client", "broker"}
      /\ Other("client") = "broker" /\ Other("broker") = "client"
  BY DEF Ends, Other
<1>5. /\ stream[e] \in Seq(Messages) /\ stream[e] # <<>>
      /\ m \in Messages /\ m.type \in wrote[Other(e)]
  <2>1. stream[e] \in Seq(Messages) /\ 1 \in 1 .. Len(stream[e])
    BY <1>2, <1>3, LenProperties
  <2>. QED
    BY <2>1, ElementOfSeq DEF Written
<1>6. /\ Dropped(stream[e], k, stream'[e])
      /\ Appended(stream[Other(e)], o.out, stream'[Other(e)])
      /\ stream'[e] \in Seq(Messages)
  BY <1>1, <1>2, TookStreams DEF Dropped
<1>7. /\ wrote'[e] = wrote[e] \cup {o.out[i].type : i \in 1 .. Len(o.out)}
      /\ wrote'[Other(e)] = wrote[Other(e)]
  BY <1>1, <1>2, <1>3, WritesParts
<1>8. map \in Maps
  BY <1>2, <1>4 DEF Terminals
<1>. SUFFICES ASSUME Quiet'
              PROVE  /\ "PUBREL" \notin wrote'["client"] /\ "PUBCOMP" \notin wrote'["broker"]
                     /\ \A id \in PacketIDs \ {0} :
                          Matched(map2, stream'["broker"], stream'["client"], id)
  BY DEF Matching
<1>9. Quiet
  BY <1>4, <1>7 DEF Quiet
<1>10. /\ "PUBREL" \notin wrote["client"] /\ "PUBCOMP" \notin wrote["broker"]
       /\ \A id \in PacketIDs \ {0} : Matched(map, stream["broker"], stream["client"], id)
  BY <1>9 DEF Matching
<1>. HIDE DEF m, map
<1>11. CASE e = "broker"
  <2>1. Replies(m, o.out) /\ Other(e) = "client" /\ m.type \in wrote["client"]
    BY <1>1, <1>4, <1>5, <1>11
  <2>2. map2 = map
    BY <1>2, <1>3, <1>4, <1>11 DEF map
  <2>3. "PUBCOMP" \notin wrote'["broker"]
    <3>1. ASSUME NEW i \in 1 .. Len(o.out), o.out[i].type = "PUBCOMP" PROVE FALSE
      <4>1. m.type = "PUBREL"
        BY <2>1, <3>1 DEF Replies, Reply
      <4>. QED
        BY <1>10, <2>1, <4>1
    <3>. QED
      BY <1>7, <1>10, <1>11, <3>1
  <2>4. ASSUME NEW id \in PacketIDs \ {0}
        PROVE  Matched(map, stream'["broker"], stream'["client"], id)
    <3>1. /\ stream["broker"] \in Seq(Messages) /\ stream["client"] \in Seq(Messages)
          /\ stream["broker"] # <<>> /\ Replies(stream["broker"][1], o.out)
          /\ Dropped(stream["broker"], k, stream'["broker"])
          /\ Appended(stream["client"], o.out, stream'["client"])
          /\ Matched(map, stream["broker"], stream["client"], id)
      BY <1>2, <1>4, <1>5, <1>6, <1>10, <1>11, <2>1 DEF m
    <3>. QED
      BY <1>1, <1>3, <3>1, MatchedReplied
  <2>. QED
    BY <1>7, <1>10, <1>11, <2>1, <2>2, <2>3, <2>4
<1>12. CASE e = "client"
  <2>1. /\ Handled(m, map, o) /\ Other(e) = "broker" /\ m.type \in wrote["broker"]
        /\ m.type \notin {"PUBACK", "PUBREC", "PUBCOMP"}
    BY <1>1, <1>4, <1>5, <1>9, <1>10, <1>12 DEF Quiet
  <2>2. PICK base : /\ \/ base = map
                       \/ m.type \in Answers /\ base = [map EXCEPT ![m.id] = NoMessage]
                    /\ Extends(base, map2, o.out, Unprompted)
    <3>1. map2 = o.t.packetIDMap
      BY <1>2, <1>3, <1>4, <1>12
    <3>2. m.type \in Acks => m.type \in Answers
      BY <2>1 DEF Acks, Exchanged, Answers
    <3>3. Writable(m) = Unprompted
      BY <2>1 DEF Writable
    <3>. QED
      BY <2>1, <3>1, <3>2, <3>3 DEF Handled
  <2>3. "PUBREL" \notin wrote'["client"]
    <3>1. \A i \in 1 .. Len(o.out) : o.out[i].type \in Unprompted
      BY <2>2, ExtendsTypes
    <3>2. "PUBREL" \notin Unprompted
      BY DEF Unprompted
    <3>. QED
      BY <1>7, <1>10, <1>12, <3>1, <3>2
  <2>4. base \in Maps
    <3>1. m.id \in PacketIDs
      BY <1>5, MessageFields
    <3>2. [map EXCEPT ![m.id] = NoMessage] \in Maps
      BY <1>8, <3>1, Remapped
    <3>. QED
      BY <1>8, <2>2, <3>2
  <2>5. ASSUME NEW id \in PacketIDs \ {0}
        PROVE  Matched(map2, stream'["broker"], stream'["client"], id)
    <3>1. /\ stream["broker"] \in Seq(Messages) /\ stream["client"] \in Seq(Messages)
          /\ stream["client"] # <<>> /\ stream'["client"] \in Seq(Messages)
          /\ Dropped(stream["client"], k, stream'["client"])
          /\ Appended(stream["broker"], o.out, stream'["broker"])
          /\ Matched(map, stream["broker"], stream["client"], id)
      BY <1>2, <1>4, <1>5, <1>6, <1>10, <1>12, <2>1
    <3>2. Matched(base, stream["broker"], stream'["client"], id)
      <4>1. CASE base = map
        BY <3>1, <4>1, DroppedNone, MatchedDropped
      <4>2. CASE m.type \in Answers /\ base = [map EXCEPT ![m.id] = NoMessage]
        <5>1. m = stream["client"][1]
          BY <1>12 DEF m
        <5>. QED
          BY <1>3, <1>8, <3>1, <4>2, <5>1, MatchedAnswered
      <4>. QED
        BY <2>2, <4>1, <4>2
    <3>. QED
      BY <2>2, <2>4, <3>1, <3>2, MatchedExtended
  <2>. QED
    BY <1>7, <1>10, <1>12, <2>1, <2>3, <2>5
<1>. QED
  BY <1>4, <1>11, <1>12

-----------------------------------------------------------------------------
(***************************************************************************)
(* The steps.                                                              *)
(***************************************************************************)
LEMMA InvInit == Init => Inv
<1>. SUFFICES ASSUME Init PROVE Inv
  OBVIOUS
<1>1. /\ term = [e \in Ends |-> NewTerminal(IF e = "client" THEN Will ELSE NoWill)]
      /\ loop = [e \in Ends |-> IF e = "client" THEN "idle" ELSE "read"]
      /\ sock = "open" /\ stream = [e \in Ends |-> <<>>] /\ buff = [e \in Ends |-> <<>>]
      /\ calls = 0 /\ merged = FALSE /\ wrote = [e \in Ends |-> {}]
  BY DEF Init
<1>2. "client" \in Ends /\ "broker" \in Ends /\ \A e \in Ends : Other(e) \in Ends
  BY DEF Ends, Other
<1>3. EmptyMap \in Maps
  BY Identifiers DEF EmptyMap, Maps
<1>4. 0 \in GeneratorStates
  BY TerminalAssumption DEF GeneratorStates
<1>5. \A w \in {Will, NoWill} : NewTerminal(w) \in Terminals /\ NewTerminal(w).will = w
                                /\ NewTerminal(w).isConnecting = FALSE
  BY <1>3, <1>4 DEF NewTerminal, Terminals
<1>6. Typed
  <2>1. term \in [Ends -> Terminals] /\ term["client"].will = Will
    BY <1>1, <1>2, <1>5
  <2>2. /\ loop \in [Ends -> Errs \cup {"idle", "read"}]
        /\ sock \in {"open", "closed"} /\ (sock = "closed" <=> loop["broker"] \in {"idle", "CRASH"})
    BY <1>1, <1>2
  <2>3. /\ stream \in [Ends -> Seq(Messages)] /\ buff \in [Ends -> Bytes]
    BY <1>1, EmptySeq DEF Bytes
  <2>4. calls \in 0 .. MaxCalls /\ merged \in BOOLEAN
    <3>1. MaxCalls \in Nat
      BY LinkAssumption, Zenon
    <3>2. calls = 0 /\ merged = FALSE
      BY <1>1
    <3>3. calls \in 0 .. MaxCalls
      BY <3>1, <3>2
    <3>. QED
      BY <3>2, <3>3
  <2>5. wrote \in [Ends -> SUBSET Range(MessageType)]
    BY <1>1
  <2>. QED
    BY <2>1, <2>2, <2>3, <2>4, <2>5 DEF Typed
<1>7. \A e \in Ends : stream[e] = <<>> /\ Len(stream[e]) = 0 /\ buff[e] = <<>> /\ wrote[e] = {}
  BY <1>1
<1>8. Written
  BY <1>7 DEF Written
<1>9. Legible
  <2>1. LengthEnds(<<>>) # {}
    <3>1. \A i \in 1 .. 4 : ByteAt(<<>>, 1 + i) = 0
      BY DEF ByteAt
    <3>. QED
      BY <3>1 DEF LengthEnds
  <2>. QED
    BY <1>7, <2>1 DEF Legible
<1>10. Handshake
  <2>1. /\ ~term["client"].isConnecting /\ ~term["broker"].isConnecting
        /\ loop["broker"] = "read"
    BY <1>1, <1>2, <1>5
  <2>. QED
    BY <1>2, <1>7, <2>1 DEF Handshake, Unconnected, Silent
<1>11. Matching
  <2>1. \A id \in PacketIDs : At(stream["broker"], Asks, id) = {}
                              /\ At(stream["client"], Answers, id) = {}
    BY <1>2, <1>7 DEF At
  <2>2. \A id \in PacketIDs \ {0} :
          Matched(term["client"].packetIDMap, stream["broker"], stream["client"], id)
    BY <2>1 DEF Matched, Single
  <2>. QED
    BY <1>2, <1>7, <2>2 DEF Matching
<1>. QED
  BY <1>6, <1>8, <1>9, <1>10, <1>11 DEF Inv

LEMMA InvReads ==
    ASSUME Inv, NEW e \in Ends, NEW k \in 1 .. MaxMerged, ReadLoop(e, k)
    PROVE  Inv'
<1>1. k \in Nat
  BY LinkAssumption
<1>2. Typed /\ Written /\ Legible /\ Handshake /\ Matching
  BY DEF Inv
<1>3. PICK o : Took(e, k, o) /\ Yields(e, stream[e][1], o)
  BY <1>2, ReadYields
<1>4. Typed' /\ Written'
  BY <1>1, <1>2, <1>3, TookTyped, TookWritten
<1>5. Legible' /\ Handshake'
  BY <1>1, <1>2, <1>3, TookLegible, TookHandshake
<1>6. Matching'
  BY <1>1, <1>2, <1>3, TookMatching
<1>. QED
  BY <1>4, <1>5, <1>6 DEF Inv

\* What of the invariant only a message under way can break, for the client.
LEMMA WrittenMore ==
    ASSUME Typed, Written, NEW out \in Seq(Messages), Writes("client", out),
           stream' = [stream EXCEPT !["broker"] = stream["broker"] \o out]
    PROVE  /\ Written' /\ wrote' \in [Ends -> SUBSET Range(MessageType)]
           /\ stream' \in [Ends -> Seq(Messages)]
           /\ stream'["broker"] = stream["broker"] \o out /\ stream'["client"] = stream["client"]
           /\ Appended(stream["broker"], out, stream'["broker"])
           /\ wrote'["client"] = wrote["client"] \cup {out[i].type : i \in 1 .. Len(out)}
           /\ wrote'["broker"] = wrote["broker"]
<1>1. /\ stream \in [Ends -> Seq(Messages)] /\ wrote \in [Ends -> SUBSET Range(MessageType)]
  BY DEF Typed
<1>2. /\ "client" \in Ends /\ "broker" \in Ends /\ \A e \in Ends : e \in {"client", "broker"}
      /\ Other("client") = "broker" /\ Other("broker") = "client"
  BY DEF Ends, Other
<1>3. /\ wrote' \in [Ends -> SUBSET Range(MessageType)]
      /\ wrote'["client"] = wrote["client"] \cup {out[i].type : i \in 1 .. Len(out)}
      /\ wrote'["broker"] = wrote["broker"]
  BY <1>1, <1>2, WritesParts
<1>. DEFINE more == stream["broker"] \o out
<1>4. stream["broker"] \in Seq(Messages) /\ Appended(stream["broker"], out, more)
  BY <1>1, <1>2, AppendedOut
<1>5. more \in Seq(Messages)
  BY <1>4 DEF Appended
<1>. HIDE DEF more
<1>6. /\ stream' \in [Ends -> Seq(Messages)]
      /\ stream'["broker"] = more /\ stream'["client"] = stream["client"]
  BY <1>1, <1>2, <1>5 DEF more
<1>7. ASSUME NEW i \in 1 .. Len(more) PROVE more[i].type \in wrote'["client"]
  <2>1. PICK n \in Nat, l \in Nat : n = Len(stream["broker"]) /\ l = Len(out)
    BY <1>4, LenProperties
  <2>2. i \in 1 .. n + l /\ more[i] = IF i <= n THEN stream["broker"][i] ELSE out[i - n]
    BY <1>4, <2>1 DEF Appended
  <2>3. CASE i <= n
    <3>1. i \in 1 .. Len(stream["broker"])
      BY <2>1, <2>2, <2>3
    <3>2. stream["broker"][i].type \in wrote["client"]
      BY <1>2, <3>1 DEF Written
    <3>. QED
      BY <1>3, <2>2, <2>3, <3>2
  <2>4. CASE ~(i <= n)
    <3>1. i - n \in 1 .. l
      BY <2>2, <2>4
    <3>. QED
      BY <1>3, <2>1, <2>2, <2>4, <3>1
  <2>. QED
    BY <2>3, <2>4
<1>8. \A i \in 1 .. Len(stream'["client"]) : stream'["client"][i].type \in wrote'["broker"]
  BY <1>2, <1>3, <1>6 DEF Written
<1>9. Written'
  BY <1>2, <1>6, <1>7, <1>8 DEF Written
<1>. QED
  BY <1>3, <1>4, <1>6, <1>9 DEF more

LEMMA InvConnect ==
    ASSUME Inv, NEW c \in Connects, Connect(c)
    PROVE  Inv'
<1>. DEFINE m == ConnectMessage(0, ClientID, c.clean, Will, c.user)
<1>1. m \in Messages /\ m.type = "CONNECT"
  BY ConnectSent
<1>2. /\ Typed /\ Written /\ Legible /\ Handshake /\ Matching
      /\ term["client"].will = Will
  BY DEF Inv, Typed
<1>3. /\ loop["client"] = "idle" /\ ~term["client"].isConnecting
      /\ "CONNECT" \notin wrote["client"] /\ Writes("client", <<m>>)
      /\ loop' = [loop EXCEPT !["client"] = "read"]
      /\ stream' = [stream EXCEPT !["broker"] = Append(stream["broker"], m)]
      /\ UNCHANGED <<term, sock, buff, calls, merged>>
  BY <1>2 DEF Connect
<1>. HIDE DEF m
<1>4. PICK out \in Seq(Messages) : out = <<m>> /\ Len(out) = 1 /\ out[1] = m
  <2>1. <<m>> \in Seq(Messages) /\ Len(<<m>>) = 1 /\ <<m>>[1] = m
    BY <1>1
  <2>. QED
    BY <2>1, Zenon
<1>5. "client" \in Ends /\ "broker" \in Ends /\ "client" # "broker"
  BY DEF Ends
<1>6. /\ Unconnected
      /\ stream["broker"] = <<>> /\ stream["client"] = <<>>
  BY <1>2, <1>3 DEF Handshake, Unconnected, Silent, Connecting, Accepted, Open
<1>7. stream' = [stream EXCEPT !["broker"] = stream["broker"] \o out]
  <2>1. Append(stream["broker"], m) = stream["broker"] \o out
    BY <1>1, <1>4, <1>6
  <2>. QED
    BY <1>3, <2>1, Zenon
<1>8. /\ Written' /\ wrote' \in [Ends -> SUBSET Range(MessageType)]
      /\ stream' \in [Ends -> Seq(Messages)]
      /\ stream'["broker"] = stream["broker"] \o out /\ stream'["client"] = stream["client"]
      /\ wrote'["client"] = wrote["client"] \cup {out[i].type : i \in 1 .. Len(out)}
      /\ wrote'["broker"] = wrote["broker"]
  BY <1>2, <1>3, <1>4, <1>7, WrittenMore
<1>9. /\ stream'["broker"] = out /\ stream'["client"] = <<>>
      /\ wrote'["client"] = wrote["client"] \cup {"CONNECT"}
  BY <1>1, <1>4, <1>6, <1>8, ConcatEmptySeq
<1>10. loop'["broker"] = loop["broker"] /\ loop' \in [Ends -> Errs \cup {"idle", "read"}]
  BY <1>2, <1>3, <1>5 DEF Typed
<1>11. Typed'
  BY <1>2, <1>3, <1>8, <1>10 DEF Typed
<1>12. Legible'
  BY <1>2, <1>3 DEF Legible
<1>13. Handshake'
  <2>1. Connecting'
    BY <1>1, <1>3, <1>4, <1>6, <1>9, <1>10 DEF Unconnected, Connecting, Silent
  <2>. QED
    BY <2>1 DEF Handshake
<1>14. Matching'
  <2>1. ASSUME NEW id \in PacketIDs
        PROVE  /\ At(stream'["broker"], Asks, id) = {}
               /\ At(stream'["client"], Answers, id) = {}
    <3>1. m.type \notin Asks
      BY <1>1 DEF Asks
    <3>. QED
      BY <1>4, <1>9, <3>1 DEF At
  <2>2. \A id \in PacketIDs \ {0} :
          Matched(term'["client"].packetIDMap, stream'["broker"], stream'["client"], id)
    BY <2>1 DEF Matched, Single
  <2>3. Quiet' => Quiet
    BY <1>8 DEF Quiet
  <2>. QED
    BY <1>2, <1>8, <1>9, <2>2, <2>3 DEF Matching
<1>. QED
  BY <1>8, <1>11, <1>12, <1>13, <1>14 DEF Inv

LEMMA InvCall ==
    ASSUME Inv, Calling
    PROVE  Inv'
<1>. DEFINE t == term["client"]
<1>1. Typed /\ Written /\ Legible /\ Handshake /\ Matching
  BY DEF Inv
<1>2. /\ term \in [Ends -> Terminals] /\ t \in Terminals /\ t.will = Will
      /\ loop \in [Ends -> Errs \cup {"idle", "read"}]
      /\ stream \in [Ends -> Seq(Messages)] /\ calls \in 0 .. MaxCalls
  BY <1>1 DEF Typed, Ends
<1>3. PICK o : /\ Called(t, o)
               /\ loop["client"] \notin Fatal /\ calls < MaxCalls /\ calls' = calls + 1
               /\ term' = [term EXCEPT !["client"] = o.t]
               /\ loop' = IF o.err \in Fatal THEN [loop EXCEPT !["client"] = o.err] ELSE loop
               /\ stream' = [stream EXCEPT !["broker"] = stream["broker"] \o o.out]
               /\ Writes("client", o.out)
               /\ UNCHANGED <<sock, buff, merged>>
  BY <1>2, CallStep
<1>4. /\ o.t \in Terminals /\ o.err \in Errs /\ o.out \in Seq(Sent(Unprompted)) /\ Same(t, o.t)
      /\ Extends(t.packetIDMap, o.t.packetIDMap, o.out, Unprompted)
      /\ ~t.isConnecting => o.out = <<>>
  BY <1>3 DEF Called, Outcomes
<1>5. /\ o.out \in Seq(Messages) /\ o.out \in Seq(Sent(ClientTypes))
  <2>1. Sent(Unprompted) \subseteq Sent(ClientTypes)
    BY DEF Sent, Unprompted
  <2>. QED
    BY <1>4, <2>1, OwnMessages, SeqDef
<1>6. "client" \in Ends /\ "broker" \in Ends /\ "client" # "broker"
  BY DEF Ends
<1>7. /\ Written' /\ wrote' \in [Ends -> SUBSET Range(MessageType)]
      /\ stream' \in [Ends -> Seq(Messages)]
      /\ stream'["broker"] = stream["broker"] \o o.out /\ stream'["client"] = stream["client"]
      /\ Appended(stream["broker"], o.out, stream'["broker"])
      /\ wrote'["client"] = wrote["client"] \cup {o.out[i].type : i \in 1 .. Len(o.out)}
      /\ wrote'["broker"] = wrote["broker"]
  BY <1>1, <1>3, <1>5, WrittenMore
<1>8. /\ term' \in [Ends -> Terminals] /\ term'["client"] = o.t /\ term'["broker"] = term["broker"]
      /\ o.t.will = Will /\ o.t.isConnecting = t.isConnecting
  BY <1>2, <1>3, <1>4, <1>6 DEF Same
<1>9. loop'["broker"] = loop["broker"] /\ loop' \in [Ends -> Errs \cup {"idle", "read"}]
  BY <1>2, <1>3, <1>4, <1>6
<1>10. Typed'
  <2>1. MaxCalls \in Nat
    BY LinkAssumption, Zenon
  <2>2. calls' \in 0 .. MaxCalls
    BY <1>2, <1>3, <2>1
  <2>. QED
    BY <1>1, <1>3, <1>7, <1>8, <1>9, <2>2 DEF Typed
<1>11. Legible'
  BY <1>1, <1>3 DEF Legible
<1>12. Handshake'
  <2>1. wrote["client"] \subseteq wrote'["client"]
    BY <1>7
  <2>2. CASE t.isConnecting
    <3>1. Open
      BY <1>1, <2>2 DEF Handshake, Unconnected, Connecting, Accepted, Silent
    <3>2. stream'["broker"] \in Seq(Sent(ClientTypes))
      BY <1>5, <1>7, <3>1, ConcatProperties DEF Open
    <3>. QED
      BY <1>7, <1>8, <1>9, <2>1, <3>1, <3>2 DEF Open, Handshake
  <2>3. CASE ~t.isConnecting
    <3>1. o.out = <<>> /\ Len(o.out) = 0
      BY <1>4, <2>3
    <3>2. /\ wrote'["client"] = wrote["client"]
          /\ stream'["broker"] = stream["broker"]
      <4>1. stream["broker"] \in Seq(Messages)
        BY <1>2, <1>6
      <4>2. stream["broker"] \o <<>> = stream["broker"]
        BY <4>1, ConcatEmptySeq
      <4>. QED
        BY <1>7, <3>1, <4>2
    <3>3. /\ term'["client"].isConnecting = t.isConnecting /\ buff' = buff
      BY <1>3, <1>8
    <3>4. Unconnected => Unconnected'
      BY <1>7, <1>8, <1>9, <3>2, <3>3 DEF Unconnected, Silent
    <3>5. Connecting => Connecting'
      BY <1>7, <1>8, <1>9, <3>2, <3>3 DEF Connecting, Silent
    <3>6. Accepted => Accepted'
      BY <1>7, <1>8, <1>9, <3>2, <3>3 DEF Accepted
    <3>7. Open => Open'
      BY <1>7, <1>8, <1>9, <3>2, <3>3 DEF Open
    <3>. QED
      BY <1>1, <3>4, <3>5, <3>6, <3>7 DEF Handshake
  <2>. QED
    BY <2>2, <2>3
<1>13. Matching'
  <2>. SUFFICES ASSUME Quiet'
                PROVE  /\ "PUBREL" \notin wrote'["client"] /\ "PUBCOMP" \notin wrote'["broker"]
                       /\ \A id \in PacketIDs \ {0} :
                            Matched(o.t.packetIDMap, stream'["broker"], stream'["client"], id)
    BY <1>8 DEF Matching
  <2>1. Quiet
    BY <1>7 DEF Quiet
  <2>2. /\ "PUBREL" \notin wrote["client"] /\ "PUBCOMP" \notin wrote["broker"]
        /\ \A id \in PacketIDs \ {0} :
             Matched(t.packetIDMap, stream["broker"], stream["client"], id)
    BY <1>1, <2>1 DEF Matching
  <2>3. "PUBREL" \notin wrote'["client"]
    <3>1. \A i \in 1 .. Len(o.out) : o.out[i].type \in Unprompted
      BY <1>4, ExtendsTypes
    <3>2. "PUBREL" \notin Unprompted
      BY DEF Unprompted
    <3>. QED
      BY <1>7, <2>2, <3>1, <3>2
  <2>4. ASSUME NEW id \in PacketIDs \ {0}
        PROVE  Matched(o.t.packetIDMap, stream'["broker"], stream'["client"], id)
    <3>1. /\ stream["broker"] \in Seq(Messages) /\ stream["client"] \in Seq(Messages)
          /\ t.packetIDMap \in Maps
          /\ Matched(t.packetIDMap, stream["broker"], stream["client"], id)
      BY <1>2, <1>6, <2>2 DEF Terminals
    <3>2. Matched(o.t.packetIDMap, stream'["broker"], stream["client"], id)
      BY <1>4, <1>7, <3>1, MatchedExtended
    <3>. QED
      BY <1>7, <3>2
  <2>. QED
    BY <1>7, <2>2, <2>3, <2>4
<1>. QED
  BY <1>7, <1>10, <1>11, <1>12, <1>13 DEF Inv

LEMMA InvStutter ==
    ASSUME Inv, UNCHANGED vars
    PROVE  Inv'
<1>1. /\ term' = term /\ loop' = loop /\ sock' = sock /\ stream' = stream /\ buff' = buff
      /\ calls' = calls /\ merged' = merged /\ wrote' = wrote
  BY DEF vars
<1>2. Typed'
  BY <1>1 DEF Inv, Typed
<1>3. Written'
  BY <1>1 DEF Inv, Written
<1>4. Legible'
  BY <1>1 DEF Inv, Legible
<1>5. Handshake'
  BY <1>1 DEF Inv, Handshake, Unconnected, Connecting, Accepted, Open, Silent
<1>6. Matching'
  BY <1>1 DEF Inv, Matching, Quiet
<1>. QED
  BY <1>2, <1>3, <1>4, <1>5, <1>6 DEF Inv

LEMMA InvNext ==
    ASSUME Inv, [Next]_vars
    PROVE  Inv'
<1>1. ASSUME NEW e \in Ends, Reads(e) PROVE Inv'
  BY <1>1, InvReads DEF Reads
<1>2. ASSUME NEW c \in Connects, Connect(c) PROVE Inv'
  BY <1>2, InvConnect
<1>3. CASE Calling
  BY <1>3, InvCall
<1>4. CASE UNCHANGED vars
  BY <1>4, InvStutter
<1>. QED
  BY <1>1, <1>2, <1>3, <1>4 DEF Next, Calling

-----------------------------------------------------------------------------
(***************************************************************************)
(* The theorems.                                                           *)
(***************************************************************************)
\* Link's types, for every value of its constants, with what each message under
\* way and each end's map, buffer and socket may hold.
THEOREM LinkTyped == Spec => []TypeOK
<1>1. Inv /\ [Next]_vars => Inv'
  BY InvNext
<1>2. Inv => TypeOK
  <2>. SUFFICES ASSUME Inv PROVE TypeOK
    OBVIOUS
  <2>1. Typed
    BY DEF Inv
  <2>2. ASSUME NEW e \in Ends
        PROVE  /\ term[e].isConnecting \in BOOLEAN /\ term[e].mt \in GeneratorStates
               /\ term[e].packetIDMap \in [PacketIDs -> Kinds \cup {NoMessage}]
               /\ \A i \in DOMAIN buff[e] : buff[e][i] \in 0 .. 255
               /\ \A i \in DOMAIN stream[e] :
                    stream[e][i].type \in Range(MessageType) /\ stream[e][i].id \in PacketIDs
    <3>1. term[e] \in Terminals /\ buff[e] \in Bytes /\ stream[e] \in Seq(Messages)
      BY <2>1 DEF Typed
    <3>2. /\ term[e].isConnecting \in BOOLEAN /\ term[e].mt \in GeneratorStates
          /\ term[e].packetIDMap \in [PacketIDs -> Kinds \cup {NoMessage}]
      BY <3>1 DEF Terminals, Maps
    <3>3. \A i \in DOMAIN buff[e] : buff[e][i] \in 0 .. 255
      BY <3>1, BufferBytes DEF Byte
    <3>4. \A i \in DOMAIN stream[e] : stream[e][i] \in Messages
      BY <3>1, LenProperties, ElementOfSeq
    <3>. QED
      BY <3>2, <3>3, <3>4, MessageFields
  <2>. QED
    BY <2>1, <2>2 DEF Typed, TypeOK
<1>. QED
  BY <1>1, <1>2, InvInit, PTL DEF Spec

\* Whatever the lengths, the identifiers, the strings and the leftovers in the
\* buffers, what is read is what was sent, but for a message without a length
\* once a read has returned several messages.
THEOREM LinkReadAsSent == Spec => []ReadAsSent
<1>1. Inv /\ [Next]_vars => Inv'
  BY InvNext
<1>2. Inv => ReadAsSent
  <2>. SUFFICES ASSUME Inv, NEW e \in Ends, NEW k \in 1 .. Smaller(MaxMerged, Len(stream[e]))
                PROVE  LET m == Head(stream[e])
                           parsed == Parse(Read(e, k))
                       IN  IF parsed.err = "NO_ERROR" THEN Faithful(m, parsed.msg)
                           ELSE m.length = 0 /\ (merged \/ k > 1)
    BY DEF ReadAsSent
  <2>1. stream[e] \in Seq(Messages) /\ Len(stream[e]) \in Nat
    BY LenProperties DEF Inv, Typed
  <2>2. k \in 1 .. Len(stream[e])
    <3>1. MaxMerged \in Nat
      BY LinkAssumption, Zenon
    <3>. QED
      BY <2>1, <3>1 DEF Smaller
  <2>3. Head(stream[e]) = stream[e][1]
    BY <2>1, <2>2
  <2>. QED
    BY <2>2, <2>3, ReadMeets DEF Inv
<1>. QED
  BY <1>1, <1>2, InvInit, PTL DEF Spec

LEMMA ExtendsChanges ==
    ASSUME NEW base \in Maps, NEW map, NEW out, NEW types, Extends(base, map, out, types),
           NEW id \in PacketIDs, map[id] # base[id]
    PROVE  base[id] = NoMessage
<1>1. PICK x \in Sent(types) : base[x.id] = NoMessage /\ map = Kept(base, x)
  BY DEF Extends
<1>2. x.id \in PacketIDs /\ base \in [PacketIDs -> Kinds \cup {NoMessage}]
  BY <1>1, MessageFields DEF Sent, Maps
<1>3. x.id # id => map[id] = base[id]
  BY <1>1, <1>2 DEF Kept
<1>. QED
  BY <1>1, <1>3

\* What a step takes out of the client's map.
LEMMA MetByAnswer ==
    ASSUME Inv, [Next]_vars, NEW id \in PacketIDs, Waiting(id),
           term'["client"].packetIDMap[id] # term["client"].packetIDMap[id], Quiet
    PROVE  Head(stream["client"]).type = Answer[term["client"].packetIDMap[id]]
<1>. DEFINE map == term["client"].packetIDMap
            map2 == term'["client"].packetIDMap
            kind == map[id]
<1>1. Typed /\ Written /\ Legible /\ Handshake /\ Matching
  BY DEF Inv
<1>2. /\ term \in [Ends -> Terminals] /\ stream \in [Ends -> Seq(Messages)]
      /\ "client" \in Ends /\ "broker" \in Ends /\ \A e \in Ends : e \in {"client", "broker"}
  BY <1>1 DEF Typed, Ends
<1>3. map \in Maps /\ map \in [PacketIDs -> Kinds \cup {NoMessage}]
  BY <1>2 DEF Terminals, Maps
<1>4. kind \in {"SUBSCRIBE", "UNSUBSCRIBE"} /\ kind # NoMessage /\ id # 0
  <2>1. kind \in {"SUBSCRIBE", "UNSUBSCRIBE"}
    BY DEF Waiting
  <2>. QED
    BY <1>3, <2>1 DEF NoMessage, Maps
<1>. HIDE DEF kind
<1>5. ASSUME NEW e \in Ends, NEW k \in 1 .. MaxMerged, ReadLoop(e, k)
      PROVE  Head(stream["client"]).type = Answer[kind]
  <2>. DEFINE m == stream[e][1]
  <2>1. PICK o : Took(e, k, o) /\ Yields(e, m, o)
    BY <1>1, <1>5, ReadYields
  <2>2. term' = [term EXCEPT ![e] = o.t] /\ k \in 1 .. Len(stream[e])
    BY <2>1 DEF Took
  <2>3. e = "client"
    BY <1>2, <2>2
  <2>4. map2 = o.t.packetIDMap /\ Handled(m, map, o)
    BY <1>2, <2>1, <2>2, <2>3 DEF Yields
  <2>5. PICK base : /\ \/ base = map
                       \/ m.type \in Acks /\ base = [map EXCEPT ![m.id] = NoMessage]
                    /\ Extends(base, map2, o.out, Writable(m))
    BY <2>4 DEF Handled
  <2>6. Len(stream["client"]) \in Nat /\ Len(stream["client"]) >= 1 /\ stream["client"] \in Seq(Messages)
    BY <1>2, <2>2, <2>3, LenProperties
  <2>7. m = stream["client"][1] /\ m = Head(stream["client"]) /\ m \in Messages
    BY <2>3, <2>6, ElementOfSeq
  <2>. HIDE DEF m
  <2>8. m.type \in wrote["broker"] /\ m.id \in PacketIDs
    BY <1>1, <1>2, <2>6, <2>7, MessageFields DEF Written, Other
  <2>9. base # map
    BY <1>3, <1>4, <2>5, ExtendsChanges DEF kind
  <2>10. m.type \in Answers /\ base = [map EXCEPT ![m.id] = NoMessage]
    <3>1. m.type \notin {"PUBACK", "PUBREC", "PUBCOMP"}
      BY <1>1, <2>8 DEF Matching, Quiet
    <3>. QED
      BY <2>5, <2>9, <3>1 DEF Acks, Exchanged, Answers
  <2>11. base \in Maps
    BY <1>3, <2>8, <2>10, Remapped
  <2>12. m.id = id
    <3>1. m.id # id => base[id] = kind
      BY <1>3, <2>8, <2>10 DEF kind
    <3>. QED
      BY <1>4, <2>5, <2>11, <3>1, ExtendsChanges DEF kind
  <2>13. 1 \in At(stream["client"], Answers, id)
    BY <2>6, <2>7, <2>10, <2>12 DEF At
  <2>14. Matched(map, stream["broker"], stream["client"], id)
    BY <1>1, <1>4 DEF Matching
  <2>15. m.type = AnswerTo[kind]
    BY <2>7, <2>13, <2>14 DEF Matched, kind
  <2>16. AnswerTo[kind] = Answer[kind]
    BY <1>4 DEF AnswerTo, Answer
  <2>. QED
    BY <2>7, <2>15, <2>16
<1>6. ASSUME NEW e \in Ends, Reads(e) PROVE Head(stream["client"]).type = Answer[kind]
  BY <1>5, <1>6 DEF Reads
<1>7. ~Calling
  <2>. SUFFICES ASSUME Calling PROVE FALSE
    OBVIOUS
  <2>1. PICK o : Called(term["client"], o) /\ term' = [term EXCEPT !["client"] = o.t]
    BY <1>2, CallStep
  <2>2. Extends(map, map2, o.out, Unprompted)
    BY <1>2, <2>1 DEF Called
  <2>. QED
    BY <1>3, <1>4, <2>2, ExtendsChanges DEF kind
<1>8. ASSUME NEW c \in Connects PROVE ~Connect(c)
  BY DEF Connect
<1>9. ~(UNCHANGED vars)
  BY DEF vars
<1>. QED
  BY <1>6, <1>7, <1>8, <1>9 DEF Next, Calling, kind

\* A SUBSCRIBE or UNSUBSCRIBE leaves the client's map when its own answer is
\* read, however many there are, and by nothing else, as long as the broker
\* acknowledges no PUBLISH.
THEOREM LinkAnswers == Spec => AnswersMeetRequests
<1>. DEFINE Met == \A id \in PacketIDs :
                     LET kind == term["client"].packetIDMap[id]
                     IN  Waiting(id) /\ term'["client"].packetIDMap[id] # kind =>
                           \/ wrote["broker"] \cap {"PUBACK", "PUBREC"} # {}
                           \/ Head(stream["client"]).type = Answer[kind]
<1>1. Inv /\ [Next]_vars => Inv'
  BY InvNext
<1>2. Inv /\ [Next]_vars => [Met]_vars
  <2>. SUFFICES ASSUME Inv, [Next]_vars, NEW id \in PacketIDs, Waiting(id),
                       term'["client"].packetIDMap[id] # term["client"].packetIDMap[id], Quiet
                PROVE  Head(stream["client"]).type = Answer[term["client"].packetIDMap[id]]
    BY DEF Quiet
  <2>. QED
    BY MetByAnswer
<1>. QED
  BY <1>1, <1>2, InvInit, PTL DEF Spec, AnswersMeetRequests
=============================================================================
