-------------------------------- MODULE Link --------------------------------
(***************************************************************************)
(* A client and the session that the broker has for it, over the two       *)
(* streams of one TCP connection, with every message written and read byte *)
(* by byte (Frame).  A stream keeps the messages whose bytes are under     *)
(* way; read(2) returns those of the first, or of the first few together,  *)
(* of which readLoop sees the first only; and it lays them over what       *)
(* readBuff holds already.                                                 *)
(*                                                                         *)
(* Handlers and calls are atomic here; Client and Broker take them apart.  *)
(* There is no keep-alive, and no session of the client's name before.     *)
(***************************************************************************)
EXTENDS Frame, Terminal

CONSTANTS
    ClientID, Will,    \* of the client
    Connects,          \* calls of connect: [clean, user], the user or NoUser
    SubscribeLists,    \* the topics, with a QoS, of a call of subscribe; none
                       \* has wildcards, which TopicTree models
    UnsubscribeLists,  \* the topics of a call of unsubscribe, likewise
    Publishes,         \* calls of publish: [qos, topic, payload]
    Retained,          \* retained messages an earlier will has left at the
                       \* broker: [topic, qos, message], one for a topic
    MaxMerged,         \* bound on the messages that one read returns
    MaxCalls           \* bound on the calls but connect

ASSUME LinkAssumption ==
    /\ ClientID \in Short \ {<<>>} /\ Will \in Wills /\ Will # NoWill
    /\ Connects \subseteq [clean : BOOLEAN, user : {NoUser} \cup Users]
    /\ SubscribeLists \subseteq Seq(Wants) /\ UnsubscribeLists \subseteq Seq(Short)
    /\ \A ss \in SubscribeLists : \A i \in DOMAIN ss : Range(ss[i].topic) \cap {35, 43} = {}
    /\ \A ts \in UnsubscribeLists : \A i \in DOMAIN ts : Range(ts[i]) \cap {35, 43} = {}
    /\ Publishes \subseteq [qos : 0 .. 2, topic : Short, payload : Bytes]
    /\ Retained \subseteq [topic : Short, qos : 0 .. 2, message : Short]
    /\ \A r, s \in Retained : r.topic = s.topic => r = s
    /\ MaxMerged \in Nat \ {0} /\ MaxCalls \in Nat
    /\ MaxPacketID \in Uint16

\* No call asks for a message that is longer than a length can say;
\* RemainingLength is about those that are.  One longer than readBuff and
\* writeBuff, 64 KiB each, would be written past their ends: that is left out.
ASSUME LengthAssumption ==
    /\ \A topics \in SubscribeLists : SubscribeMessage(0, topics).length <= MaxLength
    /\ \A topics \in UnsubscribeLists : UnsubscribeMessage(0, topics).length <= MaxLength
    /\ \A p \in Publishes :
         PublishMessage(p.qos, FALSE, 0, p.topic, p.payload).length <= MaxLength

Ends == {"client", "broker"}
Other(e) == IF e = "client" THEN "broker" ELSE "client"

VARIABLES
    term,    \* each end's Terminal, with the session's subTopics; cleanSession
             \* is the session's
    loop,    \* each end's readLoop: "idle", "read", or what has ended it
    sock,    \* the session's socket; the client's stays open
    stream,  \* messages under way to each end
    buff,    \* what has been written of each end's readBuff
    calls,   \* how many there have been
    merged,  \* history: a read has returned more than one message
    wrote    \* history: the types of the messages each end has written

vars == <<term, loop, sock, stream, buff, calls, merged, wrote>>

NewTerminal(will) == [isConnecting |-> FALSE, cleanSession |-> FALSE, will |-> will,
                      packetIDMap |-> EmptyMap, mt |-> 0, subTopics |-> {}]

Init ==
    /\ term = [e \in Ends |-> NewTerminal(IF e = "client" THEN Will ELSE NoWill)]
    /\ loop = [e \in Ends |-> IF e = "client" THEN "idle" ELSE "read"]
    /\ sock = "open"
    /\ stream = [e \in Ends |-> <<>>] /\ buff = [e \in Ends |-> <<>>]
    /\ calls = 0
    /\ merged = FALSE /\ wrote = [e \in Ends |-> {}]

-----------------------------------------------------------------------------
(***************************************************************************)
(* A handler or a call, step by step: the terminal so far, the error of    *)
(* the last step, and what has been written.                               *)
(***************************************************************************)
Done(t, err) == [t |-> t, err |-> err, out |-> <<>>]
Fatal == {"SIGPIPE", "CRASH"}  \* what ends the process

LinkOf(e) == IF sock = "open" THEN "open" ELSE IF e = "broker" THEN "closed" ELSE "gone"

\* sendMessage, whatever the last step has returned.
Send(o, m, link) ==
    IF o.err \in Fatal THEN {o}
    ELSE { [t |-> s.t, err |-> s.err, out |-> IF s.wrote THEN Append(o.out, m) ELSE o.out] :
             s \in SendOutcomes(o.t, m, link) }

\* getUsablePacketID, and m sent under what it finds.
DrawAndSend(o, m, link) ==
    UNION { LET drawn == [o EXCEPT !.t = d.t, !.err = d.err]
            IN  IF d.err = "NO_ERROR" THEN Send(drawn, [m EXCEPT !.id = d.id], link) ELSE {drawn} :
              d \in DrawOutcomes(o.t) }

Smaller(m, n) == IF m < n THEN m ELSE n

\* checkQoSAndPublish, to the session itself.
CheckQoSAndPublish(o, published, requested, retain, topic, message, link) ==
    LET qos == Smaller(published, requested)
        m == PublishMessage(qos, retain, 0, topic, message)
    IN  IF qos > 0 THEN DrawAndSend(o, m, link) ELSE Send(o, m, link)

-----------------------------------------------------------------------------
(***************************************************************************)
(* Handlers.                                                               *)
(***************************************************************************)
\* Of a PUBLISH handled, and what becomes of it at either end.
Acknowledge(os, m, link) ==
    IF m.qos = 0
    THEN { IF m.id # 0 /\ o.err \notin Fatal THEN [o EXCEPT !.err = "PACKET_ID_SHOULD_BE_ZERO"]
           ELSE o : o \in os }
    ELSE UNION { Send(o, Ack(IF m.qos = 1 THEN "PUBACK" ELSE "PUBREC", m.id), link) : o \in os }

Exchanged == {"PUBACK", "PUBREC", "PUBREL", "PUBCOMP"}
Exchange(t, m, link) ==
    LET acked == Done(Acked(t, m.id), AckError(t, m.id))
    IN  CASE m.type = "PUBACK"  -> {IF m.id > 0 THEN acked ELSE Done(t, "NO_ERROR")}
          [] m.type = "PUBREC"  -> Send(acked, Ack("PUBREL", m.id), link)
          [] m.type = "PUBREL"  -> Send(acked, Ack("PUBCOMP", m.id), link)
          [] m.type = "PUBCOMP" -> {acked}

\* getString follows the pointers to will and user.
RecvConnect(t, m, link) ==
    IF m.body.will = Unset \/ m.body.user = Unset THEN {Done(t, "CRASH")}
    ELSE Send(Done([t EXCEPT !.will = m.body.will, !.cleanSession = m.body.clean,
                             !.isConnecting = TRUE], "NO_ERROR"), ConnackMessage(FALSE, 0), link)

\* Only this session subscribes here.  What a forwarding returns is lost, but
\* for QoS 0.
RecvPublish(t, m, link) ==
    LET subs == {s \in t.subTopics : s.topic = m.body.topic}
        forwarded == IF subs = {} THEN {Done(t, "NO_ERROR")}
                     ELSE UNION { CheckQoSAndPublish(Done(t, "NO_ERROR"), m.qos, s.qos, FALSE,
                                                     m.body.topic, m.body.payload, link) : s \in subs }
    IN  Acknowledge(forwarded, m, link)

\* A node's path ends in "/" unless its name is one letter long.
FullPath(topic) == IF Len(topic) = 1 THEN topic ELSE Append(topic, 47)

SubscribeTopic(o, s, link) ==
    LET subscribed == [o EXCEPT !.t.subTopics = {x \in @ : x.topic # s.topic} \cup {s}]
        kept == {r \in Retained : r.topic = s.topic}
    IN  IF o.err # "NO_ERROR" THEN {o}
        ELSE IF kept = {} THEN {subscribed}
        ELSE UNION { CheckQoSAndPublish(subscribed, r.qos, s.qos, TRUE, FullPath(r.topic),
                                        r.message, link) : r \in kept }

\* A retained message that cannot be sent ends the handler, without a SUBACK.
RecvSubscribe(t, m, link) ==
    LET after[i \in 0 .. Len(m.body)] ==
            IF i = 0 THEN {Done(t, "NO_ERROR")}
            ELSE UNION { SubscribeTopic(o, m.body[i], link) : o \in after[i - 1] }
        codes == [i \in DOMAIN m.body |-> m.body[i].qos]
    IN  UNION { IF o.err = "NO_ERROR" THEN Send(o, SubackMessage(m.id, codes), link) ELSE {o} :
                  o \in after[Len(m.body)] }

\* MUTANT of RecvUnsubscribe: only what was subscribed is answered.
RecvUnsubscribe_Subscribed(t, m, link) ==
    LET gone == {s \in t.subTopics : s.topic \in Range(m.body)}
    IN  IF gone = {} THEN {Done(t, "NO_ERROR")}
        ELSE Send(Done([t EXCEPT !.subTopics = @ \ gone], "NO_ERROR"), Ack("UNSUBACK", m.id), link)

RecvUnsubscribe(t, m, link) ==
    IF m.body = <<>> THEN {Done(t, "PROTOCOL_VIOLATION")}
    ELSE Send(Done([t EXCEPT !.subTopics = {s \in @ : s.topic \notin Range(m.body)}], "NO_ERROR"),
              Ack("UNSUBACK", m.id), link)

\* disconnectProcessing frees a clean session, which is used once more: the
\* program dies of it, or finds the memory as it was.
RecvDisconnect(t) ==
    {Done(Disconnected(t), "NO_ERROR")} \cup
    {Done(u, "CRASH") : u \in {u \in {t} : u.isConnecting /\ u.cleanSession}}

BrokerHandles(t, m, link) ==
    CASE m.type = "CONNECT"     -> RecvConnect(t, m, link)
      [] m.type = "PUBLISH"     -> RecvPublish(t, m, link)
      [] m.type \in Exchanged   -> Exchange(t, m, link)
      [] m.type = "SUBSCRIBE"   -> RecvSubscribe(t, m, link)
      [] m.type = "UNSUBSCRIBE" -> RecvUnsubscribe(t, m, link)
      [] m.type = "PINGREQ"     -> Send(Done(t, "NO_ERROR"), Bare("PINGRESP"), link)
      [] m.type = "DISCONNECT"  -> RecvDisconnect(t)
      [] OTHER                  -> {Done(t, "INVALID_MESSAGE_CAME")}

\* Without a keep-alive a PINGRESP is always late.
ClientHandles(t, m, link) ==
    CASE m.type = "CONNACK"   -> {Done([t EXCEPT !.isConnecting = TRUE], "NO_ERROR")}
      [] m.type = "PUBLISH"   -> Acknowledge({Done(t, "NO_ERROR")}, m, link)
      [] m.type \in Exchanged -> Exchange(t, m, link)
      [] m.type \in {"SUBACK", "UNSUBACK"} -> {Done(Acked(t, m.id), AckError(t, m.id))}
      [] m.type = "PINGRESP"  ->
            { IF o.err \in Fatal THEN o ELSE [o EXCEPT !.err = "SERVER_TIMED_OUT"] :
                o \in Send(Done(t, "NO_ERROR"), Bare("DISCONNECT"), link) }
      [] OTHER                -> {Done(t, "INVALID_MESSAGE_CAME")}

Handles(e, m) == IF e = "client" THEN ClientHandles(term[e], m, LinkOf(e))
                                 ELSE BrokerHandles(term[e], m, LinkOf(e))

-----------------------------------------------------------------------------
(***************************************************************************)
(* readLoop.                                                               *)
(***************************************************************************)
Overlay(bytes, old) == bytes \o SubSeq(old, Len(bytes) + 1, Len(old))

\* readBuff after a read of the first k messages.
Read(e, k) ==
    Overlay(FlattenSeq([i \in 1 .. k |-> Wire(stream[e][i])]), buff[e])

Writes(e, out) == wrote' = [wrote EXCEPT ![e] = @ \cup {out[i].type : i \in DOMAIN out}]

\* What parse leaves unset may be anything, and so may an identifier that is
\* none of the instance's.
Given(m) ==
    IF m.id \in PacketIDs THEN {m} ELSE {[m EXCEPT !.id = id] : id \in PacketIDs}

\* A parsed message, and the bytes after it, are handled or lost.
Handle(e, m, rest) ==
    \E given \in Given(m) : \E o \in Handles(e, given) :
        /\ term' = [term EXCEPT ![e] = o.t]
        /\ loop' = [loop EXCEPT ![e] = IF o.err # "NO_ERROR" THEN o.err
                                       ELSE IF o.t.isConnecting THEN "read" ELSE "idle"]
        /\ sock' = IF e = "broker" /\ (m.type = "DISCONNECT" \/ o.err = "CRASH")
                   THEN "closed" ELSE sock
        /\ stream' = [stream EXCEPT ![e] = rest, ![Other(e)] = @ \o o.out]
        /\ Writes(e, o.out)

CanRead(e) == loop[e] = "read" /\ stream[e] # <<>>

ReadLoop(e, k) ==
    LET rest == SubSeq(stream[e], k + 1, Len(stream[e]))
    IN  /\ CanRead(e) /\ k <= Len(stream[e])
        /\ merged' = (merged \/ k > 1)
        /\ UNCHANGED calls
        /\ \E bytes \in {Read(e, k)} : \E parsed \in {Parse(bytes)} :
             /\ buff' = [buff EXCEPT ![e] = bytes]
             /\ IF parsed.err = "NO_ERROR" THEN Handle(e, parsed.msg, rest)
                ELSE /\ loop' = [loop EXCEPT ![e] = parsed.err]
                     /\ stream' = [stream EXCEPT ![e] = rest]
                     /\ UNCHANGED <<term, sock, wrote>>

Reads(e) == \E k \in 1 .. MaxMerged : ReadLoop(e, k)

-----------------------------------------------------------------------------
(***************************************************************************)
(* Calls.                                                                  *)
(***************************************************************************)
\* The transport writes the CONNECT itself.
Connect(c) ==
    LET m == ConnectMessage(0, ClientID, c.clean, term["client"].will, c.user)
    IN  /\ loop["client"] = "idle" /\ ~term["client"].isConnecting
        /\ "CONNECT" \notin wrote["client"] /\ Writes("client", <<m>>)
        /\ loop' = [loop EXCEPT !["client"] = "read"]
        /\ stream' = [stream EXCEPT !["broker"] = Append(@, m)]
        /\ UNCHANGED <<term, sock, buff, calls, merged>>

Call(outcomes) ==
    /\ loop["client"] \notin Fatal
    /\ calls < MaxCalls /\ calls' = calls + 1
    /\ \E o \in outcomes :
         /\ term' = [term EXCEPT !["client"] = o.t]
         /\ loop' = IF o.err \in Fatal THEN [loop EXCEPT !["client"] = o.err] ELSE loop
         /\ stream' = [stream EXCEPT !["broker"] = @ \o o.out]
         /\ Writes("client", o.out)
    /\ UNCHANGED <<sock, buff, merged>>

Caller == Done(term["client"], "NO_ERROR")

Subscribe(topics) == Call(DrawAndSend(Caller, SubscribeMessage(0, topics), LinkOf("client")))
Unsubscribe(topics) == Call(DrawAndSend(Caller, UnsubscribeMessage(0, topics), LinkOf("client")))
Publish(p) ==
    LET m == PublishMessage(p.qos, FALSE, 0, p.topic, p.payload)
    IN  Call(IF p.qos > 0 THEN DrawAndSend(Caller, m, LinkOf("client"))
             ELSE Send(Caller, m, LinkOf("client")))
Ping == Call(Send(Caller, Bare("PINGREQ"), LinkOf("client")))

Next ==
    \/ \E e \in Ends : Reads(e)
    \/ \E c \in Connects : Connect(c)
    \/ \E topics \in SubscribeLists : Subscribe(topics)
    \/ \E topics \in UnsubscribeLists : Unsubscribe(topics)
    \/ \E p \in Publishes : Publish(p)
    \/ Ping

Spec == Init /\ [][Next]_vars

\* What has been written arrives, and a thread in read() runs on when it does:
\* WF_vars(Reads(e)), with ENABLED written out, as TLC is slow to evaluate it.
FairReads(e) == []<>~CanRead(e) \/ []<><<Reads(e)>>_vars
FairSpec == Spec /\ \A e \in Ends : FairReads(e)

-----------------------------------------------------------------------------
(***************************************************************************)
(* Properties.                                                             *)
(***************************************************************************)
\* Every variable keeps its type; what is under way has an identifier that a
\* packet can have; and the session's socket is closed exactly when its loop
\* has ended without an error, or its process.
TypeOK ==
    /\ \A e \in Ends :
         /\ term[e].isConnecting \in BOOLEAN /\ term[e].mt \in GeneratorStates
         /\ term[e].packetIDMap \in [PacketIDs -> Kinds \cup {NoMessage}]
         /\ \A i \in DOMAIN buff[e] : buff[e][i] \in 0 .. 255
         /\ \A i \in DOMAIN stream[e] :
              stream[e][i].type \in Range(MessageType) /\ stream[e][i].id \in PacketIDs
    /\ sock \in {"open", "closed"} /\ (sock = "closed" <=> loop["broker"] \in {"idle", "CRASH"})
    /\ calls \in 0 .. MaxCalls /\ merged \in BOOLEAN

\* Whatever the buffers have left of earlier messages, the first message of
\* every read reaches its handler as Faithful says.  Only one that has no
\* length, whose parser takes the next byte of the buffer for it, may be
\* refused instead; and only after a read has returned several messages.
ReadAsSent ==
    \A e \in Ends : \A k \in 1 .. Smaller(MaxMerged, Len(stream[e])) :
        loop[e] = "read" =>
            LET m == Head(stream[e])
                parsed == Parse(Read(e, k))
            IN  IF parsed.err = "NO_ERROR" THEN Faithful(m, parsed.msg)
                ELSE m.length = 0 /\ (merged \/ k > 1)

\* As long as the broker acknowledges no PUBLISH, for which it takes whatever
\* identifier its memory holds, a SUBSCRIBE or UNSUBSCRIBE leaves the client's
\* map when its own answer is read, and by nothing else.
Waiting(id) == term["client"].packetIDMap[id] \in {"SUBSCRIBE", "UNSUBSCRIBE"}
Answer == [SUBSCRIBE |-> "SUBACK", UNSUBSCRIBE |-> "UNSUBACK"]

AnswersMeetRequests ==
    [][\A id \in PacketIDs :
         LET kind == term["client"].packetIDMap[id]
         IN  Waiting(id) /\ term'["client"].packetIDMap[id] # kind =>
               \/ wrote["broker"] \cap {"PUBACK", "PUBREC"} # {}
               \/ Head(stream["client"]).type = Answer[kind]]_vars

\* As long as nothing is published or pinged and no read returns two messages,
\* every SUBSCRIBE and UNSUBSCRIBE that has gone out is answered.
Disturbed ==
    \/ merged
    \/ \E e \in Ends : wrote[e] \cap {"PUBLISH", "PINGREQ"} # {}

RequestsAnswered ==
    \A id \in PacketIDs : Waiting(id) ~> ~Waiting(id) \/ Disturbed

=============================================================================
