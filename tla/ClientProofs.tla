----------------------------- MODULE ClientProofs -----------------------------
(***************************************************************************)
(* Safety of Client, for every value of its constants: whatever the number *)
(* of threads that call, of connections and of packet identifiers.         *)
(***************************************************************************)
EXTENDS Client, TLAPS

-----------------------------------------------------------------------------
(***************************************************************************)
(* The types that make TypeOK inductive.                                   *)
(***************************************************************************)
Terms ==
    [isConnecting : BOOLEAN, cleanSession : BOOLEAN, will : {SomeWill, NoWill},
     keepAlive : KeepAlives, packetIDMap : [PacketIDs -> Kinds \cup {NoMessage}],
     mt : GeneratorStates]

MessageTypes ==
    Kinds \cup {"CONNECT", "PUBACK", "PUBCOMP", "PINGREQ", "PINGRESP", "DISCONNECT", "none"}

Messages ==
    [type : MessageTypes, id : PacketIDs, qos : 0 .. 2, topics : TopicLists \cup {<<>>}]

Written == [type : MessageTypes, id : PacketIDs, qos : 0 .. 2,
            topics : TopicLists \cup {<<>>}, conn : Conns]

Busy == {"check", "lookup", "load", "fill", "write", "store"}
OnTransport == {"fill", "write", "store", "close"}
Ops == [pc : Busy \cup {"idle", "leave", "unmark", "take", "close"}, msg : Messages,
        ct : 0 .. MaxConns]

Places == AtRest \cup {"dial", "connect", "greet", "handle", "pinging", "redeliver"}
SendPlaces == {"greet", "handle", "pinging"}

\* A descriptor is open on a connection only under the number that its transport
\* has; a transport keeps the number when the descriptor is closed.
FilesOK ==
    /\ sock \in [Conns -> Descriptors \cup {0}] /\ file \in [Descriptors -> 0 .. MaxConns]
    /\ \A c \in 1 .. conn : sock[c] \in Descriptors
    /\ \A n \in Descriptors : file[n] # 0 => file[n] \in 1 .. conn /\ sock[file[n]] = n

DataOK ==
    /\ status \in {"up", "sigpipe", "no_transport", "no_will"}
    /\ term \in Terms /\ (term.isConnecting => conn # 0)
    /\ conn \in 0 .. MaxConns
    /\ peer \in [Conns -> {"none", "open", "gone"}] /\ writeBuff \in [Conns -> Messages]
    /\ unanswered \subseteq Written

\* The thread of connect() is in sendMessage only where a handler or pingLoop
\* calls it, and never in disconnect(); it runs on a transport.
ThreadsOK ==
    /\ op \in [Threads -> Ops]
    /\ reader \in Places
    /\ op[Reader].pc \in Busy \cup {"idle"}
    /\ op[Reader].pc # "idle" <=> reader \in SendPlaces
    /\ \A th \in Threads : op[th].pc \in OnTransport => op[th].ct \in 1 .. conn
    /\ \A th \in Threads : op[th].pc \in {"lookup", "load"} => conn # 0
    /\ reader # "idle" => conn # 0

TypeInv == DataOK /\ FilesOK /\ ThreadsOK

LEMMA TypeInvImpliesTypeOK == TypeInv => TypeOK
BY DEF TypeInv, DataOK, FilesOK, ThreadsOK, TypeOK, Terms, Places, SendPlaces, OnTransport, Busy

LEMMA ZeroIsPacketID == 0 \in PacketIDs
BY TerminalAssumption DEF PacketIDs

-----------------------------------------------------------------------------
(***************************************************************************)
(* What the operations of Terminal do to the client's terminal.            *)
(***************************************************************************)
\* sendMessage's entry in the map.
LEMMA AfterWriteTerm ==
    ASSUME NEW t \in Terms, NEW m \in Messages
    PROVE  /\ AfterWrite(t, m) \in Terms
           /\ AfterWrite(t, m).isConnecting = t.isConnecting
           /\ AfterWrite(t, m).will = t.will /\ AfterWrite(t, m).keepAlive = t.keepAlive
           /\ AfterWrite(t, m).packetIDMap =
                IF Keeps(m) THEN [t.packetIDMap EXCEPT ![m.id] = m.type] ELSE t.packetIDMap
<1>1. CASE Keeps(m)
  <2>1. m.type \in Kinds /\ m.id \in PacketIDs
    BY <1>1 DEF Keeps, Messages
  <2>. QED
    BY <1>1, <2>1 DEF AfterWrite, Terms
<1>2. CASE ~Keeps(m)
  BY <1>2 DEF AfterWrite
<1>. QED
  BY <1>1, <1>2

\* ackMessage.
LEMMA AckedTerm ==
    ASSUME NEW t \in Terms, NEW id \in PacketIDs
    PROVE  /\ Acked(t, id) \in Terms
           /\ Acked(t, id).isConnecting = t.isConnecting
           /\ Acked(t, id).will = t.will /\ Acked(t, id).keepAlive = t.keepAlive
           /\ Acked(t, id).packetIDMap = [t.packetIDMap EXCEPT ![id] = NoMessage]
BY DEF Acked, Terms

\* disconnectBase.
LEMMA DisconnectedTerm ==
    ASSUME NEW t \in Terms
    PROVE  /\ Disconnected(t) \in Terms /\ ~Disconnected(t).isConnecting
           /\ Disconnected(t).keepAlive = t.keepAlive
           /\ Disconnected(t).packetIDMap = t.packetIDMap
           /\ ~t.isConnecting => Disconnected(t) = t
BY DEF Disconnected, Terms

\* getUsablePacketID moves the generator and changes nothing else.
LEMMA DrawTerm ==
    ASSUME NEW t \in Terms, NEW o \in DrawOutcomes(t)
    PROVE  o.id \in PacketIDs /\ \E s \in GeneratorStates : o.t = [t EXCEPT !.mt = s]
<1>1. t.mt \in Nat /\ Period \in Nat \ {0} /\ Trials \in Nat /\ MaxPacketID \in PacketIDs
  BY TerminalAssumption DEF Terms, GeneratorStates, PacketIDs
<1>2. ASSUME NEW n \in Nat
      PROVE  StateAfter(t, n) \in GeneratorStates /\ Drawn(t, n) \in PacketIDs
  <2>1. StateAfter(t, n) \in 0 .. Period - 1
    BY <1>1 DEF StateAfter
  <2>. QED
    BY <2>1, TerminalAssumption DEF GeneratorStates, Drawn
<1>3. CASE \E n \in 0 .. Trials - 1 :
             o = [t |-> [t EXCEPT !.mt = StateAfter(t, n + 1)],
                  id |-> Drawn(t, n), err |-> "NO_ERROR"]
  <2>1. PICK n \in 0 .. Trials - 1 :
             o = [t |-> [t EXCEPT !.mt = StateAfter(t, n + 1)],
                  id |-> Drawn(t, n), err |-> "NO_ERROR"]
    BY <1>3
  <2>2. n \in Nat /\ n + 1 \in Nat
    BY <1>1
  <2>3. StateAfter(t, n + 1) \in GeneratorStates /\ Drawn(t, n) \in PacketIDs
    BY <1>2, <2>2
  <2>. QED
    BY <2>1, <2>3
<1>4. CASE o = [t |-> [t EXCEPT !.mt = StateAfter(t, Trials)],
                id |-> MaxPacketID, err |-> "FAIL_TO_SET_PACKET_ID"]
  BY <1>1, <1>2, <1>4
<1>. QED
  BY <1>3, <1>4 DEF DrawOutcomes

-----------------------------------------------------------------------------
(***************************************************************************)
(* The calls.  Each draws an identifier, or none, and begins to send, or   *)
(* returns an error.                                                       *)
(***************************************************************************)
ACall ==
    \E th \in Callers :
        /\ status = "up" /\ op[th].pc = "idle"
        /\ \E s \in GeneratorStates : term' = [term EXCEPT !.mt = s]
        /\ op' = op \/ \E m \in Messages : StartSend(th, m)
        /\ UNCHANGED <<status, network, reader, unanswered, pubs, history>>

LEMMA NoDraw ==
    ASSUME TypeInv
    PROVE  \E s \in GeneratorStates : term = [term EXCEPT !.mt = s]
BY DEF TypeInv, DataOK, Terms

LEMMA DrawAndSendCalls ==
    ASSUME TypeInv, NEW th \in Callers, NEW m \in Messages, NEW err, Calls(th),
           DrawAndSend(th, m, err)
    PROVE  ACall
<1>1. PICK o \in DrawOutcomes(term) :
        /\ term' = o.t
        /\ op' = op \/ StartSend(th, [m EXCEPT !.id = o.id])
  BY DEF DrawAndSend
<1>2. o.id \in PacketIDs /\ \E s \in GeneratorStates : o.t = [term EXCEPT !.mt = s]
  BY DrawTerm DEF TypeInv, DataOK
<1>3. [m EXCEPT !.id = o.id] \in Messages
  BY <1>2 DEF Messages
<1>. QED
  BY <1>1, <1>2, <1>3 DEF ACall, Calls

\* publish, subscribe, unsubscribe, ping and disconnect.
LEMMA CallsAre ==
    ASSUME TypeInv, NEW th \in Callers,
           \/ \E qos \in QoSs : Publish(th, qos)
           \/ \E ts \in TopicLists : Subscribe(th, ts) \/ Unsubscribe(th, ts)
           \/ Ping(th) \/ Disconnect(th)
    PROVE  ACall
<1>1. ASSUME NEW qos \in QoSs, Publish(th, qos) PROVE ACall
  <2> DEFINE m == [Message("PUBLISH", 0) EXCEPT !.qos = qos]
  <2>1. m \in Messages
    BY ZeroIsPacketID, ClientAssumption DEF Message, Messages, MessageTypes, Kinds
  <2>2. CASE qos > 0
    BY <1>1, <2>1, <2>2, DrawAndSendCalls DEF Publish
  <2>3. CASE ~(qos > 0)
    BY <1>1, <2>1, <2>3, NoDraw DEF Publish, ACall, Calls
  <2>. QED
    BY <2>2, <2>3
<1>2. ASSUME NEW ts \in TopicLists, Subscribe(th, ts) PROVE ACall
  <2>1. [Message("SUBSCRIBE", 0) EXCEPT !.topics = ts] \in Messages
    BY ZeroIsPacketID DEF Message, Messages, MessageTypes, Kinds, Acknowledged
  <2>. QED
    BY <1>2, <2>1, DrawAndSendCalls DEF Subscribe
<1>3. ASSUME NEW ts \in TopicLists, Unsubscribe(th, ts) PROVE ACall
  <2>1. [Message("UNSUBSCRIBE", 0) EXCEPT !.topics = ts] \in Messages
    BY ZeroIsPacketID DEF Message, Messages, MessageTypes, Kinds, Acknowledged
  <2>2. CASE Refusable(ts)
    BY <1>3, <2>2, NoDraw DEF Unsubscribe, ACall, Calls
  <2>3. CASE ~Refusable(ts)
    BY <1>3, <2>1, <2>3, DrawAndSendCalls DEF Unsubscribe
  <2>. QED
    BY <2>2, <2>3
<1>4. CASE Ping(th)
  <2>1. Message("PINGREQ", 0) \in Messages
    BY ZeroIsPacketID DEF Message, Messages, MessageTypes
  <2>. QED
    BY <1>4, <2>1, NoDraw DEF Ping, ACall, Calls
<1>5. CASE Disconnect(th)
  <2>1. Message("DISCONNECT", 0) \in Messages
    BY ZeroIsPacketID DEF Message, Messages, MessageTypes
  <2>. QED
    BY <1>5, <2>1, NoDraw DEF Disconnect, ACall, Calls
<1>. QED
  BY <1>1, <1>2, <1>3, <1>4, <1>5

-----------------------------------------------------------------------------
(***************************************************************************)
(* The thread of connect(), between the messages it sends: it reads one,   *)
(* handles it, waits in pingLoop or redelivers.  What all those steps have *)
(* in common is enough for every invariant below.                          *)
(***************************************************************************)
\* Nothing is answered, and a kept PUBLISH may become its own duplicate; or
\* the answer to r is read, and what was kept as r is deleted.
Answered ==
    \/ /\ unanswered' = unanswered
       /\ \A id \in PacketIDs :
            \/ term'.packetIDMap[id] = term.packetIDMap[id]
            \/ term.packetIDMap[id] = "PUBLISH" /\ term'.packetIDMap[id] = "DUP"
    \/ \E r \in unanswered :
         /\ reader = "blocked" /\ r.conn = conn
         /\ unanswered' = unanswered \ {r}
         /\ \A id \in PacketIDs :
              \/ term'.packetIDMap[id] = term.packetIDMap[id]
              \/ id = r.id /\ r.type \in Kinds /\ term'.packetIDMap[id] = NoMessage

Between == {"read", "blocked", "ping", "redeliver"}

Listens ==
    /\ status = "up" /\ reader \in Between
    /\ UNCHANGED <<status, conn, sock, peer, writeBuff, left>>
    /\ file' = file \/ file' = [file EXCEPT ![sock[conn]] = 0]
    /\ term' \in Terms /\ term'.will = term.will /\ term'.keepAlive = term.keepAlive
    /\ \/ op' = op /\ reader' \in Between \cup {"idle"}
       \/ \E m \in Messages :
            /\ StartSend(Reader, m)
            /\ \/ reader = "blocked" /\ reader' = "handle"
               \/ reader = "ping" /\ reader' = "pinging" /\ m.type = "PINGRESP"
    /\ Answered
    /\ reader # "blocked" => UNCHANGED <<unanswered, pubs, greeted>>
    /\ races \subseteq races'
    /\ term'.isConnecting =>
         term.isConnecting \/ "connack" \in races' \/ \A th \in Threads : op[th].pc # "unmark"
    /\ greeted' => greeted \/ term.keepAlive = 0 \/ reader' = "ping"
    /\ reader = "ping" => /\ term'.isConnecting = term.isConnecting
                          /\ reader' = IF term.isConnecting THEN "pinging" ELSE "redeliver"
    /\ reader = "redeliver" => /\ term'.isConnecting = term.isConnecting
                               /\ reader' = "idle" \/ (reader' = "read" /\ term.isConnecting)

\* A handler, once it has done t to the terminal, returns or goes on to send.
LEMMA HandlerListens ==
    ASSUME TypeInv, NEW t \in Terms, NEW err, NEW m \in Messages,
           status = "up", reader = "blocked" \/ (reader = "redeliver" /\ UNCHANGED <<unanswered, pubs>>),
           UNCHANGED <<status, network>>,
           t.isConnecting = term.isConnecting, t.will = term.will, t.keepAlive = term.keepAlive,
           Handled(t, err) \/ (reader = "blocked" /\ Replies(t, m)), Answered
    PROVE  Listens
<1>1. term' = t /\ UNCHANGED history
  BY DEF Handled, Replies
<1>2. \/ /\ op' = op /\ reader' \in {"read", "idle"} /\ (reader' = "read" => t.isConnecting)
      \/ reader = "blocked" /\ StartSend(Reader, m) /\ reader' = "handle"
  BY DEF Handled, Replies, LoopTest
<1>. QED
  BY <1>1, <1>2 DEF Listens, Between, network, history

\* Any handler but recvConnackMessage of an answer to r.
LEMMA AnswerListens ==
    ASSUME TypeInv, NEW r \in unanswered, NEW t \in Terms, NEW err, NEW m \in Messages,
           r.conn = conn, RecvAnswer(r), t = term \/ (r.type \in Kinds /\ t = Acked(term, r.id)),
           Handled(t, err) \/ Replies(t, m)
    PROVE  Listens
<1>1. term \in Terms /\ r.id \in PacketIDs
  BY DEF TypeInv, DataOK, Written
<1>2. term' = t
  BY DEF Handled, Replies
<1>3. /\ t.isConnecting = term.isConnecting /\ t.will = term.will
      /\ t.keepAlive = term.keepAlive
      /\ \A id \in PacketIDs :
           \/ t.packetIDMap[id] = term.packetIDMap[id]
           \/ id = r.id /\ r.type \in Kinds /\ t.packetIDMap[id] = NoMessage
  <2>1. CASE t = term
    BY <2>1
  <2>2. CASE r.type \in Kinds /\ t = Acked(term, r.id)
    <3>1. t.packetIDMap = [term.packetIDMap EXCEPT ![r.id] = NoMessage]
      BY <1>1, <2>2, AckedTerm
    <3>2. term.packetIDMap \in [PacketIDs -> Kinds \cup {NoMessage}]
      BY <1>1 DEF Terms
    <3>3. \A id \in PacketIDs :
            \/ t.packetIDMap[id] = term.packetIDMap[id]
            \/ id = r.id /\ r.type \in Kinds /\ t.packetIDMap[id] = NoMessage
      BY <3>1, <3>2, <2>2
    <3>. QED
      BY <1>1, <2>2, <3>3, AckedTerm
  <2>. QED
    BY <2>1, <2>2
<1>4. /\ reader = "blocked" /\ status = "up"
      /\ unanswered' = unanswered \ {r} /\ UNCHANGED <<status, network>>
  BY DEF RecvAnswer, Reads
<1>5. Answered
  BY <1>2, <1>3, <1>4 DEF Answered
<1>. QED
  BY <1>3, <1>4, <1>5, HandlerListens

LEMMA ReplyMessages ==
    ASSUME NEW id \in PacketIDs, NEW type \in {"PUBACK", "PUBREC", "PUBREL", "PUBCOMP", "DISCONNECT"}
    PROVE  Message(type, id) \in Messages
BY DEF Message, Messages, MessageTypes, Kinds, Acknowledged

LEMMA ConnackListens ==
    ASSUME TypeInv, NEW r \in Answers({"CONNECT"}), RecvConnack(r)
    PROVE  Listens
<1>0. term \in Terms
  BY DEF TypeInv, DataOK
<1>1. r \in unanswered /\ r.conn = conn
  BY DEF Answers
<1>. DEFINE late == \E th \in Threads : op[th].pc = "unmark"
<1>2. /\ term' = [term EXCEPT !.isConnecting = TRUE] /\ UNCHANGED <<op, left>>
      /\ reader' = IF term.keepAlive # 0 THEN "ping" ELSE "redeliver"
      /\ reader = "blocked" /\ status = "up"
      /\ races' = races \cup (IF late THEN {"connack"} ELSE {})
      /\ unanswered' = unanswered \ {r} /\ UNCHANGED <<status, network>>
  BY DEF RecvConnack, Greets, Race, RecvAnswer, Reads
<1>3. /\ term' \in Terms /\ term'.will = term.will /\ term'.keepAlive = term.keepAlive
      /\ term'.packetIDMap = term.packetIDMap
  BY <1>0, <1>2 DEF Terms
<1>4. Answered
  BY <1>1, <1>2, <1>3 DEF Answered
<1>5. races \subseteq races' /\ (late => "connack" \in races')
  BY <1>2
<1>. QED
  BY <1>2, <1>3, <1>4, <1>5 DEF Listens, Between, network

LEMMA ReceiveListens ==
    ASSUME TypeInv, Receive
    PROVE  Listens
<1>0. term \in Terms /\ term.keepAlive \in KeepAlives /\ 0 \in PacketIDs
  BY ZeroIsPacketID DEF TypeInv, DataOK, Terms
<1>. DEFINE goodbye == Message("DISCONNECT", 0)
<1>a. goodbye \in Messages
  BY ZeroIsPacketID, ReplyMessages
<1>b. \A r \in unanswered : r.id \in PacketIDs /\ Acked(term, r.id) \in Terms
  BY <1>0, AckedTerm DEF TypeInv, DataOK, Written
<1>. HIDE DEF goodbye
<1>2. ASSUME NEW r \in Answers({"PUBLISH"}), RecvPuback(r) \/ RecvPubrec(r) PROVE Listens
  <2>1. r \in unanswered /\ r.conn = conn /\ r.type \in Kinds
    BY <1>2 DEF Answers, Kinds
  <2>2. CASE RecvPuback(r)
    BY <1>0, <1>a, <1>b, <2>1, <2>2, AnswerListens DEF RecvPuback
  <2>3. CASE RecvPubrec(r)
    <3>1. Message("PUBREL", r.id) \in Messages
      BY <1>b, <2>1, ReplyMessages
    <3>. QED
      BY <1>b, <2>1, <2>3, <3>1, AnswerListens DEF RecvPubrec
  <2>. QED
    BY <1>2, <2>2, <2>3
<1>3. ASSUME NEW r \in Answers({"PUBREC"}), RecvPubrel(r) PROVE Listens
  <2>1. r \in unanswered /\ r.conn = conn /\ r.type \in Kinds
    BY <1>3 DEF Answers, Kinds, Acknowledged
  <2>2. Message("PUBCOMP", r.id) \in Messages
    BY <1>b, <2>1, ReplyMessages
  <2>. QED
    BY <1>b, <1>3, <2>1, <2>2, AnswerListens DEF RecvPubrel
<1>4. ASSUME NEW r \in Answers({"PUBREL", "SUBSCRIBE", "UNSUBSCRIBE"}), RecvAck(r) PROVE Listens
  <2>1. r \in unanswered /\ r.conn = conn /\ r.type \in Kinds
    BY <1>4 DEF Answers, Kinds, Acknowledged
  <2>. QED
    BY <1>a, <1>b, <1>4, <2>1, AnswerListens DEF RecvAck
<1>5. ASSUME NEW r \in Answers({"PINGREQ"}), NEW elapsed \in 0 .. term.keepAlive,
             RecvPingresp(r, elapsed)
      PROVE  Listens
  <2>1. r \in unanswered /\ r.conn = conn
    BY <1>5 DEF Answers
  <2>2. RecvAnswer(r) /\ (Handled(term, "NO_ERROR") \/ Replies(term, goodbye))
    BY <1>5 DEF RecvPingresp, goodbye
  <2>. QED
    BY <1>0, <1>a, <2>1, <2>2, AnswerListens
<1>6. ASSUME NEW qos \in QoSs, NEW id \in PacketIDs, RecvPublish(qos, id) PROVE Listens
  <2>1. qos \in 0 .. 2
    BY ClientAssumption
  <2>2. Message("PUBACK", id) \in Messages /\ Message("PUBREC", id) \in Messages
    BY ReplyMessages
  <2>3. PICK err \in {"NO_ERROR", "PACKET_ID_SHOULD_BE_ZERO"}, m \in Messages :
          Handled(term, err) \/ Replies(term, m)
    <3>1. CASE qos = 0
      <4>1. Handled(term, IF id # 0 THEN "PACKET_ID_SHOULD_BE_ZERO" ELSE "NO_ERROR")
        BY <1>6, <3>1 DEF RecvPublish
      <4>. QED
        BY <1>a, <4>1
    <3>2. CASE qos = 1
      BY <1>6, <2>2, <3>2 DEF RecvPublish
    <3>3. CASE qos = 2
      BY <1>6, <2>2, <3>3 DEF RecvPublish
    <3>. QED
      BY <2>1, <3>1, <3>2, <3>3
  <2>4. /\ status = "up" /\ reader = "blocked"
        /\ UNCHANGED <<status, network, unanswered>>
    BY <1>6 DEF RecvPublish, Reads
  <2>5. Answered
    BY <2>3, <2>4 DEF Answered, Handled, Replies
  <2>. QED
    BY <1>0, <2>3, <2>4, <2>5, HandlerListens
<1>7. CASE RecvInvalid
  <2>1. /\ status = "up" /\ reader = "blocked" /\ reader' = "idle"
        /\ UNCHANGED <<status, term, network, op, unanswered, history>>
    BY <1>7 DEF RecvInvalid, Reads
  <2>2. Answered
    BY <2>1 DEF Answered
  <2>. QED
    BY <1>0, <2>1, <2>2 DEF Listens, Between, network, history
<1>. QED
  BY <1>2, <1>3, <1>4, <1>5, <1>6, <1>7, ConnackListens DEF Receive

LEMMA RedeliveryListens ==
    ASSUME TypeInv, Redelivery
    PROVE  Listens
<1> DEFINE kept == {id \in PacketIDs : InUse(term, id)}
           first == CHOOSE id \in kept : \A i \in kept : id <= i
           kind == IF term.packetIDMap[first] = "PUBLISH" THEN "DUP" ELSE term.packetIDMap[first]
           marked == [term EXCEPT !.packetIDMap[first] = kind]
<1>0. term \in Terms /\ term.packetIDMap \in [PacketIDs -> Kinds \cup {NoMessage}]
  BY DEF TypeInv, DataOK, Terms
<1>a. Message("DISCONNECT", 0) \in Messages
  BY ZeroIsPacketID, ReplyMessages
<1>1. /\ status = "up" /\ reader = "redeliver"
      /\ UNCHANGED <<status, network, unanswered, pubs>>
  BY DEF Redelivery, Reads, bounds
<1>2. PICK err : Handled(term, err) \/ Handled(marked, err)
  BY DEF Redelivery
<1>. HIDE DEF first
<1>3. /\ marked \in Terms /\ marked.isConnecting = term.isConnecting
      /\ marked.will = term.will /\ marked.keepAlive = term.keepAlive
      /\ marked.packetIDMap = [term.packetIDMap EXCEPT ![first] = kind]
  <2>1. [term.packetIDMap EXCEPT ![first] = kind] \in [PacketIDs -> Kinds \cup {NoMessage}]
    <3>1. CASE first \in PacketIDs
      <4>1. kind \in Kinds \cup {NoMessage}
        BY <1>0, <3>1 DEF Kinds
      <4>. QED
        BY <1>0, <4>1
    <3>2. CASE first \notin PacketIDs
      BY <1>0, <3>2
    <3>. QED
      BY <3>1, <3>2
  <2>. QED
    BY <1>0, <2>1 DEF Terms
<1>4. \A id \in PacketIDs :
        \/ marked.packetIDMap[id] = term.packetIDMap[id]
        \/ term.packetIDMap[id] = "PUBLISH" /\ marked.packetIDMap[id] = "DUP"
  BY <1>0, <1>3
<1>. HIDE DEF marked, kind, kept
<1>5. Answered
  BY <1>1, <1>2, <1>4 DEF Answered, Handled
<1>. QED
  BY <1>0, <1>a, <1>1, <1>2, <1>3, <1>5, HandlerListens

LEMMA ClientSteps ==
    ASSUME TypeInv, [Next]_vars
    PROVE  \/ Listens \/ ACall \/ Dial \/ SendConnect \/ PeerLeaves \/ UNCHANGED vars
           \/ \E th \in Threads : Sends(th) \/ Leaves(th)
           \/ \E cs \in CleanFlags : Connect(cs)
<1>0. term \in Terms
  BY DEF TypeInv, DataOK
<1>1. CASE EnterRead
  <2>1. /\ status = "up" /\ reader = "read"
        /\ UNCHANGED <<status, term, network, op, unanswered, pubs, history>>
        /\ reader' \in {"idle", "blocked"}
    BY <1>1 DEF EnterRead, Reads, LoopTest, bounds
  <2>2. Answered
    BY <2>1 DEF Answered
  <2>. QED
    BY <1>0, <2>1, <2>2 DEF Listens, Between, network, history
<1>2. CASE PeerClosed
  <2>1. /\ status = "up" /\ reader = "blocked" /\ reader' = "idle"
        /\ UNCHANGED <<status, term, conn, sock, peer, writeBuff, op, unanswered, history>>
        /\ file' = file \/ file' = [file EXCEPT ![sock[conn]] = 0]
    BY <1>2 DEF PeerClosed, Reads, LoopTest
  <2>2. Answered
    BY <2>1 DEF Answered
  <2>. QED
    BY <1>0, <2>1, <2>2 DEF Listens, Between, history
<1>3. CASE SendPing
  <2>1. Message("PINGRESP", 0) \in Messages
    BY ZeroIsPacketID DEF Message, Messages, MessageTypes
  <2>2. /\ status = "up" /\ reader = "ping" /\ reader' = "pinging"
        /\ term.isConnecting /\ UNCHANGED <<status, term, network, unanswered, pubs, history>>
        /\ \E m \in Messages : StartSend(Reader, m) /\ m.type = "PINGRESP"
    <3>1. Message("PINGRESP", 0).type = "PINGRESP"
      BY DEF Message
    <3>. QED
      BY <1>3, <2>1, <3>1 DEF SendPing, Reads, bounds
  <2>3. Answered
    BY <2>2 DEF Answered
  <2>. QED
    BY <1>0, <2>2, <2>3 DEF Listens, Between, network, history
<1>4. CASE PingEnds
  <2>1. /\ status = "up" /\ reader = "ping" /\ reader' = "redeliver"
        /\ ~term.isConnecting /\ UNCHANGED <<status, term, network, op, unanswered, pubs, history>>
    BY <1>4 DEF PingEnds, Reads, bounds
  <2>2. Answered
    BY <2>1 DEF Answered
  <2>. QED
    BY <1>0, <2>1, <2>2 DEF Listens, Between, network, history
<1>5. CASE Call
  BY <1>5, CallsAre DEF Call
<1>6. CASE Proceed
  BY <1>1, <1>2, <1>3, <1>4, <1>6, RedeliveryListens DEF Proceed
<1>. QED
  BY <1>5, <1>6, ReceiveListens DEF Next

-----------------------------------------------------------------------------
(***************************************************************************)
(* Type correctness.                                                       *)
(***************************************************************************)
LEMMA IdleOps == Idle \in Ops /\ [Idle EXCEPT !.pc = "leave"] \in Ops
BY ZeroIsPacketID, ClientAssumption DEF Idle, Ops, Busy, Message, Messages, MessageTypes

LEMMA TypeInit == ASSUME Init PROVE TypeInv
<1>1. Message("none", 0) \in Messages
  BY ZeroIsPacketID DEF Message, Messages, MessageTypes
<1>2. EmptyMap \in [PacketIDs -> Kinds \cup {NoMessage}] /\ 0 \in GeneratorStates
  BY TerminalAssumption DEF EmptyMap, GeneratorStates
<1>3. DataOK
  <2>1. term \in Terms /\ ~term.isConnecting
    BY <1>2 DEF Init, Terms
  <2>2. conn \in 0 .. MaxConns /\ unanswered = {} /\ status = "up"
    BY ClientAssumption DEF Init
  <2>3. peer \in [Conns -> {"none", "open", "gone"}] /\ writeBuff \in [Conns -> Messages]
    BY <1>1 DEF Init
  <2>. QED
    BY <2>1, <2>2, <2>3 DEF DataOK
<1>4. FilesOK
  BY ClientAssumption DEF Init, FilesOK
<1>5. ThreadsOK
  <2>1. \A th \in Threads : op[th] = Idle
    BY DEF Init
  <2>2. op \in [Threads -> Ops]
    BY <2>1, IdleOps DEF Init
  <2>3. \A th \in Threads : op[th].pc = "idle"
    BY <2>1 DEF Idle
  <2>. QED
    BY <2>2, <2>3 DEF Init, ThreadsOK, Threads, Places, SendPlaces, OnTransport, AtRest, Busy
<1>. QED
  BY <1>3, <1>4, <1>5 DEF TypeInv

\* Where a step leaves the threads that puts o in the place of op[th].
LEMMA PlacesOK ==
    ASSUME TypeInv, NEW th \in Threads, NEW o \in Ops, op' = [op EXCEPT ![th] = o],
           conn' = conn, reader' \in Places, reader' # "idle" => conn # 0,
           IF th = Reader
           THEN o.pc \in Busy \cup {"idle"} /\ (o.pc # "idle" <=> reader' \in SendPlaces)
           ELSE reader' = reader,
           o.pc \in OnTransport => o.ct \in 1 .. conn, o.pc \in {"lookup", "load"} => conn # 0
    PROVE  ThreadsOK'
<1>1. op \in [Threads -> Ops] /\ Reader \in Threads
  BY DEF TypeInv, ThreadsOK, Threads
<1>2. \A u \in Threads : op'[u] = IF u = th THEN o ELSE op[u]
  BY <1>1
<1>3. op' \in [Threads -> Ops]
  BY <1>1
<1>4. /\ op'[Reader].pc \in Busy \cup {"idle"}
      /\ op'[Reader].pc # "idle" <=> reader' \in SendPlaces
  BY <1>1, <1>2 DEF TypeInv, ThreadsOK
<1>5. \A u \in Threads : op'[u].pc \in OnTransport => op'[u].ct \in 1 .. conn'
  BY <1>2 DEF TypeInv, ThreadsOK
<1>6. \A u \in Threads : op'[u].pc \in {"lookup", "load"} => conn' # 0
  BY <1>2 DEF TypeInv, ThreadsOK
<1>. QED
  BY <1>3, <1>4, <1>5, <1>6 DEF ThreadsOK

\* Where sendMessage's return leaves the threads.
LEMMA ReturnsOK ==
    ASSUME TypeInv, NEW th \in Threads, op[th].pc \in Busy, NEW t, NEW err,
           Returns(th, t, err), conn' = conn
    PROVE  /\ ThreadsOK'
           /\ th # Reader => reader' = reader
           /\ th = Reader => /\ reader' \in {"ping", "read", "idle"}
                             /\ op[th].msg.type = "PINGRESP" => reader' = "ping"
           /\ \E o \in {Idle, [Idle EXCEPT !.pc = "leave"]} : op' = [op EXCEPT ![th] = o]
           /\ \A u \in Threads : \/ op'[u].pc \in {"idle", "leave"}
                                 \/ u # th /\ op'[u] = op[u]
<1>1. PICK o \in {Idle, [Idle EXCEPT !.pc = "leave"]} :
        op' = [op EXCEPT ![th] = o] /\ (th = Reader => o = Idle)
  BY DEF Returns
<1>2. /\ th # Reader => reader' = reader
      /\ th = Reader => /\ reader' \in {"ping", "read", "idle"}
                        /\ op[th].msg.type = "PINGRESP" => reader' = "ping"
  BY DEF Returns, LoopTest
<1>3. o \in Ops /\ o.pc \in {"idle", "leave"} /\ (o = Idle => o.pc = "idle")
  BY IdleOps DEF Idle
<1>4. th = Reader => conn # 0
  BY DEF TypeInv, ThreadsOK, Busy, SendPlaces
<1>5. ThreadsOK'
  <2>1. reader' \in Places /\ (reader' # "idle" => conn # 0)
    BY <1>2, <1>4 DEF TypeInv, ThreadsOK, Places, AtRest
  <2>2. IF th = Reader THEN o.pc \in Busy \cup {"idle"} /\ (o.pc # "idle" <=> reader' \in SendPlaces)
        ELSE reader' = reader
    BY <1>1, <1>2, <1>3 DEF SendPlaces
  <2>. QED
    BY <1>1, <1>3, <2>1, <2>2, PlacesOK DEF OnTransport
<1>6. \A u \in Threads : op'[u].pc \in {"idle", "leave"} \/ (u # th /\ op'[u] = op[u])
  BY <1>1, <1>3 DEF TypeInv, ThreadsOK
<1>. QED
  BY <1>1, <1>2, <1>5, <1>6

\* A thread begins to send.
LEMMA StartOK ==
    ASSUME TypeInv, NEW th \in Threads, NEW m \in Messages, StartSend(th, m), conn' = conn,
           IF th = Reader THEN reader' \in {"handle", "pinging"} /\ conn # 0
           ELSE reader' = reader
    PROVE  ThreadsOK'
<1>. DEFINE o == InSend(m, "check", 0)
<1>1. o \in Ops /\ o.pc = "check"
  BY ClientAssumption DEF Ops, Busy, InSend
<1>2. op' = [op EXCEPT ![th] = o]
  BY DEF StartSend
<1>. HIDE DEF o
<1>3. reader' \in Places /\ (reader' # "idle" => conn # 0)
  BY DEF TypeInv, ThreadsOK, Places
<1>. QED
  BY <1>1, <1>2, <1>3, PlacesOK DEF Busy, SendPlaces, OnTransport

\* A thread goes on.
LEMMA GoesOK ==
    ASSUME TypeInv, NEW th \in Threads, op[th].pc # "idle", NEW o \in Ops,
           op' = [op EXCEPT ![th] = o], UNCHANGED <<reader, conn>>,
           th = Reader => o.pc \in Busy,
           o.pc \in OnTransport => o.ct \in 1 .. conn, o.pc \in {"lookup", "load"} => conn # 0
    PROVE  ThreadsOK'
<1>1. reader' \in Places /\ (reader' # "idle" => conn # 0)
  BY DEF TypeInv, ThreadsOK
<1>2. th = Reader => o.pc # "idle" /\ reader' \in SendPlaces
  BY DEF TypeInv, ThreadsOK, Busy
<1>. QED
  BY <1>1, <1>2, PlacesOK

\* What a thread has in sendMessage, further on.
LEMMA GoesOps ==
    ASSUME TypeInv, NEW th \in Threads, NEW pc \in Busy \cup {"unmark", "take", "close"},
           NEW c \in 0 .. MaxConns
    PROVE  /\ [op[th] EXCEPT !.pc = pc] \in Ops /\ [op[th] EXCEPT !.pc = pc, !.ct = c] \in Ops
           /\ [op[th] EXCEPT !.pc = pc].pc = pc /\ [op[th] EXCEPT !.pc = pc, !.ct = c].pc = pc
           /\ [op[th] EXCEPT !.pc = pc].msg = op[th].msg
           /\ [op[th] EXCEPT !.pc = pc].ct = op[th].ct
           /\ [op[th] EXCEPT !.pc = pc, !.ct = c].msg = op[th].msg
           /\ [op[th] EXCEPT !.pc = pc, !.ct = c].ct = c
BY DEF TypeInv, ThreadsOK, Ops

\* The descriptor of a transport, as write(2) and close(2) find it.
LEMMA OnDescriptor ==
    ASSUME TypeInv, NEW c \in 1 .. conn
    PROVE  /\ c \in Conns /\ sock[c] \in Descriptors
           /\ Link(c) # "closed" => file[sock[c]] \in Conns
<1>1. conn \in 0 .. MaxConns /\ MaxConns \in Nat
  BY ClientAssumption DEF TypeInv, DataOK
<1>2. sock[c] \in Descriptors
  BY DEF TypeInv, FilesOK
<1>3. file[sock[c]] # 0 => file[sock[c]] \in 1 .. conn
  BY <1>2 DEF TypeInv, FilesOK
<1>. QED
  BY <1>1, <1>2, <1>3 DEF Conns, Link

LEMMA ClosesFiles ==
    ASSUME TypeInv, NEW n, file' = file \/ file' = [file EXCEPT ![n] = 0], UNCHANGED <<sock, conn>>
    PROVE  FilesOK'
<1>1. file \in [Descriptors -> 0 .. MaxConns] /\ 0 \in 0 .. MaxConns
  BY ClientAssumption DEF TypeInv, FilesOK
<1>2. file' \in [Descriptors -> 0 .. MaxConns]
  BY <1>1
<1>3. \A k \in Descriptors : file'[k] # 0 => file'[k] = file[k]
  BY <1>1
<1>. QED
  BY <1>2, <1>3 DEF TypeInv, FilesOK

\* sendMessage, step by step.
LEMMA SendsOK ==
    ASSUME TypeInv, NEW th \in Threads, Sends(th)
    PROVE  TypeInv'
<1>0. /\ term \in Terms /\ op \in [Threads -> Ops] /\ op[th] \in Ops /\ op[th].msg \in Messages
      /\ conn \in 0 .. MaxConns /\ MaxConns \in Nat
  BY ClientAssumption DEF TypeInv, DataOK, ThreadsOK, Ops
<1>1. CASE Check(th)
  <2>1. /\ op[th].pc = "check" /\ UNCHANGED <<status, term, network, unanswered>>
        /\ \/ /\ op' = [op EXCEPT ![th].pc = "lookup"] /\ UNCHANGED reader
              /\ term.isConnecting
           \/ \E err : Returns(th, term, err)
    BY <1>1 DEF Check, Sending, Goes
  <2>2. DataOK' /\ FilesOK' /\ conn' = conn
    BY <2>1 DEF TypeInv, DataOK, FilesOK, network
  <2>3. CASE /\ op' = [op EXCEPT ![th].pc = "lookup"] /\ UNCHANGED reader
             /\ term.isConnecting
    <3>. DEFINE o == [op[th] EXCEPT !.pc = "lookup"]
    <3>1. o \in Ops /\ o.pc = "lookup" /\ op' = [op EXCEPT ![th] = o]
      BY <1>0, <2>3, GoesOps DEF Busy
    <3>. HIDE DEF o
    <3>2. conn # 0
      BY <2>3 DEF TypeInv, DataOK
    <3>. QED
      BY <2>1, <2>2, <2>3, <3>1, <3>2, GoesOK DEF TypeInv, Busy, OnTransport
  <2>4. CASE \E err : Returns(th, term, err)
    BY <2>1, <2>2, <2>4, ReturnsOK DEF TypeInv, Busy
  <2>. QED
    BY <2>1, <2>3, <2>4
<1>2. CASE Lookup(th)
  <2>1. /\ op[th].pc = "lookup" /\ UNCHANGED <<status, term, network, unanswered>>
        /\ \/ op' = [op EXCEPT ![th].pc = "load"] /\ UNCHANGED reader
           \/ \E err : Returns(th, term, err)
    BY <1>2 DEF Lookup, Sending, Goes
  <2>2. DataOK' /\ FilesOK' /\ conn' = conn
    BY <2>1 DEF TypeInv, DataOK, FilesOK, network
  <2>3. CASE op' = [op EXCEPT ![th].pc = "load"] /\ UNCHANGED reader
    <3>. DEFINE o == [op[th] EXCEPT !.pc = "load"]
    <3>1. o \in Ops /\ o.pc = "load" /\ op' = [op EXCEPT ![th] = o]
      BY <1>0, <2>3, GoesOps DEF Busy
    <3>. HIDE DEF o
    <3>2. conn # 0
      BY <2>1 DEF TypeInv, ThreadsOK
    <3>. QED
      BY <2>1, <2>2, <2>3, <3>1, <3>2, GoesOK DEF TypeInv, Busy, OnTransport
  <2>4. CASE \E err : Returns(th, term, err)
    BY <2>1, <2>2, <2>4, ReturnsOK DEF TypeInv, Busy
  <2>. QED
    BY <2>1, <2>3, <2>4
<1>3. CASE Load(th)
  <2>1. /\ op[th].pc = "load" /\ UNCHANGED <<status, term, network, unanswered, reader>>
        /\ op' = [op EXCEPT ![th].pc = "fill", ![th].ct = conn]
    BY <1>3 DEF Load, Sending
  <2>2. DataOK' /\ FilesOK' /\ conn' = conn
    BY <2>1 DEF TypeInv, DataOK, FilesOK, network
  <2>. DEFINE o == [op[th] EXCEPT !.pc = "fill", !.ct = conn]
  <2>3. o \in Ops /\ o.pc = "fill" /\ o.ct = conn
    BY <1>0 DEF Ops, Busy
  <2>4. op' = [op EXCEPT ![th] = o]
    BY <1>0, <2>1
  <2>. HIDE DEF o
  <2>5. conn \in 1 .. conn
    BY <1>0, <2>1 DEF TypeInv, ThreadsOK
  <2>. QED
    BY <2>1, <2>2, <2>3, <2>4, <2>5, GoesOK DEF TypeInv, Busy
<1>4. CASE Fill(th)
  <2>1. /\ op[th].pc = "fill" /\ writeBuff' = [writeBuff EXCEPT ![op[th].ct] = op[th].msg]
        /\ op' = [op EXCEPT ![th].pc = "write"]
        /\ UNCHANGED <<status, term, conn, sock, file, peer, reader, unanswered>>
    BY <1>4 DEF Fill, Sending, Goes
  <2>2. DataOK' /\ FilesOK'
    <3>1. writeBuff' \in [Conns -> Messages]
      BY <1>0, <2>1 DEF TypeInv, DataOK
    <3>. QED
      BY <2>1, <3>1 DEF TypeInv, DataOK, FilesOK
  <2>. DEFINE o == [op[th] EXCEPT !.pc = "write"]
  <2>3. o \in Ops /\ o.pc = "write" /\ o.ct = op[th].ct /\ op' = [op EXCEPT ![th] = o]
    BY <1>0, <2>1 DEF Ops, Busy
  <2>. HIDE DEF o
  <2>4. o.ct \in 1 .. conn
    BY <2>1, <2>3 DEF TypeInv, ThreadsOK, OnTransport
  <2>. QED
    BY <2>1, <2>2, <2>3, <2>4, GoesOK DEF TypeInv, Busy
<1>5. CASE Write(th)
  <2>. DEFINE c == op[th].ct
              on == file[sock[c]]
  <2>1. op[th].pc = "write" /\ c \in 1 .. conn
    BY <1>0, <1>5 DEF Write, Sending, TypeInv, ThreadsOK, OnTransport
  <2>2. \/ Dies("sigpipe")
        \/ /\ unanswered' = Put(writeBuff[c], on) /\ op' = [op EXCEPT ![th].pc = "store"]
           /\ Link(c) # "closed" /\ UNCHANGED <<status, term, network, reader>>
        \/ /\ \E err : Returns(th, term, err)
           /\ UNCHANGED <<status, term, network, unanswered>>
    <3>1. "NO_ERROR" \in Results(c) => Link(c) # "closed"
      BY DEF Results, WriteResults
    <3>. QED
      BY <1>5, <3>1 DEF Write, Goes
  <2>3. c \in Conns /\ (Link(c) # "closed" => on \in Conns)
    BY <2>1, OnDescriptor
  <2>. HIDE DEF c, on
  <2>4. CASE Dies("sigpipe")
    BY <2>4 DEF Dies, TypeInv, DataOK, FilesOK, ThreadsOK, network
  <2>5. CASE /\ unanswered' = Put(writeBuff[c], on) /\ op' = [op EXCEPT ![th].pc = "store"]
             /\ Link(c) # "closed" /\ UNCHANGED <<status, term, network, reader>>
    <3>1. writeBuff[c] \in Messages /\ on \in Conns
      BY <2>3, <2>5 DEF TypeInv, DataOK
    <3>2. Request(writeBuff[c], on) \in Written
      BY <3>1 DEF Request, Written, Messages
    <3>3. unanswered' \subseteq Written
      BY <2>5, <3>2 DEF Put, TypeInv, DataOK
    <3>4. DataOK' /\ FilesOK' /\ conn' = conn
      BY <2>5, <3>3 DEF TypeInv, DataOK, FilesOK, network
    <3>. DEFINE o == [op[th] EXCEPT !.pc = "store"]
    <3>5. o \in Ops /\ o.pc = "store" /\ o.ct = op[th].ct /\ op' = [op EXCEPT ![th] = o]
      BY <1>0, <2>5, GoesOps DEF Busy
    <3>. HIDE DEF o
    <3>6. o.ct \in 1 .. conn
      BY <2>1, <3>5 DEF c
    <3>. QED
      BY <2>1, <2>5, <3>4, <3>5, <3>6, GoesOK DEF TypeInv, Busy
  <2>6. CASE /\ \E err : Returns(th, term, err)
             /\ UNCHANGED <<status, term, network, unanswered>>
    <3>1. DataOK' /\ FilesOK' /\ conn' = conn
      BY <2>6 DEF TypeInv, DataOK, FilesOK, network
    <3>. QED
      BY <2>1, <2>6, <3>1, ReturnsOK DEF TypeInv, Busy
  <2>. QED
    BY <2>2, <2>4, <2>5, <2>6
<1>6. CASE Store(th)
  <2>1. /\ op[th].pc = "store" /\ term' = AfterWrite(term, op[th].msg)
        /\ \E err : Returns(th, AfterWrite(term, op[th].msg), err)
        /\ UNCHANGED <<status, network, unanswered>>
    BY <1>6 DEF Store, Sending
  <2>2. term' \in Terms /\ term'.isConnecting = term.isConnecting
    BY <1>0, <2>1, AfterWriteTerm
  <2>3. DataOK' /\ FilesOK' /\ conn' = conn
    BY <2>1, <2>2 DEF TypeInv, DataOK, FilesOK, network
  <2>. QED
    BY <2>1, <2>3, ReturnsOK DEF TypeInv, Busy
<1>. QED
  BY <1>1, <1>2, <1>3, <1>4, <1>5, <1>6 DEF Sends

\* disconnectProcessing and disconnectBase.
LEMMA LeavesOK ==
    ASSUME TypeInv, NEW th \in Threads, Leaves(th)
    PROVE  TypeInv' /\ th # Reader
<1>0. /\ term \in Terms /\ op \in [Threads -> Ops] /\ op[th] \in Ops
      /\ conn \in 0 .. MaxConns /\ MaxConns \in Nat
  BY ClientAssumption DEF TypeInv, DataOK, ThreadsOK, Ops
<1>1. th # Reader
  BY DEF Leaves, Leave, Unmark, Take, Close, Closes, Sending, TypeInv, ThreadsOK, Busy
<1>2. CASE Leave(th) \/ Unmark(th)
  <2>. DEFINE t == [term EXCEPT !.isConnecting = FALSE]
  <2>1. PICK pc \in {"unmark", "take"} :
          /\ op[th].pc # "idle" /\ op' = [op EXCEPT ![th].pc = pc]
          /\ term' = t \/ term' = Disconnected(term)
          /\ UNCHANGED <<status, network, reader, unanswered>>
    BY <1>2 DEF Leave, Unmark, Sending, Goes
  <2>a. t \in Terms /\ ~t.isConnecting
    BY <1>0 DEF Terms
  <2>. HIDE DEF t
  <2>2. term' \in Terms /\ ~term'.isConnecting
    BY <1>0, <2>1, <2>a, DisconnectedTerm
  <2>3. DataOK' /\ FilesOK' /\ conn' = conn
    BY <2>1, <2>2 DEF TypeInv, DataOK, FilesOK, network
  <2>. DEFINE o == [op[th] EXCEPT !.pc = pc]
  <2>4. o \in Ops /\ o.pc = pc /\ op' = [op EXCEPT ![th] = o]
    BY <1>0, <2>1 DEF Ops
  <2>. HIDE DEF o
  <2>. QED
    BY <1>1, <2>1, <2>3, <2>4, GoesOK DEF TypeInv, OnTransport
<1>3. CASE Take(th)
  <2>1. CASE Dies("no_transport")
    BY <1>1, <2>1 DEF Dies, TypeInv, DataOK, FilesOK, ThreadsOK, network
  <2>2. CASE ~Dies("no_transport")
    <3>1. /\ op[th].pc = "take" /\ conn # 0
          /\ op' = [op EXCEPT ![th].pc = "close", ![th].ct = conn]
          /\ UNCHANGED <<status, term, network, reader, unanswered>>
      BY <1>3, <2>2 DEF Take, Sending
    <3>2. DataOK' /\ FilesOK' /\ conn' = conn
      BY <3>1 DEF TypeInv, DataOK, FilesOK, network
    <3>. DEFINE o == [op[th] EXCEPT !.pc = "close", !.ct = conn]
    <3>3. o \in Ops /\ o.pc = "close" /\ o.ct = conn
      BY <1>0 DEF Ops
    <3>4. op' = [op EXCEPT ![th] = o]
      BY <1>0, <3>1
    <3>. HIDE DEF o
    <3>5. conn \in 1 .. conn
      BY <1>0, <3>1
    <3>. QED
      BY <1>1, <3>1, <3>2, <3>3, <3>4, <3>5, GoesOK DEF TypeInv
  <2>. QED
    BY <2>1, <2>2
<1>4. CASE Close(th)
  <2>1. /\ op[th].pc = "close" /\ op' = [op EXCEPT ![th] = Idle]
        /\ file' = [file EXCEPT ![sock[op[th].ct]] = 0]
        /\ UNCHANGED <<status, term, conn, sock, peer, writeBuff, reader, unanswered>>
    BY <1>4 DEF Close, Closes, Sending
  <2>2. DataOK' /\ FilesOK'
    BY <2>1, ClosesFiles DEF TypeInv, DataOK
  <2>3. Idle \in Ops /\ Idle.pc = "idle"
    BY IdleOps DEF Idle
  <2>. QED
    BY <1>1, <2>1, <2>2, <2>3, GoesOK DEF TypeInv, OnTransport
<1>. QED
  BY <1>1, <1>2, <1>3, <1>4 DEF Leaves

\* connect, with a descriptor that may have been another transport's.
LEMMA ConnectOK ==
    ASSUME TypeInv, NEW cs \in CleanFlags, Connect(cs)
    PROVE  TypeInv' /\ term'.isConnecting = term.isConnecting /\ term'.will = term.will
           /\ term'.keepAlive = term.keepAlive /\ term'.packetIDMap = term.packetIDMap
<1>0. term \in Terms /\ conn \in 0 .. MaxConns /\ MaxConns \in Nat
  BY ClientAssumption DEF TypeInv, DataOK
<1>1. /\ reader = "idle" /\ reader' = "dial" /\ conn < MaxConns /\ conn' = conn + 1
      /\ term' = [term EXCEPT !.cleanSession = cs, !.packetIDMap = term.packetIDMap]
      /\ UNCHANGED <<status, peer, writeBuff, op, unanswered>>
  BY DEF Connect, Connects, Reads
<1>2. PICK n \in Descriptors :
        /\ file[n] = 0 /\ sock' = [sock EXCEPT ![conn + 1] = n]
        /\ file' = [file EXCEPT ![n] = conn + 1]
  BY DEF Connect, Connects
<1>3. conn' \in 0 .. MaxConns /\ conn' \in Conns /\ conn' # 0 /\ 1 .. conn' = 1 .. conn \cup {conn'}
      /\ conn' \notin 1 .. conn
  BY <1>0, <1>1 DEF Conns
<1>4. /\ term' \in Terms /\ term'.isConnecting = term.isConnecting /\ term'.will = term.will
      /\ term'.keepAlive = term.keepAlive /\ term'.packetIDMap = term.packetIDMap
  BY <1>0, <1>1, ClientAssumption DEF Terms
<1>5. DataOK'
  BY <1>1, <1>3, <1>4 DEF TypeInv, DataOK
<1>6. FilesOK'
  <2>1. /\ sock \in [Conns -> Descriptors \cup {0}] /\ file \in [Descriptors -> 0 .. MaxConns]
    BY DEF TypeInv, FilesOK
  <2>2. sock' \in [Conns -> Descriptors \cup {0}] /\ file' \in [Descriptors -> 0 .. MaxConns]
    BY <1>1, <1>2, <1>3, <2>1
  <2>3. \A c \in Conns : sock'[c] = IF c = conn' THEN n ELSE sock[c]
    BY <1>1, <1>2, <2>1
  <2>4. \A k \in Descriptors : file'[k] = IF k = n THEN conn' ELSE file[k]
    BY <1>1, <1>2, <2>1
  <2>5. 1 .. conn' \subseteq Conns
    BY <1>0, <1>3 DEF Conns
  <2>6. \A c \in 1 .. conn' : sock'[c] \in Descriptors
    BY <1>3, <2>3, <2>5 DEF TypeInv, FilesOK
  <2>7. ASSUME NEW k \in Descriptors, file'[k] # 0
        PROVE  file'[k] \in 1 .. conn' /\ sock'[file'[k]] = k
    <3>1. CASE k = n
      BY <1>3, <2>3, <2>4, <3>1
    <3>2. CASE k # n
      <4>1. file'[k] = file[k] /\ file[k] \in 1 .. conn /\ sock[file[k]] = k
        BY <2>4, <2>7, <3>2 DEF TypeInv, FilesOK
      <4>2. file[k] \in Conns /\ file[k] # conn'
        BY <1>3, <2>5, <4>1
      <4>. QED
        BY <1>3, <2>3, <4>1, <4>2
    <3>. QED
      BY <3>1, <3>2
  <2>. QED
    BY <2>2, <2>6, <2>7 DEF FilesOK
<1>7. ThreadsOK'
  <2>1. \A th \in Threads : op[th].pc \in OnTransport => op[th].ct \in 1 .. conn'
    BY <1>3 DEF TypeInv, ThreadsOK
  <2>. QED
    BY <1>1, <1>3, <2>1 DEF TypeInv, ThreadsOK, Places, SendPlaces, AtRest
<1>. QED
  BY <1>4, <1>5, <1>6, <1>7 DEF TypeInv

LEMMA TypeStep == ASSUME TypeInv, [Next]_vars PROVE TypeInv'
<1>0. /\ term \in Terms /\ conn \in 0 .. MaxConns /\ MaxConns \in Nat
      /\ peer \in [Conns -> {"none", "open", "gone"}] /\ writeBuff \in [Conns -> Messages]
  BY ClientAssumption DEF TypeInv, DataOK
<1>1. CASE Listens
  <2>1. conn # 0
    BY <1>1 DEF Listens, TypeInv, ThreadsOK, Between
  <2>2. unanswered' \subseteq unanswered
    BY <1>1 DEF Listens, Answered
  <2>3. FilesOK'
    BY <1>1, ClosesFiles DEF Listens
  <2>4. DataOK'
    BY <1>1, <2>1, <2>2 DEF Listens, TypeInv, DataOK
  <2>5. CASE op' = op /\ reader' \in Between \cup {"idle"}
    <3>1. op[Reader].pc = "idle"
      BY <1>1 DEF Listens, TypeInv, ThreadsOK, Between, SendPlaces
    <3>. QED
      BY <1>1, <2>1, <2>3, <2>4, <2>5, <3>1
         DEF Listens, TypeInv, ThreadsOK, Between, Places, SendPlaces, AtRest
  <2>6. CASE reader' \in {"handle", "pinging"} /\ \E m \in Messages : StartSend(Reader, m)
    <3>1. ThreadsOK'
      BY <1>1, <2>1, <2>6, StartOK DEF Listens, Threads
    <3>. QED
      BY <2>3, <2>4, <3>1 DEF TypeInv
  <2>. QED
    BY <1>1, <2>5, <2>6 DEF Listens
<1>2. CASE ACall
  <2>1. PICK th \in Callers :
        /\ \E s \in GeneratorStates : term' = [term EXCEPT !.mt = s]
        /\ op' = op \/ \E m \in Messages : StartSend(th, m)
        /\ UNCHANGED <<status, network, reader, unanswered>>
    BY <1>2 DEF ACall
  <2>2. term' \in Terms /\ term'.isConnecting = term.isConnecting
    BY <1>0, <2>1 DEF Terms
  <2>3. DataOK' /\ FilesOK'
    BY <2>1, <2>2 DEF TypeInv, DataOK, FilesOK, network
  <2>4. ThreadsOK'
    <3>1. CASE op' = op
      BY <2>1, <3>1 DEF TypeInv, ThreadsOK, network
    <3>2. CASE \E m \in Messages : StartSend(th, m)
      BY <2>1, <3>2, StartOK, ClientAssumption DEF Threads, network
    <3>. QED
      BY <2>1, <3>1, <3>2
  <2>. QED
    BY <2>3, <2>4 DEF TypeInv
<1>3. CASE Dial
  <2>1. /\ reader = "dial" /\ reader' = "connect" /\ peer' = [peer EXCEPT ![conn] = "open"]
        /\ UNCHANGED <<status, term, conn, sock, file, writeBuff, op, unanswered>>
    BY <1>3 DEF Dial, Reads
  <2>2. peer' \in [Conns -> {"none", "open", "gone"}]
    BY <1>0, <2>1
  <2>. QED
    BY <2>1, <2>2 DEF TypeInv, DataOK, FilesOK, ThreadsOK, Places, SendPlaces, AtRest
<1>4. CASE SendConnect
  <2>1. CASE Dies("no_will")
    BY <2>1 DEF Dies, TypeInv, DataOK, FilesOK, ThreadsOK, network
  <2>2. CASE ~Dies("no_will")
    <3>. DEFINE o == InSend(Message("CONNECT", 0), "fill", conn)
    <3>1. /\ reader = "connect" /\ reader' = "greet" /\ op' = [op EXCEPT ![Reader] = o]
          /\ UNCHANGED <<status, term, network, unanswered>>
      BY <1>4, <2>2 DEF SendConnect, Reads
    <3>2. o \in Ops /\ o.pc = "fill" /\ o.ct = conn
      BY <1>0, ZeroIsPacketID DEF InSend, Message, Ops, Busy, Messages, MessageTypes
    <3>. HIDE DEF o
    <3>3. DataOK' /\ FilesOK' /\ conn' = conn
      BY <3>1 DEF TypeInv, DataOK, FilesOK, network
    <3>4. conn # 0 /\ conn \in 1 .. conn
      BY <1>0, <3>1 DEF TypeInv, ThreadsOK
    <3>5. ThreadsOK'
      BY <3>1, <3>2, <3>3, <3>4, PlacesOK DEF Places, SendPlaces, Busy, Threads
    <3>. QED
      BY <3>3, <3>5 DEF TypeInv
  <2>. QED
    BY <2>1, <2>2
<1>5. CASE PeerLeaves
  <2>1. peer' \in [Conns -> {"none", "open", "gone"}]
    BY <1>0, <1>5 DEF PeerLeaves
  <2>. QED
    BY <1>5, <2>1 DEF PeerLeaves, TypeInv, DataOK, FilesOK, ThreadsOK
<1>6. CASE UNCHANGED vars
  BY <1>6 DEF vars, network, TypeInv, DataOK, FilesOK, ThreadsOK
<1>. QED
  BY <1>1, <1>2, <1>3, <1>4, <1>5, <1>6, ClientSteps, SendsOK, LeavesOK, ConnectOK

LEMMA TypesAlways == Spec => []TypeInv
<1>1. Init => TypeInv
  BY TypeInit
<1>2. TypeInv /\ [Next]_vars => TypeInv'
  BY TypeStep
<1>. QED
  BY <1>1, <1>2, PTL DEF Spec

\* Every variable keeps its type, and a thread sends only where the code of
\* connect, readLoop and pingLoop does, on a transport that has been made.
THEOREM ClientTypes == Spec => []TypeOK
BY TypesAlways, TypeInvImpliesTypeOK, PTL

-----------------------------------------------------------------------------
(***************************************************************************)
(* What the steps of the other threads leave alone.                        *)
(***************************************************************************)
\* A thread that sends or leaves changes its own place only.
LEMMA OwnPlace ==
    ASSUME TypeInv, NEW th \in Threads, Sends(th) \/ Leaves(th)
    PROVE  /\ op[th].pc # "idle" /\ (th # Reader => reader' = reader)
           /\ \A u \in Threads \ {th} : op'[u] = op[u]
<1>0. op \in [Threads -> Ops]
  BY DEF TypeInv, ThreadsOK
<1>1. op[th].pc # "idle"
  BY DEF Sends, Check, Lookup, Load, Fill, Write, Store, Leaves, Leave, Unmark, Take, Close,
         Closes, Sending
<1>2. CASE \E t, err : Returns(th, t, err)
  BY <1>0, <1>1, <1>2 DEF Returns
<1>3. CASE ~\E t, err : Returns(th, t, err)
  BY <1>0, <1>1, <1>3
     DEF Sends, Check, Lookup, Load, Fill, Write, Store, Leaves, Leave, Unmark, Take, Close,
         Closes, Goes, Dies
<1>. QED
  BY <1>2, <1>3

\* sendMessage.
LEMMA SendsKeep ==
    ASSUME TypeInv, NEW th \in Threads, Sends(th)
    PROVE  /\ status' \in {status, "sigpipe"}
           /\ UNCHANGED <<conn, sock, file, peer, left, greeted, pubs>>
           /\ races \subseteq races' /\ unanswered \subseteq unanswered'
           /\ term'.isConnecting = term.isConnecting /\ term'.will = term.will
           /\ term'.keepAlive = term.keepAlive
           /\ op'[th].pc # "unmark"
           /\ \/ reader' = reader /\ op'[th].msg = op[th].msg
              \/ \E t, err : Returns(th, t, err)
<1>0. op \in [Threads -> Ops] /\ op[th] \in Ops /\ term \in Terms /\ op[th].msg \in Messages
  BY DEF TypeInv, DataOK, ThreadsOK, Ops
<1>1. /\ status' \in {status, "sigpipe"}
      /\ UNCHANGED <<conn, sock, file, peer, left, greeted, pubs>>
  BY DEF Sends, Check, Lookup, Load, Fill, Write, Store, Dies, network, bounds, history
<1>2. races \subseteq races' /\ unanswered \subseteq unanswered'
  BY DEF Sends, Check, Lookup, Load, Fill, Write, Store, Dies, Race, Put, history
<1>3. term' = term \/ term' = AfterWrite(term, op[th].msg)
  BY DEF Sends, Check, Lookup, Load, Fill, Write, Store, Dies
<1>4. /\ term'.isConnecting = term.isConnecting /\ term'.will = term.will
      /\ term'.keepAlive = term.keepAlive
  <2>. DEFINE t == AfterWrite(term, op[th].msg)
  <2>1. t.isConnecting = term.isConnecting /\ t.will = term.will /\ t.keepAlive = term.keepAlive
    BY <1>0, AfterWriteTerm
  <2>. HIDE DEF t
  <2>. QED
    BY <1>3, <2>1 DEF t
<1>5. /\ op'[th].pc # "unmark"
      /\ \/ reader' = reader /\ op'[th].msg = op[th].msg
         \/ \E t, err : Returns(th, t, err)
  <2>1. CASE \E t, err : Returns(th, t, err)
    <3>1. op'[th].pc \in {"idle", "leave"}
      BY <1>0, <2>1 DEF Returns, Idle
    <3>. QED
      BY <2>1, <3>1
  <2>2. CASE ~\E t, err : Returns(th, t, err)
    <3>1. op[th].pc # "unmark"
      BY DEF Sends, Check, Lookup, Load, Fill, Write, Store, Sending
    <3>2. /\ reader' = reader
          /\ \/ op' = op
             \/ \E pc \in Busy : op' = [op EXCEPT ![th].pc = pc]
             \/ op' = [op EXCEPT ![th].pc = "fill", ![th].ct = conn]
      BY <2>2 DEF Sends, Check, Lookup, Load, Fill, Write, Store, Goes, Dies, Busy
    <3>3. op'[th].msg = op[th].msg /\ op'[th].pc \in Busy \cup {op[th].pc}
      BY <1>0, <3>2 DEF Ops, Busy
    <3>. QED
      BY <3>1, <3>2, <3>3 DEF Busy
  <2>. QED
    BY <2>1, <2>2
<1>. QED
  BY <1>1, <1>2, <1>4, <1>5

\* publish, subscribe, unsubscribe, ping and disconnect, as they begin.
LEMMA ACallKeeps ==
    ASSUME TypeInv, ACall
    PROVE  /\ UNCHANGED <<status, network, reader, unanswered, pubs, history>>
           /\ term'.isConnecting = term.isConnecting /\ term'.will = term.will
           /\ term'.keepAlive = term.keepAlive /\ term'.packetIDMap = term.packetIDMap
           /\ op'[Reader] = op[Reader]
           /\ \A u \in Threads : op'[u] = op[u] \/ (op[u].pc = "idle" /\ op'[u].pc = "check")
<1>0. op \in [Threads -> Ops] /\ term \in Terms
  BY DEF TypeInv, DataOK, ThreadsOK
<1>1. PICK th \in Callers :
        /\ op[th].pc = "idle" /\ \E s \in GeneratorStates : term' = [term EXCEPT !.mt = s]
        /\ op' = op \/ \E m \in Messages : StartSend(th, m)
        /\ UNCHANGED <<status, network, reader, unanswered, pubs, history>>
  BY DEF ACall
<1>2. th \in Threads /\ Reader \in Threads /\ th # Reader
  BY ClientAssumption DEF Threads
<1>3. /\ term'.isConnecting = term.isConnecting /\ term'.will = term.will
      /\ term'.keepAlive = term.keepAlive /\ term'.packetIDMap = term.packetIDMap
  BY <1>0, <1>1 DEF Terms
<1>4. /\ op'[Reader] = op[Reader]
      /\ \A u \in Threads : op'[u] = op[u] \/ (op[u].pc = "idle" /\ op'[u].pc = "check")
  <2>1. CASE op' = op
    BY <2>1
  <2>2. ASSUME NEW m \in Messages, StartSend(th, m)
        PROVE  /\ op'[th].pc = "check" /\ \A u \in Threads \ {th} : op'[u] = op[u]
    BY <1>0, <1>2, <2>2 DEF StartSend, InSend
  <2>. QED
    BY <1>1, <1>2, <2>1, <2>2
<1>. QED
  BY <1>1, <1>3, <1>4

\* A thread's disconnect(), once the message is sent.
LEMMA LeavesKeep ==
    ASSUME TypeInv, NEW th \in Threads, Leaves(th)
    PROVE  /\ status' \in {status, "no_transport"} /\ th # Reader
           /\ UNCHANGED <<conn, sock, peer, writeBuff, reader, unanswered, pubs, greeted, races>>
           /\ term'.isConnecting => term.isConnecting
           /\ term'.keepAlive = term.keepAlive /\ term'.packetIDMap = term.packetIDMap
           /\ op'[Reader] = op[Reader]
           /\ op[th].pc \in {"leave", "unmark", "take", "close"}
           /\ op'[th].pc \in {"leave", "unmark", "take", "close", "idle"}
<1>0. op \in [Threads -> Ops] /\ op[th] \in Ops /\ term \in Terms /\ Reader \in Threads
  BY DEF TypeInv, DataOK, ThreadsOK, Threads
<1>1. th # Reader
  BY LeavesOK
<1>2. /\ status' \in {status, "no_transport"}
      /\ UNCHANGED <<conn, sock, peer, writeBuff, reader, unanswered, pubs, greeted, races>>
      /\ op[th].pc \in {"leave", "unmark", "take", "close"}
  BY DEF Leaves, Leave, Unmark, Take, Close, Closes, Sending, Goes, Dies, network, bounds, history
<1>. DEFINE t == [term EXCEPT !.isConnecting = FALSE]
<1>3. term' = term \/ term' = t \/ term' = Disconnected(term)
  BY DEF Leaves, Leave, Unmark, Take, Close, Closes, Dies
<1>4. ~t.isConnecting /\ t.keepAlive = term.keepAlive /\ t.packetIDMap = term.packetIDMap
  BY <1>0 DEF Terms
<1>. HIDE DEF t
<1>5. /\ term'.isConnecting => term.isConnecting
      /\ term'.keepAlive = term.keepAlive /\ term'.packetIDMap = term.packetIDMap
  BY <1>0, <1>3, <1>4, DisconnectedTerm
<1>6. \/ op' = op
      \/ \E pc \in {"unmark", "take"} : op' = [op EXCEPT ![th].pc = pc]
      \/ op' = [op EXCEPT ![th].pc = "close", ![th].ct = conn]
      \/ op' = [op EXCEPT ![th] = Idle]
  BY DEF Leaves, Leave, Unmark, Take, Close, Closes, Goes, Dies
<1>7. op'[th].pc \in {op[th].pc, "unmark", "take", "close", "idle"} /\ op'[Reader] = op[Reader]
  BY <1>0, <1>1, <1>6 DEF Ops, Idle
<1>. QED
  BY <1>1, <1>2, <1>5, <1>7

-----------------------------------------------------------------------------
(***************************************************************************)
(* The silence after disconnect().                                         *)
(***************************************************************************)
\* A request is new only in a step of write(2), on what its descriptor is open on.
LEMMA NewRequests ==
    ASSUME TypeInv, [Next]_vars, NEW r \in unanswered' \ unanswered
    PROVE  \E n \in Descriptors : file[n] # 0 /\ r.conn = file[n]
<1>1. PICK th \in Threads : Sends(th)
  <2>1. ~Listens /\ ~\E th \in Threads : Leaves(th)
    BY LeavesKeep DEF Listens, Answered
  <2>. QED
    BY <2>1, ClientSteps
       DEF ACall, Dial, SendConnect, Dies, PeerLeaves, Connect, Connects, vars
<1>2. Write(th) /\ r = Request(writeBuff[op[th].ct], file[sock[op[th].ct]])
      /\ Link(op[th].ct) # "closed"
  <2>1. "NO_ERROR" \in Results(op[th].ct) => Link(op[th].ct) # "closed"
    BY DEF Results, WriteResults
  <2>2. Write(th)
    BY <1>1 DEF Sends, Check, Lookup, Load, Fill, Store
  <2>. QED
    BY <2>1, <2>2 DEF Write, Put, Dies
<1>3. op[th].ct \in 1 .. conn
  BY <1>2 DEF Write, Sending, TypeInv, ThreadsOK, OnTransport
<1>4. sock[op[th].ct] \in Descriptors /\ file[sock[op[th].ct]] # 0
  BY <1>2, <1>3, OnDescriptor DEF Link
<1>5. r.conn = file[sock[op[th].ct]]
  BY <1>2 DEF Request
<1>. QED
  BY <1>4, <1>5

\* Once disconnect() has closed the socket of the present transport, no
\* descriptor is open on its connection.
SilentInv == left => conn # 0 /\ \A n \in Descriptors : file[n] # conn

LEMMA SilentStep == ASSUME TypeInv, SilentInv, [Next]_vars PROVE SilentInv'
<1>0. file \in [Descriptors -> 0 .. MaxConns] /\ conn \in 0 .. MaxConns
  BY DEF TypeInv, DataOK, FilesOK
<1>1. ASSUME NEW n, file' = file \/ file' = [file EXCEPT ![n] = 0], UNCHANGED <<conn, left>>
      PROVE  SilentInv'
  BY <1>0, <1>1 DEF SilentInv
<1>2. CASE Listens
  BY <1>1, <1>2 DEF Listens
<1>3. CASE \E th \in Threads : Sends(th)
  BY <1>1, <1>3, SendsKeep
<1>4. ASSUME NEW th \in Threads, Leaves(th) PROVE SilentInv'
  <2>1. CASE Close(th)
    <3>1. /\ op[th].pc = "close" /\ file' = [file EXCEPT ![sock[op[th].ct]] = 0] /\ conn' = conn
          /\ left' = (left \/ op[th].ct = conn)
      BY <2>1 DEF Close, Closes, Sending
    <3>2. CASE left
      BY <1>0, <3>1, <3>2 DEF SilentInv
    <3>3. CASE op[th].ct = conn
      <4>1. conn # 0 /\ sock[conn] \in Descriptors
        BY <3>1, <3>3, OnDescriptor DEF TypeInv, DataOK, ThreadsOK, OnTransport
      <4>2. \A n \in Descriptors : file[n] = conn => n = sock[conn]
        BY <4>1 DEF TypeInv, FilesOK
      <4>3. \A n \in Descriptors : file'[n] = IF n = sock[conn] THEN 0 ELSE file[n]
        BY <1>0, <3>1, <3>3
      <4>. QED
        BY <3>1, <4>1, <4>2, <4>3 DEF SilentInv
    <3>. QED
      BY <3>1, <3>2, <3>3 DEF SilentInv
  <2>2. CASE ~Close(th)
    <3>1. UNCHANGED <<file, left, conn>>
      BY <1>4, <2>2 DEF Leaves, Leave, Unmark, Take, Dies, network, history
    <3>. QED
      BY <1>1, <3>1
  <2>. QED
    BY <2>1, <2>2
<1>5. ASSUME NEW cs \in CleanFlags, Connect(cs) PROVE SilentInv'
  BY <1>5 DEF Connect, Connects, SilentInv
<1>6. CASE ACall \/ Dial \/ SendConnect \/ PeerLeaves \/ UNCHANGED vars
  <2>1. UNCHANGED <<file, left, conn>>
    BY <1>6 DEF ACall, Dial, SendConnect, Dies, PeerLeaves, vars, network, history
  <2>. QED
    BY <1>1, <2>1
<1>. QED
  BY <1>2, <1>3, <1>4, <1>5, <1>6, ClientSteps

\* After disconnect() nothing goes out on the connection, whatever other threads
\* had tested or loaded by then and whatever number a socket gets.
THEOREM NothingAfterDisconnect == Spec => SilentAfterDisconnect
<1>1. Init => SilentInv
  BY DEF Init, SilentInv
<1>2. TypeInv /\ SilentInv /\ [Next]_vars => SilentInv'
  BY SilentStep
<1>3. TypeInv /\ SilentInv /\ [Next]_vars
        => [left /\ left' => \A r \in unanswered' \ unanswered : r.conn # conn]_vars
  BY NewRequests DEF SilentInv
<1>. QED
  BY <1>1, <1>2, <1>3, TypesAlways, PTL DEF Spec, SilentAfterDisconnect

-----------------------------------------------------------------------------
(***************************************************************************)
(* A keep-alive.                                                           *)
(***************************************************************************)
DeafInv ==
    /\ reader = "pinging" => op[Reader].msg.type = "PINGRESP"
    /\ term.keepAlive > 0 /\ greeted =>
         \/ reader \in {"ping", "pinging", "idle"}
         \/ reader = "redeliver" /\ ~term.isConnecting

LEMMA DeafStep == ASSUME TypeInv, DeafInv, [Next]_vars PROVE DeafInv'
<1>0. /\ op \in [Threads -> Ops] /\ Reader \in Threads /\ op[Reader] \in Ops /\ term \in Terms
      /\ conn \in 0 .. MaxConns
  BY DEF TypeInv, DataOK, ThreadsOK, Threads
<1>1. CASE Listens
  <2>1. term'.keepAlive = term.keepAlive /\ term.keepAlive \in Nat
    BY <1>0, <1>1, ClientAssumption DEF Listens, Terms
  <2>2. reader' = "pinging" => op'[Reader].msg.type = "PINGRESP"
    <3>1. ASSUME NEW m \in Messages, StartSend(Reader, m), m.type = "PINGRESP"
          PROVE  op'[Reader].msg.type = "PINGRESP"
      BY <1>0, <3>1 DEF StartSend, InSend
    <3>. QED
      BY <1>1, <3>1 DEF Listens, Between
  <2>3. term'.keepAlive > 0 /\ greeted' =>
          \/ reader' \in {"ping", "pinging", "idle"}
          \/ reader' = "redeliver" /\ ~term'.isConnecting
    <3>1. CASE reader = "ping" \/ reader = "redeliver"
      BY <1>1, <2>1, <3>1 DEF Listens, DeafInv
    <3>2. CASE reader = "read" \/ reader = "blocked"
      BY <1>1, <2>1, <3>2 DEF Listens, DeafInv
    <3>. QED
      BY <1>1, <3>1, <3>2 DEF Listens, Between
  <2>. QED
    BY <2>2, <2>3 DEF DeafInv
<1>2. CASE ACall
  BY <1>2, ACallKeeps DEF DeafInv, history
<1>3. ASSUME NEW th \in Threads, Sends(th) PROVE DeafInv'
  <2>1. /\ term'.isConnecting = term.isConnecting /\ term'.keepAlive = term.keepAlive
        /\ greeted' = greeted
    BY <1>3, SendsKeep
  <2>2. CASE th # Reader
    <3>1. reader' = reader /\ op'[Reader] = op[Reader]
      BY <1>0, <1>3, <2>2, OwnPlace
    <3>. QED
      BY <2>1, <3>1 DEF DeafInv
  <2>3. CASE th = Reader
    <3>1. op[Reader].pc # "idle"
      BY <1>3, <2>3, OwnPlace
    <3>2. reader \in SendPlaces
      BY <3>1 DEF TypeInv, ThreadsOK
    <3>3. CASE reader' = reader /\ op'[Reader].msg = op[Reader].msg
      BY <2>1, <3>3 DEF DeafInv
    <3>4. CASE \E t, err : Returns(Reader, t, err)
      <4>1. reader' \in {"ping", "read", "idle"} /\ (op[Reader].msg.type = "PINGRESP" => reader' = "ping")
        BY <3>4 DEF Returns, LoopTest
      <4>. QED
        BY <2>1, <3>2, <4>1 DEF DeafInv, SendPlaces
    <3>. QED
      BY <1>3, <2>3, <3>3, <3>4, SendsKeep
  <2>. QED
    BY <2>2, <2>3
<1>4. ASSUME NEW th \in Threads, Leaves(th) PROVE DeafInv'
  BY <1>4, LeavesKeep DEF DeafInv
<1>5. ASSUME NEW cs \in CleanFlags, Connect(cs) PROVE DeafInv'
  BY <1>5 DEF Connect, Connects, DeafInv
<1>6. CASE Dial \/ SendConnect
  <2>1. /\ ~(term.keepAlive > 0 /\ greeted) /\ term' = term /\ greeted' = greeted
        /\ reader' # "pinging"
    BY <1>6 DEF Dial, SendConnect, Dies, Reads, DeafInv, history
  <2>. QED
    BY <2>1 DEF DeafInv
<1>7. CASE PeerLeaves \/ UNCHANGED vars
  BY <1>7 DEF PeerLeaves, vars, history, DeafInv
<1>. QED
  BY <1>1, <1>2, <1>3, <1>4, <1>5, <1>6, <1>7, ClientSteps

\* With a keep-alive the client handles nothing after the CONNACK, until it
\* connects again, however the calls of other threads interleave.
THEOREM DeafAlways == Spec => DeafWithKeepAlive
<1>1. Init => DeafInv
  BY DEF Init, DeafInv
<1>2. TypeInv /\ DeafInv /\ [Next]_vars => DeafInv'
  BY DeafStep
<1>3. ASSUME TypeInv, DeafInv, [Next]_vars, term.keepAlive > 0, greeted
      PROVE  unanswered \subseteq unanswered' /\ pubs' = pubs
  <2>1. reader # "blocked"
    BY <1>3 DEF DeafInv
  <2>2. CASE Listens
    BY <2>1, <2>2 DEF Listens
  <2>3. CASE \E th \in Threads : Sends(th) \/ Leaves(th)
    BY <1>3, <2>3, SendsKeep, LeavesKeep
  <2>4. CASE ACall \/ Dial \/ SendConnect \/ PeerLeaves \/ UNCHANGED vars
             \/ \E cs \in CleanFlags : Connect(cs)
    BY <2>4 DEF ACall, Dial, SendConnect, Dies, PeerLeaves, vars, bounds, Connect, Connects
  <2>. QED
    BY <1>3, <2>2, <2>3, <2>4, ClientSteps
<1>4. TypeInv /\ DeafInv /\ [Next]_vars
        => [term.keepAlive > 0 /\ greeted => unanswered \subseteq unanswered' /\ pubs' = pubs]_vars
  BY <1>3
<1>. QED
  BY <1>1, <1>2, <1>4, TypesAlways, PTL DEF Spec, DeafWithKeepAlive

-----------------------------------------------------------------------------
(***************************************************************************)
(* The will.                                                               *)
(***************************************************************************)
WillInv ==
    /\ "connack" \notin races =>
         /\ term.will = SomeWill
         /\ \A th \in Threads : op[th].pc = "unmark" => ~term.isConnecting
    /\ status = "no_will" => "connack" \in races

\* A step that disconnects nothing, and connects only in that race.
LEMMA WillBySame ==
    ASSUME WillInv, races \subseteq races', term'.will = term.will,
           "connack" \notin races' /\ term'.isConnecting =>
              term.isConnecting \/ \A th \in Threads : op[th].pc # "unmark",
           \A th \in Threads : op'[th].pc = "unmark" => op[th].pc = "unmark",
           status' = "no_will" => status = "no_will" \/ term.will = NoWill
    PROVE  WillInv'
<1>1. SomeWill # NoWill
  BY ClientAssumption
<1>. QED
  BY <1>1 DEF WillInv

LEMMA WillStep == ASSUME TypeInv, WillInv, [Next]_vars PROVE WillInv'
<1>0. op \in [Threads -> Ops] /\ term \in Terms /\ Reader \in Threads
  BY DEF TypeInv, DataOK, ThreadsOK, Threads
<1>1. CASE Listens
  <2>1. \A th \in Threads : op'[th].pc = "unmark" => op[th].pc = "unmark"
    BY <1>0, <1>1 DEF Listens, StartSend, InSend
  <2>. QED
    BY <1>1, <2>1, WillBySame DEF Listens
<1>2. CASE ACall
  <2>1. \A th \in Threads : op'[th].pc = "unmark" => op[th].pc = "unmark"
    BY <1>2, ACallKeeps
  <2>. QED
    BY <1>2, <2>1, ACallKeeps, WillBySame DEF history
<1>3. ASSUME NEW th \in Threads, Sends(th) PROVE WillInv'
  <2>1. \A u \in Threads : op'[u].pc = "unmark" => op[u].pc = "unmark"
    BY <1>3, SendsKeep, OwnPlace
  <2>. QED
    BY <1>3, <2>1, SendsKeep, WillBySame
<1>4. ASSUME NEW th \in Threads, Leaves(th) PROVE WillInv'
  <2>0. \A u \in Threads \ {th} : op'[u] = op[u]
    BY <1>4, OwnPlace
  <2>1. CASE Leave(th)
    <3>1. term' = [term EXCEPT !.isConnecting = FALSE] /\ UNCHANGED <<status, races>>
      BY <2>1 DEF Leave, history
    <3>2. ~term'.isConnecting /\ term'.will = term.will
      BY <1>0, <3>1 DEF Terms
    <3>. QED
      BY <3>1, <3>2 DEF WillInv
  <2>2. CASE Unmark(th)
    <3>1. /\ op[th].pc = "unmark" /\ term' = Disconnected(term) /\ UNCHANGED <<status, races>>
      BY <2>2 DEF Unmark, Sending, history
    <3>2. ~term'.isConnecting /\ (~term.isConnecting => term'.will = term.will)
      BY <1>0, <3>1, DisconnectedTerm
    <3>. QED
      BY <3>1, <3>2 DEF WillInv
  <2>3. CASE Take(th) \/ Close(th)
    <3>1. op[th].pc # "unmark" /\ op'[th].pc # "unmark" /\ term' = term
          /\ status' \in {status, "no_transport"} /\ races' = races
      <4>1. op[th].pc \in {"take", "close"} /\ term' = term
            /\ status' \in {status, "no_transport"} /\ races' = races
        BY <2>3 DEF Take, Close, Closes, Sending, Dies, history
      <4>2. \/ op' = op \/ op' = [op EXCEPT ![th].pc = "close", ![th].ct = conn]
            \/ op' = [op EXCEPT ![th] = Idle]
        BY <2>3 DEF Take, Close, Closes, Dies
      <4>3. op'[th].pc \in {op[th].pc, "close", "idle"}
        BY <1>0, <4>2 DEF Ops, Idle
      <4>. QED
        BY <4>1, <4>3
    <3>2. \A u \in Threads : op'[u].pc = "unmark" => op[u].pc = "unmark"
      BY <2>0, <3>1
    <3>. QED
      BY <3>1, <3>2, WillBySame
  <2>. QED
    BY <1>4, <2>1, <2>2, <2>3 DEF Leaves
<1>5. ASSUME NEW cs \in CleanFlags, Connect(cs) PROVE WillInv'
  <2>1. term'.isConnecting = term.isConnecting /\ term'.will = term.will
    BY <1>5, ConnectOK
  <2>2. UNCHANGED <<status, op, races>>
    BY <1>5 DEF Connect, Connects
  <2>. QED
    BY <2>1, <2>2, WillBySame
<1>6. CASE SendConnect
  <2>1. term' = term /\ races' = races /\ (status' = "no_will" => status = "no_will" \/ term.will = NoWill)
    BY <1>6 DEF SendConnect, Dies, history
  <2>2. \A th \in Threads : op'[th].pc = "unmark" => op[th].pc = "unmark"
    BY <1>0, <1>6 DEF SendConnect, Dies, InSend
  <2>. QED
    BY <2>1, <2>2, WillBySame
<1>7. CASE Dial \/ PeerLeaves \/ UNCHANGED vars
  BY <1>7 DEF Dial, PeerLeaves, vars, history, WillInv
<1>. QED
  BY <1>1, <1>2, <1>3, <1>4, <1>5, <1>6, <1>7, ClientSteps

\* A client keeps its will, so that it can connect again, unless a CONNACK has
\* been handled between the two halves of a disconnectProcessing.
THEOREM WillIsKept == Spec => []WillOutlivesDisconnect
<1>1. Init => WillInv
  <2>. SUFFICES ASSUME Init PROVE WillInv
    OBVIOUS
  <2>1. \A th \in Threads : op[th].pc = "idle"
    BY DEF Init, Idle
  <2>. QED
    BY <2>1 DEF Init, WillInv
<1>2. TypeInv /\ WillInv /\ [Next]_vars => WillInv'
  BY WillStep
<1>3. WillInv => WillOutlivesDisconnect
  BY DEF WillInv, WillOutlivesDisconnect
<1>. QED
  BY <1>1, <1>2, <1>3, TypesAlways, PTL DEF Spec

-----------------------------------------------------------------------------
(***************************************************************************)
(* Packets in flight.  As long as no two threads pass the lookup under one *)
(* identifier, what it found still holds when the message goes into the    *)
(* map, and as long as none overwrites another's message, what goes out is *)
(* what goes into the map.                                                 *)
(***************************************************************************)
NoClash == races \cap {"identifier", "buffer"} = {}

Distinct == \A r, q \in unanswered : Keeps(r) /\ Keeps(q) /\ r.id = q.id => r = q

\* A thread that has passed the lookup with a message to keep, and what it has
\* to itself until the message is kept.
Flies(th) == op[th].pc \in {"load", "fill", "write", "store"} /\ Keeps(op[th].msg)

Owns(th) ==
    /\ ~InUse(term, op[th].msg.id)
    /\ op[th].pc # "store" => \A r \in unanswered : Keeps(r) => r.id # op[th].msg.id
    /\ \A u \in Threads \ {th} : Flies(u) => op[u].msg.id # op[th].msg.id

Kept ==
    /\ \A r \in unanswered : Keeps(r) => KeptAs(r)
    /\ Distinct
    /\ \A th \in Threads : op[th].pc = "write" => writeBuff[op[th].ct] = op[th].msg
    /\ \A th \in Threads : Flies(th) => Owns(th)

KeptInv == NoClash => Kept

\* Where no thread writes, enters the map or passes the lookup.
Quiet(th) ==
    \/ op'[th] = op[th]
    \/ /\ op[th].pc # "store" /\ op'[th].pc \notin {"write", "store"}
       /\ Flies(th)' => Flies(th) /\ op'[th].msg = op[th].msg

LEMMA QuietStep ==
    ASSUME TypeInv, Kept, \A th \in Threads : Quiet(th),
           writeBuff' = writeBuff, unanswered' \subseteq unanswered,
           \A id \in PacketIDs :
              \/ term'.packetIDMap[id] = term.packetIDMap[id]
              \/ term.packetIDMap[id] = "PUBLISH" /\ term'.packetIDMap[id] = "DUP"
              \/ /\ term'.packetIDMap[id] = NoMessage
                 /\ \A q \in unanswered' : ~(Keeps(q) /\ q.id = id)
    PROVE  Kept'
<1>0. /\ \A r \in unanswered : r.id \in PacketIDs
      /\ \A th \in Threads : op[th].msg.id \in PacketIDs
  BY DEF TypeInv, DataOK, ThreadsOK, Written, Ops, Messages
<1>1. ASSUME NEW r \in unanswered', Keeps(r) PROVE KeptAs(r)'
  <2>1. r \in unanswered /\ r.id \in PacketIDs /\ KeptAs(r)
    BY <1>0, <1>1 DEF Kept
  <2>2. CASE \E th \in Threads : op[th].pc = "store" /\ op[th].msg.type = r.type /\ op[th].msg.id = r.id
    BY <2>2 DEF KeptAs, Quiet
  <2>3. CASE term.packetIDMap[r.id] = r.type \/ (r.type = "PUBLISH" /\ term.packetIDMap[r.id] = "DUP")
    <3>1. ~(term'.packetIDMap[r.id] = NoMessage /\ \A q \in unanswered' : ~(Keeps(q) /\ q.id = r.id))
      BY <1>1
    <3>2. \/ term'.packetIDMap[r.id] = term.packetIDMap[r.id]
          \/ term.packetIDMap[r.id] = "PUBLISH" /\ term'.packetIDMap[r.id] = "DUP"
      BY <2>1, <3>1
    <3>. QED
      BY <2>3, <3>2 DEF KeptAs
  <2>. QED
    BY <2>1, <2>2, <2>3 DEF KeptAs
<1>2. Distinct'
  BY DEF Kept, Distinct
<1>3. \A th \in Threads : op'[th].pc = "write" => writeBuff'[op'[th].ct] = op'[th].msg
  BY DEF Kept, Quiet
<1>4. \A th \in Threads :
        Flies(th)' => /\ Flies(th) /\ op'[th].msg = op[th].msg
                      /\ op[th].pc = "store" => op'[th].pc = "store"
  BY DEF Quiet, Flies
<1>5. ASSUME NEW th \in Threads, Flies(th)' PROVE Owns(th)'
  <2>1. Owns(th) /\ op'[th].msg = op[th].msg /\ (op'[th].pc # "store" => op[th].pc # "store")
    BY <1>4, <1>5 DEF Kept
  <2>2. ~InUse(term', op[th].msg.id)
    <3>1. term.packetIDMap[op[th].msg.id] = NoMessage
      BY <2>1 DEF Owns, InUse
    <3>2. term'.packetIDMap[op[th].msg.id] = NoMessage
      BY <1>0, <3>1 DEF NoMessage
    <3>. QED
      BY <3>2 DEF InUse
  <2>3. \A u \in Threads \ {th} : Flies(u)' => op'[u].msg.id # op'[th].msg.id
    BY <1>4, <2>1 DEF Owns
  <2>. QED
    BY <2>1, <2>2, <2>3 DEF Owns
<1>. QED
  BY <1>1, <1>2, <1>3, <1>5 DEF Kept

LEMMA KeptByLookup ==
    ASSUME TypeInv, Kept, NEW th \in Threads, Lookup(th), NoClash'
    PROVE  Kept'
<1>0. op \in [Threads -> Ops] /\ op[th] \in Ops
  BY DEF TypeInv, ThreadsOK
<1>1. op[th].pc = "lookup" /\ UNCHANGED <<term, unanswered, writeBuff>>
  BY DEF Lookup, Sending, network
<1>2. \A u \in Threads \ {th} : op'[u] = op[u]
  BY OwnPlace DEF Sends
<1>3. CASE InUse(term, op[th].msg.id)
  <2>1. op'[th].pc \in {"idle", "leave"}
    BY <1>0, <1>3 DEF Lookup, Returns, Idle
  <2>2. \A u \in Threads : Quiet(u)
    BY <1>1, <1>2, <2>1 DEF Quiet, Flies
  <2>. QED
    BY <1>1, <2>2, QuietStep
<1>4. CASE ~InUse(term, op[th].msg.id)
  <2>1. op' = [op EXCEPT ![th].pc = "load"] /\ ~Collides(th)
    BY <1>4 DEF Lookup, Goes, Race, NoClash
  <2>2. op'[th].pc = "load" /\ op'[th].msg = op[th].msg
    BY <1>0, <2>1 DEF Ops
  <2>3. ASSUME NEW r \in unanswered, Keeps(r) PROVE KeptAs(r) /\ KeptAs(r)'
    <3>1. KeptAs(r)
      BY <2>3 DEF Kept
    <3>. QED
      BY <1>1, <1>2, <3>1 DEF KeptAs
  <2>4. \A u \in Threads \ {th} : Flies(u)' <=> Flies(u)
    BY <1>2 DEF Flies
  <2>5. Keeps(op[th].msg) => \A u \in Threads \ {th} : Flies(u) => op[u].msg.id # op[th].msg.id
    BY <2>1 DEF Collides, Flies
  <2>6. ASSUME Keeps(op[th].msg), NEW r \in unanswered, Keeps(r) PROVE r.id # op[th].msg.id
    <3>1. term.packetIDMap[op[th].msg.id] = NoMessage /\ r.type \in Kinds
      BY <1>4, <2>6 DEF InUse, Keeps
    <3>2. CASE \E u \in Threads : op[u].pc = "store" /\ op[u].msg.type = r.type /\ op[u].msg.id = r.id
      <4>1. PICK u \in Threads : op[u].pc = "store" /\ op[u].msg.type = r.type /\ op[u].msg.id = r.id
        BY <3>2
      <4>2. Flies(u) /\ u # th
        BY <1>1, <2>6, <4>1 DEF Flies, Keeps
      <4>. QED
        BY <2>5, <2>6, <4>1, <4>2
    <3>3. CASE term.packetIDMap[r.id] = r.type \/ (r.type = "PUBLISH" /\ term.packetIDMap[r.id] = "DUP")
      BY <3>1, <3>3 DEF Kinds, Acknowledged, NoMessage
    <3>. QED
      BY <2>3, <2>6, <3>2, <3>3 DEF KeptAs
  <2>7. ASSUME NEW u \in Threads, Flies(u)' PROVE Owns(u)'
    <3>1. CASE u = th
      <4>1. Keeps(op[th].msg)
        BY <2>2, <2>7, <3>1 DEF Flies
      <4>. QED
        BY <1>1, <1>2, <1>4, <2>2, <2>4, <2>5, <2>6, <3>1, <4>1 DEF Owns
    <3>2. CASE u # th
      <4>1. Owns(u) /\ op'[u] = op[u] /\ Flies(u)
        BY <1>2, <2>4, <2>7, <3>2 DEF Kept
      <4>2. Flies(th)' => op[u].msg.id # op[th].msg.id
        BY <2>2, <2>5, <3>2, <4>1 DEF Flies
      <4>3. \A v \in Threads \ {u} : Flies(v)' => op'[v].msg.id # op'[u].msg.id
        BY <1>2, <2>2, <2>4, <4>1, <4>2 DEF Owns
      <4>. QED
        BY <1>1, <4>1, <4>3 DEF Owns
    <3>. QED
      BY <3>1, <3>2
  <2>8. Distinct' /\ \A r \in unanswered' : Keeps(r) => KeptAs(r)'
    BY <1>1, <2>3 DEF Kept, Distinct
  <2>9. \A u \in Threads : op'[u].pc = "write" => writeBuff'[op'[u].ct] = op'[u].msg
    BY <1>1, <1>2, <2>2 DEF Kept
  <2>. QED
    BY <2>7, <2>8, <2>9 DEF Kept
<1>. QED
  BY <1>3, <1>4

LEMMA KeptByFill ==
    ASSUME TypeInv, Kept, NEW th \in Threads, Fill(th), NoClash'
    PROVE  Kept'
<1>0. /\ op \in [Threads -> Ops] /\ op[th] \in Ops /\ writeBuff \in [Conns -> Messages]
  BY DEF TypeInv, DataOK, ThreadsOK
<1>1. /\ op[th].pc = "fill" /\ writeBuff' = [writeBuff EXCEPT ![op[th].ct] = op[th].msg]
      /\ op' = [op EXCEPT ![th].pc = "write"] /\ UNCHANGED <<term, unanswered>>
      /\ ~Overwrites(th)
  BY DEF Fill, Sending, Goes, Race, NoClash
<1>2. \A u \in Threads \ {th} : op'[u] = op[u]
  BY <1>0, <1>1
<1>3. op'[th].pc = "write" /\ op'[th].msg = op[th].msg /\ op'[th].ct = op[th].ct
  BY <1>0, <1>1 DEF Ops
<1>4. op[th].ct \in Conns
  BY <1>1, OnDescriptor DEF TypeInv, ThreadsOK, OnTransport
<1>5. ASSUME NEW u \in Threads, op'[u].pc = "write" PROVE writeBuff'[op'[u].ct] = op'[u].msg
  <2>1. CASE u = th
    BY <1>0, <1>1, <1>3, <1>4, <2>1
  <2>2. CASE u # th
    <3>1. op[u].pc = "write" /\ op[u].ct # op[th].ct
      BY <1>1, <1>2, <1>5, <2>2 DEF Overwrites
    <3>2. writeBuff'[op[u].ct] = writeBuff[op[u].ct]
      BY <1>0, <1>1, <3>1
    <3>. QED
      BY <1>2, <2>2, <3>1, <3>2 DEF Kept
  <2>. QED
    BY <2>1, <2>2
<1>6. \A u \in Threads : (Flies(u)' <=> Flies(u)) /\ op'[u].msg = op[u].msg
                         /\ (op'[u].pc = "store" <=> op[u].pc = "store")
  BY <1>1, <1>2, <1>3 DEF Flies
<1>7. \A u \in Threads : Flies(u)' => Owns(u)'
  BY <1>1, <1>6 DEF Kept, Owns
<1>8. Distinct' /\ \A r \in unanswered' : Keeps(r) => KeptAs(r)'
  BY <1>1, <1>6 DEF Kept, Distinct, KeptAs
<1>. QED
  BY <1>5, <1>7, <1>8 DEF Kept

LEMMA KeptByWrite ==
    ASSUME TypeInv, Kept, NEW th \in Threads, Write(th)
    PROVE  Kept'
<1>0. op \in [Threads -> Ops] /\ op[th] \in Ops
  BY DEF TypeInv, ThreadsOK
<1>. DEFINE c == op[th].ct
            new == Request(op[th].msg, file[sock[c]])
<1>1. op[th].pc = "write" /\ UNCHANGED <<term, writeBuff>> /\ writeBuff[c] = op[th].msg
  BY DEF Write, Sending, Dies, network, Kept
<1>2. \A u \in Threads \ {th} : op'[u] = op[u]
  BY OwnPlace DEF Sends
<1>3. CASE unanswered' = unanswered /\ (op' = op \/ \E err : Returns(th, term, err))
  <2>1. op'[th] = op[th] \/ op'[th].pc \in {"idle", "leave"}
    BY <1>0, <1>3 DEF Returns, Idle
  <2>2. \A u \in Threads : Quiet(u)
    BY <1>1, <1>2, <2>1 DEF Quiet, Flies
  <2>. QED
    BY <1>1, <1>3, <2>2, QuietStep
<1>4. CASE unanswered' = Put(writeBuff[c], file[sock[c]]) /\ op' = [op EXCEPT ![th].pc = "store"]
  <2>1. unanswered \subseteq unanswered' /\ unanswered' \subseteq unanswered \cup {new}
    BY <1>1, <1>4 DEF Put
  <2>2. new.id = op[th].msg.id /\ new.type = op[th].msg.type
    BY DEF Request
  <2>. HIDE DEF new
  <2>3. op'[th].pc = "store" /\ op'[th].msg = op[th].msg
    BY <1>0, <1>4 DEF Ops
  <2>4. Keeps(new) <=> Flies(th)
    BY <1>1, <2>2 DEF Keeps, Flies
  <2>5. \A u \in Threads : (Flies(u)' <=> Flies(u)) /\ op'[u].msg = op[u].msg
                           /\ (op'[u].pc # "store" => op[u].pc # "store")
    BY <1>1, <1>2, <2>3 DEF Flies
  <2>6. ASSUME Flies(th)
        PROVE  \A r \in unanswered : Keeps(r) => r.id # new.id
    BY <1>1, <2>2, <2>6 DEF Kept, Owns
  <2>7. Distinct'
    <3>1. ASSUME NEW r \in unanswered', NEW q \in unanswered', Keeps(r), Keeps(q), r.id = q.id
          PROVE  r = q
      BY <2>1, <2>4, <2>6, <3>1 DEF Kept, Distinct
    <3>. QED
      BY <3>1 DEF Distinct
  <2>8. ASSUME NEW r \in unanswered', Keeps(r) PROVE KeptAs(r)'
    <3>1. CASE r = new
      BY <2>2, <2>3, <3>1 DEF KeptAs
    <3>2. CASE r # new
      <4>1. KeptAs(r)
        BY <2>1, <2>8, <3>2 DEF Kept
      <4>. QED
        BY <1>1, <1>2, <4>1 DEF KeptAs
    <3>. QED
      BY <3>1, <3>2
  <2>9. ASSUME NEW u \in Threads, Flies(u)' PROVE Owns(u)'
    <3>1. Owns(u) /\ Flies(u)
      BY <2>5, <2>9 DEF Kept
    <3>2. ASSUME u # th, Keeps(new) PROVE new.id # op[u].msg.id
      BY <2>2, <2>4, <3>1, <3>2 DEF Owns
    <3>3. op'[u].pc # "store" => \A r \in unanswered' : Keeps(r) => r.id # op'[u].msg.id
      BY <2>1, <2>3, <2>5, <3>1, <3>2 DEF Owns
    <3>. QED
      BY <1>1, <2>5, <3>1, <3>3 DEF Owns
  <2>10. \A u \in Threads : op'[u].pc = "write" => writeBuff'[op'[u].ct] = op'[u].msg
    BY <1>1, <1>2, <2>3 DEF Kept
  <2>. QED
    BY <2>7, <2>8, <2>9, <2>10 DEF Kept
<1>. QED
  BY <1>3, <1>4 DEF Write, Goes, Dies

LEMMA KeptByStore ==
    ASSUME TypeInv, Kept, NEW th \in Threads, Store(th)
    PROVE  Kept'
<1>0. /\ op \in [Threads -> Ops] /\ op[th] \in Ops /\ term \in Terms /\ op[th].msg \in Messages
      /\ term.packetIDMap \in [PacketIDs -> Kinds \cup {NoMessage}]
      /\ \A r \in unanswered : r.id \in PacketIDs
      /\ \A u \in Threads : op[u].msg.id \in PacketIDs
  BY DEF TypeInv, DataOK, ThreadsOK, Ops, Terms, Written, Messages
<1>1. /\ op[th].pc = "store" /\ term' = AfterWrite(term, op[th].msg)
      /\ UNCHANGED <<unanswered, writeBuff>>
      /\ \E err : Returns(th, AfterWrite(term, op[th].msg), err)
  BY DEF Store, Sending, network
<1>2. \A u \in Threads \ {th} : op'[u] = op[u]
  BY OwnPlace DEF Sends
<1>3. op'[th].pc \in {"idle", "leave"}
  BY <1>0, <1>1 DEF Returns, Idle
<1>. DEFINE id == op[th].msg.id
            type == op[th].msg.type
<1>4. term'.packetIDMap = IF Keeps(op[th].msg) THEN [term.packetIDMap EXCEPT ![id] = type]
                          ELSE term.packetIDMap
  BY <1>0, <1>1, AfterWriteTerm
<1>5. \A u \in Threads : Flies(u)' => Flies(u) /\ u # th /\ op'[u] = op[u]
  BY <1>2, <1>3 DEF Flies
<1>6. \A i \in PacketIDs : i # id \/ ~Keeps(op[th].msg)
                           => term'.packetIDMap[i] = term.packetIDMap[i]
  BY <1>0, <1>4
<1>7. ASSUME NEW r \in unanswered', Keeps(r) PROVE KeptAs(r)'
  <2>1. KeptAs(r) /\ r.id \in PacketIDs /\ r.type \in Kinds /\ r.type # NoMessage
    BY <1>0, <1>1, <1>7 DEF Kept, Keeps, Kinds, Acknowledged, NoMessage
  <2>2. CASE r.id = id /\ Keeps(op[th].msg)
    <3>1. Flies(th) /\ term.packetIDMap[id] = NoMessage
      BY <1>1, <2>2 DEF Kept, Flies, Owns, InUse
    <3>2. PICK u \in Threads : op[u].pc = "store" /\ op[u].msg.type = r.type /\ op[u].msg.id = r.id
      BY <2>1, <2>2, <3>1 DEF KeptAs, NoMessage
    <3>3. Flies(u)
      BY <1>7, <3>2 DEF Flies, Keeps
    <3>4. u = th
      BY <2>2, <3>1, <3>2, <3>3 DEF Kept, Owns
    <3>5. term'.packetIDMap[r.id] = r.type
      BY <1>0, <1>4, <2>2, <3>2, <3>4
    <3>. QED
      BY <3>5 DEF KeptAs
  <2>3. CASE ~(r.id = id /\ Keeps(op[th].msg))
    <3>1. term'.packetIDMap[r.id] = term.packetIDMap[r.id]
      BY <1>6, <2>1, <2>3
    <3>2. ~(type = r.type /\ id = r.id)
      BY <1>7, <2>3 DEF Keeps
    <3>. QED
      BY <1>2, <2>1, <3>1, <3>2 DEF KeptAs
  <2>. QED
    BY <2>2, <2>3
<1>8. ASSUME NEW u \in Threads, Flies(u)' PROVE Owns(u)'
  <2>1. Owns(u) /\ Flies(u) /\ u # th /\ op'[u] = op[u]
    BY <1>5, <1>8 DEF Kept
  <2>2. op[u].msg.id # id \/ ~Keeps(op[th].msg)
    BY <1>1, <2>1 DEF Owns, Flies
  <2>3. term'.packetIDMap[op[u].msg.id] = term.packetIDMap[op[u].msg.id]
    BY <1>0, <1>6, <2>2
  <2>. QED
    BY <1>1, <1>5, <2>1, <2>3 DEF Owns, InUse
<1>9. Distinct' /\ \A u \in Threads : op'[u].pc = "write" => writeBuff'[op'[u].ct] = op'[u].msg
  BY <1>1, <1>2, <1>3 DEF Kept, Distinct
<1>. QED
  BY <1>7, <1>8, <1>9 DEF Kept

LEMMA KeptStep == ASSUME TypeInv, KeptInv, [Next]_vars PROVE KeptInv'
<1>. SUFFICES ASSUME NoClash' PROVE Kept'
  BY DEF KeptInv
<1>0. op \in [Threads -> Ops] /\ Reader \in Threads /\ op[Reader] \in Ops
  BY DEF TypeInv, ThreadsOK, Threads
<1>1. Kept
  <2>1. races \subseteq races'
    BY ClientSteps, SendsKeep, LeavesKeep, ACallKeeps
       DEF Listens, Dial, SendConnect, Dies, PeerLeaves, Connect, Connects, vars, history
  <2>. QED
    BY <2>1 DEF KeptInv, NoClash
<1>2. CASE Listens
  <2>1. op[Reader].pc = "idle" \/ op' = op
    BY <1>2 DEF Listens, TypeInv, ThreadsOK, Between, SendPlaces
  <2>2. \A u \in Threads : Quiet(u)
    BY <1>0, <1>2, <2>1 DEF Listens, StartSend, InSend, Quiet, Flies
  <2>3. unanswered' \subseteq unanswered /\ writeBuff' = writeBuff
    BY <1>2 DEF Listens, Answered
  <2>4. ASSUME NEW id \in PacketIDs
        PROVE  \/ term'.packetIDMap[id] = term.packetIDMap[id]
               \/ term.packetIDMap[id] = "PUBLISH" /\ term'.packetIDMap[id] = "DUP"
               \/ /\ term'.packetIDMap[id] = NoMessage
                  /\ \A q \in unanswered' : ~(Keeps(q) /\ q.id = id)
    <3>1. ASSUME NEW r \in unanswered, unanswered' = unanswered \ {r}, id = r.id, r.type \in Kinds,
                 NEW q \in unanswered', Keeps(q), q.id = id
          PROVE  FALSE
      BY <1>1, <3>1 DEF Kept, Distinct, Keeps
    <3>. QED
      BY <1>2, <3>1 DEF Listens, Answered
  <2>. QED
    BY <1>1, <2>2, <2>3, <2>4, QuietStep
<1>3. CASE ACall
  <2>1. \A u \in Threads : Quiet(u)
    BY <1>3, ACallKeeps DEF Quiet, Flies
  <2>. QED
    BY <1>1, <1>3, <2>1, ACallKeeps, QuietStep DEF network
<1>4. ASSUME NEW th \in Threads, Check(th) \/ Load(th) PROVE Kept'
  <2>1. \A u \in Threads \ {th} : op'[u] = op[u]
    BY <1>4, OwnPlace DEF Sends
  <2>2. op[th].pc \in {"check", "load"} /\ UNCHANGED <<term, unanswered, writeBuff>>
    BY <1>4 DEF Check, Load, Sending, network
  <2>3. \/ op'[th].pc \in {"idle", "leave", "lookup"}
        \/ op[th].pc = "load" /\ op'[th].pc = "fill" /\ op'[th].msg = op[th].msg
    <3>1. op[th] \in Ops
      BY <1>0
    <3>2. CASE Check(th)
      BY <1>0, <3>1, <3>2 DEF Check, Goes, Returns, Idle, Ops
    <3>3. CASE Load(th)
      BY <1>0, <3>1, <3>3 DEF Load, Sending, Ops
    <3>. QED
      BY <1>4, <3>2, <3>3
  <2>4. \A u \in Threads : Quiet(u)
    BY <2>1, <2>2, <2>3 DEF Quiet, Flies
  <2>. QED
    BY <1>1, <2>2, <2>4, QuietStep
<1>5. ASSUME NEW th \in Threads, Leaves(th) PROVE Kept'
  <2>1. \A u \in Threads : Quiet(u)
    BY <1>5, OwnPlace, LeavesKeep DEF Quiet, Flies
  <2>. QED
    BY <1>1, <1>5, <2>1, LeavesKeep, QuietStep
<1>6. ASSUME NEW cs \in CleanFlags, Connect(cs) PROVE Kept'
  <2>1. UNCHANGED <<op, writeBuff, unanswered>> /\ term'.packetIDMap = term.packetIDMap
    BY <1>6, ConnectOK DEF Connect, Connects
  <2>. QED
    BY <1>1, <2>1, QuietStep DEF Quiet
<1>7. CASE Dial \/ SendConnect \/ PeerLeaves \/ UNCHANGED vars
  <2>1. UNCHANGED <<term, writeBuff, unanswered>>
    BY <1>7 DEF Dial, SendConnect, Dies, PeerLeaves, vars, network
  <2>2. \A u \in Threads : Quiet(u)
    <3>1. CASE op' = op
      BY <3>1 DEF Quiet
    <3>2. CASE op' = [op EXCEPT ![Reader] = InSend(Message("CONNECT", 0), "fill", conn)]
               /\ reader = "connect"
      <4>1. op[Reader].pc = "idle"
        BY <3>2 DEF TypeInv, ThreadsOK, SendPlaces
      <4>2. op'[Reader].pc = "fill" /\ op'[Reader].msg.type = "CONNECT"
        BY <1>0, <3>2 DEF InSend, Message
      <4>3. ~Keeps(op'[Reader].msg)
        BY <4>2 DEF Keeps, Kinds, Acknowledged
      <4>. QED
        BY <1>0, <3>2, <4>1, <4>2, <4>3 DEF Quiet, Flies
    <3>. QED
      BY <1>7, <3>1, <3>2 DEF Dial, SendConnect, Dies, Reads, PeerLeaves, vars
  <2>. QED
    BY <1>1, <2>1, <2>2, QuietStep
<1>. QED
  BY <1>1, <1>2, <1>3, <1>4, <1>5, <1>6, <1>7, ClientSteps,
     KeptByLookup, KeptByFill, KeptByWrite, KeptByStore DEF Sends

\* What has been written and not answered is in packetIDMap, under its
\* identifier and as what it is, however calls, handlers and connections
\* interleave, until one of the two races that the theorem's property names.
THEOREM RequestsKept == Spec => []RequestsAreKept
<1>1. Init => KeptInv
  <2>. SUFFICES ASSUME Init PROVE Kept
    BY DEF KeptInv
  <2>1. unanswered = {} /\ \A th \in Threads : op[th].pc = "idle"
    BY DEF Init, Idle
  <2>. QED
    BY <2>1 DEF Kept, Distinct, Flies
<1>2. TypeInv /\ KeptInv /\ [Next]_vars => KeptInv'
  BY KeptStep
<1>3. KeptInv => RequestsAreKept
  BY DEF KeptInv, Kept, NoClash, Keeps, RequestsAreKept
<1>. QED
  BY <1>1, <1>2, <1>3, TypesAlways, PTL DEF Spec

=============================================================================
