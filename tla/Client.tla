------------------------------- MODULE Client -------------------------------
(***************************************************************************)
(* The client of client.cc.  connect() starts the thread that runs         *)
(* readLoop and joins it, so that it returns when the loop ends; publish,  *)
(* subscribe, unsubscribe, ping and disconnect are called by other threads *)
(* meanwhile.  All of them share the terminal's record and the transport's *)
(* write buffer, without a lock.                                           *)
(*                                                                         *)
(* sendMessage is taken apart where threads meet: the test of isConnecting,*)
(* the lookup of the identifier, the load of ct, getWire into the buffer of*)
(* that transport, write(2) to its descriptor, whatever that is open on by *)
(* now, and the entry in packetIDMap; disconnect likewise.  Single accesses*)
(* to a member or to the map are atomic.                                   *)
(***************************************************************************)
EXTENDS Terminal, Sequences, FiniteSets

CONSTANTS
    Callers,     \* application threads
    Reader,      \* the thread of readLoop, and that of pingLoop, which it joins
    KeepAlives,  \* values of keepAlive; 0 is none
    HasID,       \* whether the client has an identifier
    CleanFlags,  \* values of connect's cleanSession
    QoSs,        \* QoS of calls and of messages received
    TopicLists,  \* filters of subscribe and unsubscribe: sequences of parts
    MaxConns,    \* bound on the calls of connect
    MaxCalls,    \* bound on the other calls
    MaxPubs,     \* bound on the PUBLISHes received
    SomeWill

Threads == Callers \cup {Reader}

\* What the checks of filters tell apart in a part.
Parts == {"name", "#", "+", "#name", "name#"}
StartsWithHash(part) == part \in {"#", "#name"}
EndsWithWildcard(part) == part \in {"#", "+", "name#"}

ASSUME ClientAssumption ==
    /\ Reader \notin Callers
    /\ HasID \in BOOLEAN /\ CleanFlags \subseteq BOOLEAN
    /\ KeepAlives \subseteq Nat /\ QoSs \subseteq 0 .. 2
    /\ MaxConns \in Nat /\ MaxCalls \in Nat /\ MaxPubs \in Nat
    /\ \A ts \in TopicLists : \A i \in DOMAIN ts :
         ts[i] # <<>> /\ \A j \in DOMAIN ts[i] : ts[i][j] \in Parts
    /\ SomeWill # NoWill

Conns == 1 .. MaxConns
Descriptors == 1 .. MaxConns  \* as many as can be open

VARIABLES
    status,      \* "up", or what ended the process
    term,        \* the fields of Terminal
    conn,        \* the number of connections, and the transport ct; 0: none yet
    sock,        \* each transport's descriptor; it keeps the number when it is closed
    file,        \* the connection that each descriptor is open on; 0: none
    peer,        \* each connection's other end
    writeBuff,   \* the message last put into each transport's buffer
    reader,      \* where the thread of connect() is
    op,          \* what each thread has in sendMessage
    unanswered,  \* requests written, until their answer is read
    calls, pubs, \* how many there have been
    left,        \* history: a disconnect() has closed the socket of this transport
    greeted,     \* history: the CONNACK of this connection has been handled
    races        \* history: which of the races below there have been

network == <<conn, sock, file, peer, writeBuff>>
bounds == <<calls, pubs>>
history == <<left, greeted, races>>
vars == <<status, term, network, reader, op, unanswered, bounds, history>>

Message(type, id) == [type |-> type, id |-> id, qos |-> 0, topics |-> <<>>]
Idle == [pc |-> "idle", msg |-> Message("none", 0), ct |-> 0]

\* What a transport writes to; a socket that is not connected yet breaks.
Link(c) == IF file[sock[c]] = 0 THEN "closed" ELSE peer[file[sock[c]]]
Results(c) == IF Link(c) = "none" THEN {"SIGPIPE"} ELSE WriteResults(Link(c))

Init ==
    /\ status = "up"
    /\ term \in [isConnecting : {FALSE}, cleanSession : {FALSE}, will : {SomeWill},
                 keepAlive : KeepAlives, packetIDMap : {EmptyMap}, mt : {0}]
    /\ conn = 0
    /\ sock = [c \in Conns |-> 0] /\ peer = [c \in Conns |-> "none"]
    /\ file = [n \in Descriptors |-> 0]
    /\ writeBuff = [c \in Conns |-> Message("none", 0)]
    /\ reader = "idle"
    /\ op = [th \in Threads |-> Idle]
    /\ unanswered = {}
    /\ calls = 0 /\ pubs = 0
    /\ left = FALSE /\ greeted = FALSE /\ races = {}

-----------------------------------------------------------------------------
(***************************************************************************)
(* Threads.                                                                *)
(***************************************************************************)
AtRest == {"idle", "read", "blocked", "ping"}

Reads(where) == status = "up" /\ reader = where

\* The test of readLoop, with the result of a handler; "idle" is the return of
\* connect(), which leaves isConnecting and the socket as they are.
LoopTest(t, err) == IF err = "NO_ERROR" /\ t.isConnecting THEN "read" ELSE "idle"

InSend(m, pc, c) == [pc |-> pc, msg |-> m, ct |-> c]
StartSend(th, m) == op' = [op EXCEPT ![th] = InSend(m, "check", 0)]

\* sendMessage returns: connect starts the thread of the loop, pingLoop goes on,
\* a handler returns to the loop, a call returns, except that disconnect goes on
\* and does not look at the result.
Returns(th, t, err) ==
    /\ op' = [op EXCEPT ![th] = IF th # Reader /\ op[th].msg.type = "DISCONNECT"
                                THEN [Idle EXCEPT !.pc = "leave"] ELSE Idle]
    /\ reader' = IF th # Reader THEN reader
                 ELSE CASE op[th].msg.type = "CONNECT"    -> (IF err = "NO_ERROR" THEN "read" ELSE "idle")
                        [] op[th].msg.type = "PINGRESP"   -> "ping"
                        [] op[th].msg.type = "DISCONNECT" -> LoopTest(t, "SERVER_TIMED_OUT")
                        [] OTHER                          -> LoopTest(t, err)

Sending(th, pc) == status = "up" /\ op[th].pc = pc
Goes(th, pc) == op' = [op EXCEPT ![th].pc = pc] /\ UNCHANGED reader

\* Three races of threads that no lock excludes, kept as history: "identifier",
\* two messages that are kept pass the lookup under one identifier; "buffer", a
\* message is overwritten before it is written; "connack", a CONNACK is handled
\* between the two halves of disconnectProcessing.
Race(name, happens) == races' = races \cup (IF happens THEN {name} ELSE {})

Collides(th) ==
    \E u \in Threads \ {th} :
        /\ op[u].pc \in {"load", "fill", "write", "store"}
        /\ Keeps(op[u].msg) /\ Keeps(op[th].msg) /\ op[u].msg.id = op[th].msg.id

Overwrites(th) ==
    \E u \in Threads \ {th} : op[u].pc = "write" /\ op[u].ct = op[th].ct

Check(th) ==
    /\ Sending(th, "check")
    /\ IF term.isConnecting THEN Goes(th, "lookup") ELSE Returns(th, term, "NOT_CONNECTED")
    /\ UNCHANGED <<status, term, network, unanswered, bounds, history>>

\* MUTANT of Lookup: an identifier in use is not refused.
Lookup_AllowsInUse(th) ==
    /\ Sending(th, "lookup")
    /\ Goes(th, "load")
    /\ Race("identifier", Collides(th))
    /\ UNCHANGED <<status, term, network, unanswered, bounds, left, greeted>>

Lookup(th) ==
    /\ Sending(th, "lookup")
    /\ IF InUse(term, op[th].msg.id)
       THEN Returns(th, term, "PACKET_ID_IS_USED_ALREADY") /\ UNCHANGED races
       ELSE Goes(th, "load") /\ Race("identifier", Collides(th))
    /\ UNCHANGED <<status, term, network, unanswered, bounds, left, greeted>>

\* this->ct, which connect() may replace at any time.
Load(th) ==
    /\ Sending(th, "load")
    /\ op' = [op EXCEPT ![th].pc = "fill", ![th].ct = conn]
    /\ UNCHANGED <<status, term, network, reader, unanswered, bounds, history>>

\* getWire
Fill(th) ==
    /\ Sending(th, "fill")
    /\ writeBuff' = [writeBuff EXCEPT ![op[th].ct] = op[th].msg]
    /\ Goes(th, "write")
    /\ Race("buffer", Overwrites(th))
    /\ UNCHANGED <<status, term, conn, sock, file, peer, unanswered, bounds, left, greeted>>

Requests == {"CONNECT", "PUBLISH", "PUBREC", "PUBREL", "SUBSCRIBE", "UNSUBSCRIBE", "PINGREQ"}
Asks(m) == m.type \in Requests /\ (m.type = "PUBLISH" => m.qos > 0)
Request(m, c) == [type |-> m.type, id |-> m.id, qos |-> m.qos, topics |-> m.topics, conn |-> c]
Put(m, c) == unanswered \cup (IF Asks(m) THEN {Request(m, c)} ELSE {})

Dies(how) ==
    status' = how /\ UNCHANGED <<term, network, reader, op, unanswered, bounds, history>>

\* What goes out is what the buffer holds by now, and it goes to the connection
\* that the descriptor is open on by now.  A CONNECT has nothing to keep either.
Write(th) ==
    LET c == op[th].ct
    IN /\ Sending(th, "write")
       /\ \E r \in Results(c) :
            CASE r = "SIGPIPE" -> Dies("sigpipe")
              [] r = "NO_ERROR" ->
                   /\ unanswered' = Put(writeBuff[c], file[sock[c]])
                   /\ Goes(th, "store")
                   /\ UNCHANGED <<status, term, network, bounds, history>>
              [] OTHER ->
                   /\ Returns(th, term, r)
                   /\ UNCHANGED <<status, term, network, unanswered, bounds, history>>

Store(th) ==
    LET t == AfterWrite(term, op[th].msg)
    IN /\ Sending(th, "store")
       /\ term' = t
       /\ Returns(th, t, AfterWriteError(op[th].msg))
       /\ UNCHANGED <<status, network, unanswered, bounds, history>>

-----------------------------------------------------------------------------
(***************************************************************************)
(* Calls.                                                                  *)
(***************************************************************************)
Calls(th) ==
    /\ status = "up" /\ op[th].pc = "idle"
    /\ calls < MaxCalls /\ calls' = calls + 1
    /\ UNCHANGED <<status, network, reader, unanswered, pubs, history>>

\* getUsablePacketID, and what follows if it finds one.
DrawAndSend(th, m, err) ==
    \E o \in DrawOutcomes(term) :
        /\ term' = o.t
        /\ IF o.err = "NO_ERROR" /\ err = "NO_ERROR"
           THEN StartSend(th, [m EXCEPT !.id = o.id]) ELSE UNCHANGED op

Publish(th, qos) ==
    LET m == [Message("PUBLISH", 0) EXCEPT !.qos = qos]
    IN /\ Calls(th)
       /\ IF qos > 0 THEN DrawAndSend(th, m, "NO_ERROR")
          ELSE StartSend(th, m) /\ UNCHANGED term

\* The loop over the filters.  Its inner loop counts with i, the index of the
\* filter, instead of j: it looks at the first part only, if at any, and the
\* filters up to the number of parts are passed over.
SubscribeError(topics) ==
    LET next(i) == IF i < Len(topics[i + 1]) THEN Len(topics[i + 1]) + 1 ELSE i + 1
        bad(f) == StartsWithHash(f[1]) /\ Len(f) # 1
        from[i \in Nat] ==
            IF i >= Len(topics) THEN "NO_ERROR"
            ELSE IF i < Len(topics[i + 1]) /\ bad(topics[i + 1])
                 THEN "MULTI_LEVEL_WILDCARD_MUST_BE_ON_TAIL"
                 ELSE from[next(i)]
    IN from[0]

Subscribe(th, topics) ==
    /\ Calls(th)
    /\ DrawAndSend(th, [Message("SUBSCRIBE", 0) EXCEPT !.topics = topics], SubscribeError(topics))

\* Every part is looked at, and any wildcard is refused, also one by itself.
Refusable(topics) ==
    \E i \in DOMAIN topics : \E j \in DOMAIN topics[i] :
        \/ StartsWithHash(topics[i][j]) /\ j # Len(topics[i])
        \/ EndsWithWildcard(topics[i][j])

Unsubscribe(th, topics) ==
    /\ Calls(th)
    /\ IF Refusable(topics) THEN UNCHANGED <<term, op>>
       ELSE DrawAndSend(th, [Message("UNSUBSCRIBE", 0) EXCEPT !.topics = topics], "NO_ERROR")

Ping(th) == Calls(th) /\ StartSend(th, Message("PINGREQ", 0)) /\ UNCHANGED term

Disconnect(th) == Calls(th) /\ StartSend(th, Message("DISCONNECT", 0)) /\ UNCHANGED term

\* MUTANT of Leave: disconnectBase is left to mark the session.
Leave_Marked(th) ==
    /\ Sending(th, "leave")
    /\ Goes(th, "unmark")
    /\ UNCHANGED <<status, term, network, unanswered, bounds, history>>

\* disconnectProcessing, up to the call of disconnectBase.
Leave(th) ==
    /\ Sending(th, "leave")
    /\ term' = [term EXCEPT !.isConnecting = FALSE]
    /\ Goes(th, "unmark")
    /\ UNCHANGED <<status, network, unanswered, bounds, history>>

\* disconnectBase, up to the close.
Unmark(th) ==
    /\ Sending(th, "unmark")
    /\ term' = Disconnected(term)
    /\ Goes(th, "take")
    /\ UNCHANGED <<status, network, unanswered, bounds, history>>

\* this->ct->sock; ct is not set before connect().
Take(th) ==
    /\ Sending(th, "take")
    /\ IF conn = 0 THEN Dies("no_transport")
       ELSE /\ op' = [op EXCEPT ![th].pc = "close", ![th].ct = conn]
            /\ UNCHANGED <<status, term, network, reader, unanswered, bounds, history>>

Closes(th, cond) ==
    /\ Sending(th, "close")
    /\ file' = IF cond THEN [file EXCEPT ![sock[op[th].ct]] = 0] ELSE file
    /\ op' = [op EXCEPT ![th] = Idle]
    /\ left' = (left \/ op[th].ct = conn)
    /\ UNCHANGED <<status, term, conn, sock, peer, writeBuff, reader, unanswered, bounds, greeted, races>>

\* MUTANT of Close: the socket is closed only when the session is connected.
Close_IfConnecting(th) == Closes(th, term.isConnecting)

\* close(2), of whatever has the number by now.
Close(th) == Closes(th, TRUE)

-----------------------------------------------------------------------------
(***************************************************************************)
(* connect and the read loop.                                              *)
(***************************************************************************)
Connects(cs, map) ==
    /\ Reads("idle")
    /\ HasID \/ cs
    /\ conn < MaxConns /\ conn' = conn + 1
    /\ \E n \in Descriptors :
         /\ file[n] = 0
         /\ sock' = [sock EXCEPT ![conn + 1] = n]
         /\ file' = [file EXCEPT ![n] = conn + 1]
    /\ term' = [term EXCEPT !.cleanSession = cs, !.packetIDMap = map]
    /\ reader' = "dial"
    /\ left' = FALSE /\ greeted' = FALSE
    /\ UNCHANGED <<status, peer, writeBuff, op, unanswered, bounds, races>>

\* MUTANT of Connect: a clean session forgets the packets in flight, while
\* other threads may have written, or be writing, theirs.
Connect_Forgets(cs) == Connects(cs, IF cs THEN EmptyMap ELSE term.packetIDMap)

\* A new transport, which the other threads see at once; its descriptor may
\* have the number of one that was closed.  The packets in flight stay,
\* whatever cs is.
Connect(cs) == Connects(cs, term.packetIDMap)

\* connectTarget; that a server refuses is PeerLeaves at once.
Dial ==
    /\ Reads("dial")
    /\ peer' = [peer EXCEPT ![conn] = "open"]
    /\ reader' = "connect"
    /\ UNCHANGED <<status, term, conn, sock, file, writeBuff, op, unanswered, bounds, history>>

\* The constructor of the CONNECT follows the pointer to the will.  The
\* transport itself writes it, without the tests of sendMessage.
SendConnect ==
    /\ Reads("connect")
    /\ IF term.will = NoWill THEN Dies("no_will")
       ELSE /\ op' = [op EXCEPT ![Reader] = InSend(Message("CONNECT", 0), "fill", conn)]
            /\ reader' = "greet"
            /\ UNCHANGED <<status, term, network, unanswered, bounds, history>>

\* read(2): on a closed descriptor it fails; one that has begun goes on when
\* another thread closes the descriptor.
EnterRead ==
    /\ Reads("read")
    /\ reader' = IF Link(conn) = "closed" THEN LoopTest(term, "READ_ERROR") ELSE "blocked"
    /\ UNCHANGED <<status, term, network, op, unanswered, bounds, history>>

PeerLeaves ==
    /\ status = "up" /\ conn > 0 /\ peer[conn] = "open"
    /\ peer' = [peer EXCEPT ![conn] = "gone"]
    /\ UNCHANGED <<status, term, conn, sock, file, writeBuff, reader, op, unanswered, bounds, history>>

\* MUTANT of PeerClosed: the end of the stream is not told from a message.
PeerClosed_Ignored ==
    /\ Reads("blocked") /\ peer[conn] = "gone"
    /\ reader' = LoopTest(term, "NO_ERROR")
    /\ UNCHANGED <<status, term, network, op, unanswered, bounds, history>>

\* The end of the stream; after the peer's reset read(2) fails instead.
PeerClosed ==
    /\ Reads("blocked") /\ peer[conn] = "gone"
    /\ \E err \in {"PEER_CLOSED", "READ_ERROR"} :
         /\ file' = IF err = "PEER_CLOSED" THEN [file EXCEPT ![sock[conn]] = 0] ELSE file
         /\ reader' = LoopTest(term, err)
    /\ UNCHANGED <<status, term, conn, sock, peer, writeBuff, op, unanswered, bounds, history>>

\* A message that no server sends, or that cannot be parsed.
RecvInvalid ==
    /\ Reads("blocked") /\ peer[conn] = "open"
    /\ reader' = "idle"
    /\ UNCHANGED <<status, term, network, op, unanswered, bounds, history>>

\* The server answers requests of this connection, in any order.
Answers(types) ==
    {r \in unanswered : r.conn = conn /\ r.type \in types}

RecvAnswer(r) ==
    /\ Reads("blocked") /\ peer[conn] = "open"
    /\ unanswered' = unanswered \ {r}
    /\ UNCHANGED <<status, network, bounds>>

\* A handler returns, or goes on to send m.
Handled(t, err) ==
    term' = t /\ reader' = LoopTest(t, err) /\ UNCHANGED <<op, history>>

\* MUTANT of Replies: the loop reads on while the reply is being sent.
Replies_ReadsOn(t, m) ==
    term' = t /\ reader' = LoopTest(t, "NO_ERROR") /\ StartSend(Reader, m) /\ UNCHANGED history

Replies(t, m) == term' = t /\ reader' = "handle" /\ StartSend(Reader, m) /\ UNCHANGED history

Greets(r, where) ==
    /\ RecvAnswer(r)
    /\ term' = [term EXCEPT !.isConnecting = TRUE]
    /\ reader' = where
    /\ greeted' = TRUE
    /\ Race("connack", \E th \in Threads : op[th].pc = "unmark")
    /\ UNCHANGED <<op, left>>

\* MUTANT of RecvConnack: pingLoop's thread is not joined.
RecvConnack_Detached(r) == Greets(r, "redeliver")

\* The return code is not looked at.  With a keep-alive the handler joins the
\* thread of pingLoop.
RecvConnack(r) == Greets(r, IF term.keepAlive # 0 THEN "ping" ELSE "redeliver")

\* pingLoop: it sends PINGRESP, and does not look at the result.
SendPing ==
    /\ Reads("ping") /\ term.isConnecting /\ op[Reader].pc = "idle"
    /\ StartSend(Reader, Message("PINGRESP", 0))
    /\ reader' = "pinging"
    /\ UNCHANGED <<status, term, network, unanswered, bounds, history>>

PingEnds ==
    /\ Reads("ping") /\ ~term.isConnecting
    /\ reader' = "redeliver"
    /\ UNCHANGED <<status, term, network, op, unanswered, bounds, history>>

\* redelivery fails at the first packet in flight, which is in the map.
Redelivery ==
    LET kept == {id \in PacketIDs : InUse(term, id)}
        first == CHOOSE id \in kept : \A i \in kept : id <= i
        kind == IF term.packetIDMap[first] = "PUBLISH" THEN "DUP" ELSE term.packetIDMap[first]
        marked == [term EXCEPT !.packetIDMap[first] = kind]
    IN /\ Reads("redeliver")
       /\ IF term.cleanSession \/ kept = {} THEN Handled(term, "NO_ERROR")
          ELSE Handled(marked, Refusal(marked, Message(kind, first)))
       /\ UNCHANGED <<status, network, unanswered, bounds>>

\* PublishMessage::parse leaves the identifier as it is: it may be any.
RecvPublish(qos, id) ==
    /\ Reads("blocked") /\ peer[conn] = "open"
    /\ pubs < MaxPubs /\ pubs' = pubs + 1
    /\ CASE qos = 0 -> Handled(term, IF id # 0 THEN "PACKET_ID_SHOULD_BE_ZERO" ELSE "NO_ERROR")
         [] qos = 1 -> Replies(term, Message("PUBACK", id))
         [] qos = 2 -> Replies(term, Message("PUBREC", id))
    /\ UNCHANGED <<status, network, unanswered, calls>>

RecvPuback(r) ==
    /\ r.qos = 1 /\ RecvAnswer(r)
    /\ IF r.id > 0 THEN Handled(Acked(term, r.id), AckError(term, r.id))
       ELSE Handled(term, "NO_ERROR")

\* `err < 0` never holds: the PUBREL, and the PUBCOMP, are sent all the same.
RecvPubrec(r) ==
    r.qos = 2 /\ RecvAnswer(r) /\ Replies(Acked(term, r.id), Message("PUBREL", r.id))
RecvPubrel(r) ==
    RecvAnswer(r) /\ Replies(Acked(term, r.id), Message("PUBCOMP", r.id))

\* recvPubcompMessage, recvSubackMessage and recvUnsubackMessage.
RecvAck(r) ==
    RecvAnswer(r) /\ Handled(Acked(term, r.id), AckError(term, r.id))

\* keepAlive is 0 when this is reached, so that any PINGRESP is late.
RecvPingresp(r, elapsed) ==
    /\ RecvAnswer(r)
    /\ IF elapsed >= term.keepAlive THEN Replies(term, Message("DISCONNECT", 0))
       ELSE Handled(term, "NO_ERROR")

Receive ==
    \/ \E r \in Answers({"CONNECT"}) : RecvConnack(r)
    \/ \E r \in Answers({"PUBLISH"}) : RecvPuback(r) \/ RecvPubrec(r)
    \/ \E r \in Answers({"PUBREC"}) : RecvPubrel(r)
    \/ \E r \in Answers({"PUBREL", "SUBSCRIBE", "UNSUBSCRIBE"}) : RecvAck(r)
    \/ \E r \in Answers({"PINGREQ"}) : \E elapsed \in 0 .. term.keepAlive : RecvPingresp(r, elapsed)
    \/ \E qos \in QoSs : \E id \in PacketIDs : RecvPublish(qos, id)
    \/ RecvInvalid

\* The steps of the client's threads that wait for nobody.
Sends(th) == Check(th) \/ Lookup(th) \/ Load(th) \/ Fill(th) \/ Write(th) \/ Store(th)
Leaves(th) == Leave(th) \/ Unmark(th) \/ Take(th) \/ Close(th)

Proceed ==
    \/ \E th \in Threads : Sends(th) \/ Leaves(th)
    \/ Dial \/ SendConnect \/ EnterRead \/ PeerClosed \/ SendPing \/ PingEnds \/ Redelivery

Call ==
    \/ \E cs \in CleanFlags : Connect(cs)
    \/ \E th \in Callers :
         \/ \E qos \in QoSs : Publish(th, qos)
         \/ \E ts \in TopicLists : Subscribe(th, ts) \/ Unsubscribe(th, ts)
         \/ Ping(th) \/ Disconnect(th)

Next == Proceed \/ Call \/ Receive \/ PeerLeaves

Spec == Init /\ [][Next]_vars

\* A thread that can run does.
FairSpec == Spec /\ WF_vars(Dial \/ SendConnect \/ EnterRead \/ PeerClosed \/ PingEnds \/ Redelivery)
                 /\ WF_vars(SendPing)
                 /\ \A th \in Threads : WF_vars(Sends(th) \/ Leaves(th))

-----------------------------------------------------------------------------
(***************************************************************************)
(* Properties.                                                             *)
(***************************************************************************)
\* Every variable keeps its type; a thread is in sendMessage only from where
\* the code calls it, and on a transport that has been made; a descriptor is
\* open on a connection of the transport that it was made for.
TypeOK ==
    /\ status \in {"up", "sigpipe", "no_transport", "no_will"}
    /\ term.isConnecting \in BOOLEAN /\ term.will \in {SomeWill, NoWill}
    /\ term.mt \in GeneratorStates
    /\ term.packetIDMap \in [PacketIDs -> Kinds \cup {NoMessage}]
    /\ conn \in 0 .. MaxConns
    /\ \A n \in Descriptors : file[n] # 0 => file[n] \in 1 .. conn /\ sock[file[n]] = n
    /\ reader \in AtRest \cup {"dial", "connect", "greet", "handle", "pinging", "redeliver"}
    /\ op[Reader].pc \in {"idle", "check", "lookup", "load", "fill", "write", "store"}
    /\ op[Reader].pc # "idle" <=> reader \in {"greet", "handle", "pinging"}
    /\ \A th \in Threads : op[th].pc \in {"fill", "write", "store", "close"} => op[th].ct \in 1 .. conn

\* A request that the server has not answered is kept, under its identifier
\* and as what it is: the map, which both directions share and which ackMessage
\* never asks for the kind of what it deletes, mixes nothing up, over any
\* number of connections and whatever the interleaving of calls and handlers.
\* Two races are all that breaks it: two threads pass the lookup under one
\* identifier, or one overwrites in the buffer what the other has yet to write.
KeptAs(r) ==
    \/ term.packetIDMap[r.id] = r.type
    \/ r.type = "PUBLISH" /\ term.packetIDMap[r.id] = "DUP"
    \/ \E th \in Threads : op[th].pc = "store" /\ op[th].msg.type = r.type /\ op[th].msg.id = r.id

RequestsAreKept ==
    races \cap {"identifier", "buffer"} = {} =>
        \A r \in unanswered : r.type \in Kinds /\ r.id > 0 => KeptAs(r)

\* A client can connect again: disconnectBase, which would take its will away,
\* finds the session marked already, and the CONNECT has a will to write.  All
\* that breaks it is a CONNACK that is handled between the two halves of
\* disconnectProcessing and marks the session connected again.
WillOutlivesDisconnect == status = "no_will" => "connack" \in races

\* After a disconnect() has closed the socket of the present transport nothing
\* goes out on its connection, whatever other threads have tested or loaded
\* before, whatever transports and descriptors they write to, and although a
\* CONNACK that comes late marks the session connected again.
SilentAfterDisconnect ==
    [][left /\ left' => \A r \in unanswered' \ unanswered : r.conn # conn]_vars

\* With a keep-alive the client reads nothing after the CONNACK, neither an
\* answer nor a PUBLISH, until it connects again: the thread that reads is
\* joined to pingLoop until the session is disconnected, and then ends.
DeafWithKeepAlive ==
    [][term.keepAlive > 0 /\ greeted => unanswered \subseteq unanswered' /\ pubs' = pubs]_vars

\* connect() comes back when the server leaves, whatever other threads do.
LeavingEndsConnect ==
    (conn > 0 /\ peer[conn] = "gone" /\ term.keepAlive = 0) ~> (reader = "idle" \/ status # "up")

\* What client.cc:48 says of the assignment of isConnecting in
\* disconnectProcessing: it makes readLoop stop.
DisconnectStopsReadLoop == left ~> (reader = "idle" \/ status # "up")

\* What the error MULTI_LEVEL_WILDCARD_MUST_BE_ON_TAIL says of the filters
\* that subscribe() checks: no SUBSCRIBE is written with "#" before the end of
\* a filter.
SubscribesToTails ==
    \A r \in unanswered : r.type = "SUBSCRIBE" =>
        \A i \in DOMAIN r.topics : \A j \in DOMAIN r.topics[i] :
            StartsWithHash(r.topics[i][j]) => j = Len(r.topics[i])

=============================================================================
