------------------------------- MODULE Broker -------------------------------
(***************************************************************************)
(* The broker of broker.cc: the accept loop, the session it serves, the    *)
(* registry clients, the subscribers and retained messages of the topic    *)
(* tree, and the keep-alive timer.                                         *)
(*                                                                         *)
(* Start joins the thread that runs readLoop before it accepts again, and  *)
(* every timer thread is joined by the handler that starts it, so at most  *)
(* one connection is served at a time (cur) and pc says where its handler  *)
(* is.  The sessions of earlier connections stay in memory and are written *)
(* to by later ones.  Peers connect, send and leave at any moment.         *)
(***************************************************************************)
EXTENDS Terminal, FiniteSets

CONSTANTS
    Slots,      \* addresses at which a BrokerSideClient may be allocated
    Conns,      \* TCP connections, each used once
    MaxFd,      \* bound on the descriptors open at once
    Names,      \* client identifiers that clients choose
    MaxDummy,   \* bound on n in the identifiers "DummyClientID<n>"
    Anon,       \* the empty client identifier
    Topics,     \* topics and filters, each naming one node of the tree
    BadTopics,  \* those that getTopicNode refuses
    Wills,      \* wills a CONNECT may carry: [topic, qos, retain]
    KeepAlives, \* whether a CONNECT may ask for a keep-alive
    MaxQoS,
    MaxPings,   \* bound on the PINGREQs of a session with a keep-alive
    Nil,        \* no entry, no connection, no session
    Null        \* a NULL pointer

QoS == 0 .. MaxQoS
NoQoS == -1
Fds == 1 .. MaxFd
DummyIDs == 1 .. MaxDummy
IDs == Names \cup DummyIDs \cup {Anon}

ASSUME BrokerAssumption ==
    /\ MaxFd \in Nat /\ MaxDummy \in Nat /\ MaxQoS \in Nat /\ MaxPings \in Nat
    /\ Nil \notin Slots \cup Conns \cup Topics
    /\ Null \notin Slots \cup {Nil}
    /\ Anon \notin Names \cup DummyIDs
    /\ BadTopics \subseteq Topics
    /\ Wills \subseteq [topic : Topics, qos : QoS, retain : BOOLEAN]
    /\ NoWill \notin Wills
    /\ KeepAlives \subseteq BOOLEAN

VARIABLES
    status,       \* "up", or what ended the process
    pc,           \* where the handler of the session being served is
    cur,          \* that session, Nil in accept()
    pub,          \* the message the handler forwards or answers
    todo,         \* what is left of the loop the handler is in
    session,      \* the contents of the BrokerSideClient at each address
    heap,         \* whether that address is "unused", "live" or "freed"
    clients,      \* the registry; Nil where it has no entry
    subscribers,  \* subscribers[t][id]: the QoS granted on node t, or NoQoS
    retained,     \* QoS of the message retained on each node, or NoQoS
    socket,       \* the connection behind each open descriptor, or Nil
    peer,         \* each peer: "idle" (not accepted yet), "open" or "gone"
    tcp,          \* history: the connection each session was accepted on
    stale         \* history: keys whose BrokerSideClient has been deleted

process == <<status, pc, cur>>
locals == <<pub, todo>>
registry == <<heap, clients, stale>>
tree == <<subscribers, retained>>
network == <<socket, peer, tcp>>
vars == <<process, locals, session, registry, tree, network>>

Unset == "unset"      \* threads has no entry
Waiting == "waiting"  \* threads[i] == false
Pinged == "pinged"    \* threads[i] == true

\* BrokerSideClient(new Transport(sock, ...), broker)
NewSession(fd) ==
    [fd |-> fd, isConnecting |-> FALSE, cleanSession |-> FALSE, ID |-> Anon,
     will |-> NoWill, keepAlive |-> FALSE, packetIDMap |-> EmptyMap, mt |-> 0,
     threads |-> [i \in 0 .. MaxPings |-> Unset], threadIdx |-> 0]

NoPub == [topic |-> Nil, qos |-> 0, id |-> 0, err |-> "NO_ERROR"]

Init ==
    /\ status = "up" /\ pc = "accept" /\ cur = Nil
    /\ pub = NoPub /\ todo = {}
    /\ session = [s \in Slots |-> NewSession(0)]
    /\ heap = [s \in Slots |-> "unused"]
    /\ clients = [k \in IDs |-> Nil]
    /\ subscribers = [t \in Topics |-> [k \in IDs |-> NoQoS]]
    /\ retained = [t \in Topics |-> NoQoS]
    /\ socket = [fd \in Fds |-> Nil]
    /\ peer = [c \in Conns |-> "idle"]
    /\ tcp = [s \in Slots |-> Nil]
    /\ stale = {}

-----------------------------------------------------------------------------
At(place) == status = "up" /\ pc = place

Crash(cause) ==
    /\ status' = cause
    /\ UNCHANGED <<pc, cur, locals, session, registry, tree, network>>

Link(t) ==
    IF t.fd \notin Fds \/ socket[t.fd] = Nil THEN "closed"
    ELSE IF peer[socket[t.fd]] = "gone" THEN "gone" ELSE "open"

\* MUTANT of LoopTest: the loop ends on an error only.
LoopTest_IgnoresConnected(t, err) ==
    /\ pc' = IF err = "NO_ERROR" THEN "read" ELSE "accept"
    /\ cur' = IF err = "NO_ERROR" THEN cur ELSE Nil
    /\ pub' = NoPub
    /\ todo' = {}
    /\ UNCHANGED status

\* readLoop goes on while the handler reports no error and the session is
\* connected; otherwise its thread ends and Start accepts again.
LoopTest(t, err) ==
    /\ pc' = IF err = "NO_ERROR" /\ t.isConnecting THEN "read" ELSE "accept"
    /\ cur' = IF err = "NO_ERROR" /\ t.isConnecting THEN cur ELSE Nil
    /\ pub' = NoPub
    /\ todo' = {}
    /\ UNCHANGED status

\* The handler of cur returns o.err, having left the session as o.t.
Return(o) ==
    IF o.err = "SIGPIPE" THEN Crash("sigpipe")
    ELSE /\ LoopTest(o.t, o.err)
         /\ session' = [session EXCEPT ![cur] = o.t]
         /\ UNCHANGED <<registry, tree, network>>

Done(t, err) == Return([t |-> t, err |-> err, wrote |-> FALSE])

\* The handler's last statement sends m: its result is the handler's.
Reply(t, m) == \E o \in SendOutcomes(t, m, Link(t)) : Return(o)

Lower(p, q) == IF p < q THEN p ELSE q

\* checkQoSAndPublish: an identifier is drawn before sendMessage finds out
\* whether the session is connected at all.
PublishOutcomes(t, qos, link) ==
    IF qos = 0 THEN SendOutcomes(t, [type |-> "PUBLISH", id |-> 0], link)
    ELSE UNION { IF d.err # "NO_ERROR"
                 THEN { [t |-> d.t, err |-> d.err, wrote |-> FALSE] }
                 ELSE SendOutcomes(d.t, [type |-> "PUBLISH", id |-> d.id], link) :
                 d \in DrawOutcomes(t) }

-----------------------------------------------------------------------------
(***************************************************************************)
(* Connections come and go.                                                *)
(***************************************************************************)
\* accept() returns the lowest descriptor that is not open, and `new` may
\* hand out memory that has been freed.
Accept(c, s) ==
    /\ At("accept") /\ peer[c] = "idle" /\ heap[s] # "live"
    /\ \E fd \in Fds :
         /\ socket[fd] = Nil /\ \A lower \in 1 .. fd - 1 : socket[lower] # Nil
         /\ socket' = [socket EXCEPT ![fd] = c]
         /\ session' = [session EXCEPT ![s] = NewSession(fd)]
    /\ heap' = [heap EXCEPT ![s] = "live"]
    /\ peer' = [peer EXCEPT ![c] = "open"]
    /\ tcp' = [tcp EXCEPT ![s] = c]
    /\ pc' = "read" /\ cur' = s
    /\ UNCHANGED <<status, locals, clients, stale, tree>>

PeerLeaves(c) ==
    /\ status = "up" /\ peer[c] = "open"
    /\ peer' = [peer EXCEPT ![c] = "gone"]
    /\ UNCHANGED <<process, locals, session, registry, tree, socket, tcp>>

\* read() returns 0 once the peer has closed: the descriptor is closed and
\* the loop ends, but the session stays marked connected.
PeerClosed ==
    /\ At("read") /\ Link(session[cur]) = "gone"
    /\ socket' = [socket EXCEPT ![session[cur].fd] = Nil]
    /\ LoopTest(session[cur], "PEER_CLOSED")
    /\ UNCHANGED <<session, registry, tree, peer, tcp>>

\* read() fails: the peer has reset the connection, or the socket has been
\* closed under the loop.
ReadError ==
    /\ At("read") /\ Link(session[cur]) # "open"
    /\ Done(session[cur], "READ_ERROR")

\* A message may be read whose sender has left since.
Received == At("read") /\ Link(session[cur]) # "closed"

\* A header that does not parse, or a message that only a client receives.
RecvInvalid == Received /\ Done(session[cur], "INVALID_MESSAGE_CAME")

-----------------------------------------------------------------------------
(***************************************************************************)
(* CONNECT.  Clients are assumed to send one per connection; the broker    *)
(* does not check it.                                                      *)
(***************************************************************************)
ConnectReceived == Received /\ ~session[cur].isConnecting

\* The program dies on a CONNECT that has no will or no user (getString
\* follows a pointer that was never set), on one whose key maps to NULL,
\* and possibly on one whose key maps to a deleted object.
ConnectCrashes(id) ==
    /\ ConnectReceived
    /\ \/ Crash("unset_pointer")
       \/ clients[id] = Null /\ Crash("null_session")
       \/ clients[id] \in Slots /\ heap[clients[id]] = "freed" /\ Crash("freed_session")

Known(id) == clients[id] # Nil
IDInUse(id) == clients[id] \in Slots /\ session[clients[id]].isConnecting
Resumes(id) == Known(id) /\ ~session[cur].cleanSession

\* MUTANT of Refused: the test of an identifier in use is missing.
Refused_NotInUse(id, cs) == ~Resumes(id) /\ ~cs /\ id = Anon

Refused(id, cs) == IDInUse(id) \/ (~Resumes(id) /\ ~cs /\ id = Anon)

\* The CONNACK that would say so is never written: sendMessage refuses it,
\* because the session is not connected.
RejectConnect(id, cs) ==
    /\ ConnectReceived /\ clients[id] # Null /\ Refused(id, cs)
    /\ Done(session[cur], "CONNECT_REFUSED")

\* MUTANT of NextDummyID: it counts the clients that are connected.
NextDummyID_Connected == Cardinality({k \in IDs : IDInUse(k)}) + 1

NextDummyID == Cardinality({k \in IDs : Known(k)}) + 1

\* setPreviousSession: the identifier is not copied.
Inherit(t, ps) ==
    [t EXCEPT !.packetIDMap = ps.packetIDMap, !.cleanSession = ps.cleanSession,
              !.will = ps.will, !.keepAlive = ps.keepAlive]

\* What recvConnectMessage makes of the session before the timer starts.
\* (The CONNECT has a will, or the program has died already.)
Installed(id, key, cs, ka, w) ==
    LET t == IF Resumes(id) THEN Inherit(session[cur], session[clients[id]])
             ELSE session[cur]
    IN  [(IF cs \/ ~Known(id)
          THEN [t EXCEPT !.ID = key, !.keepAlive = ka, !.cleanSession = cs]
          ELSE t)
         EXCEPT !.will = w]

KeyOf(id, cs) == IF id = Anon /\ (cs \/ ~Known(id)) THEN NextDummyID ELSE id

AcceptConnect(id, cs, ka, w) ==
    /\ ConnectReceived /\ clients[id] # Null /\ ~Refused(id, cs)
    /\ LET key == KeyOf(id, cs) IN
         /\ key \in IDs
         /\ session' = [session EXCEPT ![cur] = Installed(id, key, cs, ka, w)]
         /\ clients' = [clients EXCEPT ![key] = cur]
         /\ stale' = stale \ {key}
    /\ pc' = IF ka THEN "arm" ELSE "connack"
    /\ UNCHANGED <<status, cur, locals, heap, tree, network>>

-----------------------------------------------------------------------------
(***************************************************************************)
(* The keep-alive timer.  The handler that starts it joins it, so that it  *)
(* always sleeps its full time before the handler goes on.                 *)
(***************************************************************************)
\* A CONNECT's timer runs before the session is connected, a PINGREQ's after.
AfterTimer == IF session[cur].isConnecting THEN "pinged" ELSE "connack"

Mark(t, mark) == [t EXCEPT !.threads[t.threadIdx] = mark]

ArmTimer ==
    /\ At("arm")
    /\ session' = [session EXCEPT ![cur] = Mark(@, Waiting)]
    /\ pc' = "join"
    /\ UNCHANGED <<status, cur, locals, registry, tree, network>>

\* The timer looks before the handler has made the entry.
TimerMissesEntry ==
    /\ At("arm")
    /\ session' = [session EXCEPT ![cur] = Mark(@, Waiting)]
    /\ pc' = AfterTimer
    /\ UNCHANGED <<status, cur, locals, registry, tree, network>>

EntryIsWaiting == session[cur].threads[session[cur].threadIdx] = Waiting

TimerFindsNothing ==
    /\ At("join") /\ ~EntryIsWaiting
    /\ pc' = AfterTimer
    /\ UNCHANGED <<status, cur, locals, session, registry, tree, network>>

\* The part of disconnectProcessing that follows the will.  `delete` frees
\* the session found under ID, which is cur itself.
Deletes(t) == t.isConnecting /\ t.cleanSession
\* MUTANT of FinishDisconnect: the registry's entry is removed as well.
FinishDisconnect_Erases(t) ==
    /\ heap' = IF Deletes(t) THEN [heap EXCEPT ![cur] = "freed"] ELSE heap
    /\ clients' = IF Deletes(t) THEN [clients EXCEPT ![t.ID] = Nil] ELSE clients
    /\ session' = [session EXCEPT ![cur] = Disconnected(t)]
    /\ socket' = [socket EXCEPT ![t.fd] = Nil]
    /\ UNCHANGED <<stale, tree, peer, tcp>>

FinishDisconnect(t) ==
    LET victim == clients[t.ID] IN
        /\ IF Deletes(t) /\ victim \in Slots
           THEN /\ heap' = [heap EXCEPT ![victim] = "freed"]
                /\ stale' = stale \cup {k \in IDs : clients[k] = victim}
                /\ UNCHANGED clients
           ELSE /\ clients' = IF Deletes(t) THEN [clients EXCEPT ![t.ID] = Null]
                              ELSE clients
                /\ UNCHANGED <<heap, stale>>
        /\ session' = [session EXCEPT ![cur] = Disconnected(t)]
        /\ socket' = [socket EXCEPT ![t.fd] = Nil]
        /\ UNCHANGED <<tree, peer, tcp>>

\* expirationTimer calls disconnectProcessing; a will on a bad topic ends
\* that at once.
TimerExpires ==
    LET w == session[cur].will IN
    /\ At("join") /\ EntryIsWaiting
    /\ IF w = NoWill THEN
         /\ FinishDisconnect(session[cur])
         /\ pc' = AfterTimer
         /\ UNCHANGED <<status, cur, locals>>
       ELSE
         /\ retained' = IF w.retain /\ w.topic \notin BadTopics
                        THEN [retained EXCEPT ![w.topic] = w.qos] ELSE retained
         /\ IF w.topic \in BadTopics THEN pc' = AfterTimer /\ UNCHANGED locals
            ELSE /\ pc' = "will"
                 /\ pub' = [NoPub EXCEPT !.topic = w.topic, !.qos = w.qos]
                 /\ todo' = {k \in IDs : subscribers[w.topic][k] # NoQoS}
         /\ UNCHANGED <<status, cur, session, registry, subscribers, network>>

WillDone ==
    /\ At("will") /\ todo = {}
    /\ FinishDisconnect(session[cur])
    /\ pc' = AfterTimer /\ pub' = NoPub
    /\ UNCHANGED <<status, cur, todo>>

\* The error of the CONNACK is overwritten by that of redelivery.
Connack ==
    LET t == [session[cur] EXCEPT !.isConnecting = TRUE] IN
    /\ At("connack")
    /\ \E o \in SendOutcomes(t, [type |-> "CONNACK", id |-> 0], Link(t)) :
         IF o.err = "SIGPIPE" THEN Crash("sigpipe")
         ELSE /\ session' = [session EXCEPT ![cur] = o.t]
              /\ pc' = "redeliver"
              /\ todo' = IF t.cleanSession THEN {} ELSE {id \in PacketIDs : InUse(t, id)}
              /\ UNCHANGED <<status, cur, pub, registry, tree, network>>

\* redelivery, in the order of the identifiers.
Redeliver(id) ==
    LET t == session[cur]
        kind == IF t.packetIDMap[id] = "PUBLISH" THEN "DUP" ELSE t.packetIDMap[id]
        marked == [t EXCEPT !.packetIDMap[id] = kind]
    IN  /\ At("redeliver") /\ id \in todo /\ \A i \in todo : id <= i
        /\ \E o \in SendOutcomes(marked, [type |-> kind, id |-> id], Link(t)) :
             IF o.err # "NO_ERROR" THEN Return(o)
             ELSE /\ session' = [session EXCEPT ![cur] = o.t]
                  /\ todo' = todo \ {id}
                  /\ UNCHANGED <<process, pub, registry, tree, network>>

RedeliveryDone ==
    /\ At("redeliver") /\ todo = {}
    /\ Done(session[cur], "NO_ERROR")

-----------------------------------------------------------------------------
(***************************************************************************)
(* PUBLISH.  PublishMessage::parse stops before the payload and the packet *)
(* identifier: the payload is empty, so that a retained PUBLISH clears the *)
(* node, and the identifier is whatever the memory held.                   *)
(***************************************************************************)
RecvPublish(t, qos, retain, id) ==
    /\ Received
    /\ IF t \in BadTopics THEN Done(session[cur], "BAD_TOPIC")
       ELSE /\ pc' = "route"
            /\ pub' = [topic |-> t, qos |-> qos, id |-> id, err |-> "NO_ERROR"]
            /\ todo' = {k \in IDs : subscribers[t][k] # NoQoS}
            /\ retained' = IF retain THEN [retained EXCEPT ![t] = NoQoS] ELSE retained
            /\ UNCHANGED <<status, cur, session, registry, subscribers, network>>

\* One round of the loop over the subscribers, of recvPublishMessage or of
\* a will.  clients[k] makes a NULL entry for a key that has none.
Delivers(k) == status = "up" /\ pc \in {"route", "will"} /\ k \in todo

\* MUTANT of Deliver: a delivery that fails is tried again.
Deliver_Retries(k) ==
    /\ Delivers(k) /\ clients[k] \in Slots
    /\ LET s == clients[k]
           qos == Lower(pub.qos, subscribers[pub.topic][k])
       IN  \E o \in PublishOutcomes(session[s], qos, Link(session[s])) :
             /\ session' = [session EXCEPT ![s] = o.t]
             /\ todo' = IF o.err = "NO_ERROR" THEN todo \ {k} ELSE todo
             /\ UNCHANGED <<process, pub, registry, tree, network>>

Deliver(k) ==
    /\ Delivers(k) /\ clients[k] \in Slots
    /\ LET s == clients[k]
           qos == Lower(pub.qos, subscribers[pub.topic][k])
       IN  \E o \in PublishOutcomes(session[s], qos, Link(session[s])) :
             IF o.err = "SIGPIPE" THEN Crash("sigpipe")
             ELSE /\ session' = [session EXCEPT ![s] = o.t]
                  /\ todo' = todo \ {k}
                  /\ pub' = IF pc = "route" THEN [pub EXCEPT !.err = o.err] ELSE pub
                  /\ UNCHANGED <<process, registry, tree, network>>

DeliverCrashes(k) ==
    /\ Delivers(k)
    /\ \/ clients[k] \notin Slots /\ Crash("null_subscriber")
       \/ clients[k] \in Slots /\ heap[clients[k]] = "freed" /\ Crash("freed_session")

\* The answer to the publisher; for QoS 0 the result is the last delivery's.
RouteDone ==
    /\ At("route") /\ todo = {}
    /\ LET t == session[cur] IN
       CASE pub.qos = 1 -> Reply(t, [type |-> "PUBACK", id |-> pub.id])
         [] pub.qos = 2 -> Reply(t, [type |-> "PUBREC", id |-> pub.id])
         [] OTHER       -> Done(t, IF pub.id # 0 THEN "PACKET_ID_SHOULD_BE_ZERO" ELSE pub.err)

RecvPuback(id) ==
    LET t == session[cur] IN
    /\ Received
    /\ IF id > 0 THEN Done(Acked(t, id), AckError(t, id)) ELSE Done(t, "NO_ERROR")

\* `err < 0` never holds, so an unknown identifier is answered all the same.
RecvPubrec(id) ==
    Received /\ Reply(Acked(session[cur], id), [type |-> "PUBREL", id |-> id])

RecvPubrel(id) ==
    Received /\ Reply(Acked(session[cur], id), [type |-> "PUBCOMP", id |-> id])

RecvPubcomp(id) ==
    Received /\ Done(Acked(session[cur], id), AckError(session[cur], id))

-----------------------------------------------------------------------------
(***************************************************************************)
(* SUBSCRIBE, UNSUBSCRIBE, PINGREQ and DISCONNECT.                         *)
(***************************************************************************)
RecvSubscribe(requests, id) ==
    /\ Received
    /\ pc' = "subscribe" /\ todo' = requests /\ pub' = [NoPub EXCEPT !.id = id]
    /\ UNCHANGED <<status, cur, session, registry, tree, network>>

\* One round of the loop over the requests.  A bad filter only makes its
\* return code FAILURE; a retained message that cannot be sent ends it all.
Subscribe(t, qos) ==
    /\ At("subscribe") /\ <<t, qos>> \in todo
    /\ IF t \in BadTopics
       THEN todo' = todo \ {<<t, qos>>} /\ UNCHANGED <<process, pub, session, tree>>
       ELSE /\ subscribers' = [subscribers EXCEPT ![t][session[cur].ID] = qos]
            /\ \E o \in IF retained[t] = NoQoS
                        THEN {[t |-> session[cur], err |-> "NO_ERROR", wrote |-> FALSE]}
                        ELSE PublishOutcomes(session[cur], Lower(retained[t], qos),
                                             Link(session[cur])) :
                 /\ session' = [session EXCEPT ![cur] = o.t]
                 /\ CASE o.err = "NO_ERROR" -> todo' = todo \ {<<t, qos>>} /\ UNCHANGED <<process, pub>>
                      [] o.err = "SIGPIPE"  -> status' = "sigpipe" /\ UNCHANGED <<pc, cur, locals>>
                      [] OTHER              -> LoopTest(o.t, o.err)
            /\ UNCHANGED retained
    /\ UNCHANGED <<registry, network>>

SubscribeDone ==
    /\ At("subscribe") /\ todo = {}
    /\ Reply(session[cur], [type |-> "SUBACK", id |-> pub.id])

RecvUnsubscribe(ts, id) ==
    LET t == session[cur] IN
    /\ Received
    /\ IF ts = {} THEN Done(t, "PROTOCOL_VIOLATION")
       ELSE \E o \in SendOutcomes(t, [type |-> "UNSUBACK", id |-> id], Link(t)) :
              /\ subscribers' = [f \in Topics |->
                                   IF f \in ts \ BadTopics
                                   THEN [subscribers[f] EXCEPT ![t.ID] = NoQoS]
                                   ELSE subscribers[f]]
              /\ IF o.err = "SIGPIPE" THEN status' = "sigpipe" /\ UNCHANGED <<pc, cur, locals>>
                 ELSE LoopTest(o.t, o.err)
              /\ session' = [session EXCEPT ![cur] = o.t]
              /\ UNCHANGED <<registry, retained, network>>

\* MUTANT of RecvPingreq: the new timer's entry is made before it is joined.
RecvPingreq_MarksFirst ==
    LET t == session[cur]
        next == [Mark(t, Pinged) EXCEPT !.threadIdx = @ + 1]
    IN  /\ Received /\ t.isConnecting /\ t.keepAlive /\ t.threadIdx < MaxPings
        /\ session' = [session EXCEPT ![cur] = Mark(next, Waiting)]
        /\ pc' = "join"
        /\ UNCHANGED <<status, cur, locals, registry, tree, network>>

RecvPingreq ==
    LET t == session[cur] IN
    /\ Received /\ (t.keepAlive => t.threadIdx < MaxPings)
    /\ \E o \in SendOutcomes(t, [type |-> "PINGRESP", id |-> 0], Link(t)) :
         IF o.err # "NO_ERROR" \/ ~t.keepAlive THEN Return(o)
         ELSE /\ session' = [session EXCEPT ![cur] =
                               [Mark(o.t, Pinged) EXCEPT !.threadIdx = @ + 1]]
              /\ pc' = "join"
              /\ UNCHANGED <<status, cur, locals, registry, tree, network>>

\* The entry the timer looked for is made when the timer has ended.
PingDone == At("pinged") /\ Done(Mark(session[cur], Waiting), "NO_ERROR")

\* The will is dropped first.  After `delete` the object is used once more:
\* the program dies of it, or finds the memory as it was.
RecvDisconnect ==
    LET t == [session[cur] EXCEPT !.will = NoWill] IN
    /\ Received
    /\ FinishDisconnect(t)
    /\ LoopTest(Disconnected(t), "NO_ERROR")

DisconnectCrashes ==
    Received /\ Deletes(session[cur]) /\ Crash("freed_session")

-----------------------------------------------------------------------------
Receive ==
    \/ RecvInvalid
    \/ \E id \in Names \cup {Anon} :
         \/ ConnectCrashes(id)
         \/ \E cs \in BOOLEAN :
              \/ RejectConnect(id, cs)
              \/ \E ka \in KeepAlives, w \in Wills : AcceptConnect(id, cs, ka, w)
    \/ \E t \in Topics, qos \in QoS, retain \in BOOLEAN, id \in PacketIDs :
         RecvPublish(t, qos, retain, id)
    \/ \E id \in PacketIDs :
         \/ RecvPuback(id)
         \/ RecvPubrec(id)
         \/ RecvPubrel(id)
         \/ RecvPubcomp(id)
         \/ \E ts \in SUBSET Topics :
              \/ \E qos \in QoS : RecvSubscribe(ts \X {qos}, id)
              \/ RecvUnsubscribe(ts, id)
    \/ RecvPingreq
    \/ RecvDisconnect
    \/ DisconnectCrashes

\* The steps of a handler between a message and the next.
Handle ==
    \/ ArmTimer
    \/ TimerMissesEntry
    \/ TimerFindsNothing
    \/ TimerExpires
    \/ WillDone
    \/ Connack
    \/ \E id \in PacketIDs : Redeliver(id)
    \/ RedeliveryDone
    \/ \E k \in IDs : Deliver(k) \/ DeliverCrashes(k)
    \/ RouteDone
    \/ \E t \in Topics, qos \in QoS : Subscribe(t, qos)
    \/ SubscribeDone
    \/ PingDone

Next ==
    \/ \E c \in Conns, s \in Slots : Accept(c, s)
    \/ \E c \in Conns : PeerLeaves(c)
    \/ PeerClosed
    \/ ReadError
    \/ Receive
    \/ Handle

Spec == Init /\ [][Next]_vars

-----------------------------------------------------------------------------
(***************************************************************************)
(* Properties.                                                             *)
(***************************************************************************)
Sessions ==
    [fd : 0 .. MaxFd, isConnecting : BOOLEAN, cleanSession : BOOLEAN, ID : IDs,
     will : Wills \cup {NoWill}, keepAlive : BOOLEAN,
     packetIDMap : [PacketIDs -> Kinds \cup {NoMessage}], mt : GeneratorStates,
     threads : [0 .. MaxPings -> {Unset, Waiting, Pinged}], threadIdx : 0 .. MaxPings]

Serving == {"read", "arm", "join", "will", "connack", "redeliver", "route",
            "subscribe", "pinged"}

TodoOK ==
    CASE pc \in {"route", "will"} -> todo \subseteq IDs
      [] pc = "redeliver" -> todo \subseteq PacketIDs
      [] pc = "subscribe" -> todo \subseteq Topics \X QoS
      [] OTHER -> todo = {}

\* Every variable has its type; a session is being served exactly when the
\* broker is not in accept(), and it has not been deleted.
TypeOK ==
    /\ status \in {"up", "sigpipe", "unset_pointer", "null_session",
                   "null_subscriber", "freed_session"}
    /\ pc \in Serving \cup {"accept"}
    /\ IF pc = "accept" THEN cur = Nil ELSE cur \in Slots /\ heap[cur] = "live"
    /\ pub \in [topic : Topics \cup {Nil}, qos : QoS, id : PacketIDs, err : {pub.err}]
    /\ (pc \in {"route", "will"} => pub.topic \in Topics)
    /\ TodoOK
    /\ session \in [Slots -> Sessions]
    /\ heap \in [Slots -> {"unused", "live", "freed"}]
    /\ clients \in [IDs -> Slots \cup {Nil, Null}]
    /\ subscribers \in [Topics -> [IDs -> QoS \cup {NoQoS}]]
    /\ retained \in [Topics -> QoS \cup {NoQoS}]
    /\ socket \in [Fds -> Conns \cup {Nil}]
    /\ peer \in [Conns -> {"idle", "open", "gone"}]
    /\ tcp \in [Slots -> Conns \cup {Nil}]
    /\ stale \subseteq IDs

\* Every key under which the topic tree keeps a subscriber leads to a
\* session, except the empty key: a resumed session, which has no
\* identifier, subscribes under it, and the next PUBLISH on that node
\* follows a NULL pointer.
SubscribersRegistered ==
    \A t \in Topics, k \in IDs \ {Anon} :
        subscribers[t][k] # NoQoS => clients[k] \in Slots

\* The number in a dummy identifier is taken from the size of the registry,
\* so no identifier of that form is handed out twice as long as entries
\* are never removed.
DummyIDsFresh ==
    \A n \in DummyIDs \ Names : n >= NextDummyID => ~Known(n)

\* No packet is kept in flight under identifier 0, which the generator may
\* yield: an entry 0 would block every CONNACK, PINGRESP and QoS 0 message.
NoZeroInFlight == \A s \in Slots : ~InUse(session[s], 0)

\* A session writes to the connection it was accepted on, although its
\* descriptor may have been closed and given to another, unless its peer
\* left, or its keep-alive timer closed the socket during the CONNECT.
WritesToOwnPeer ==
    \A s \in Slots :
        session[s].isConnecting /\ heap[s] = "live" =>
            \/ socket[session[s].fd] = tcp[s]
            \/ peer[tcp[s]] = "gone"
            \/ session[s].threads[0] # Unset

\* A PUBLISH that redelivery has marked dup is never sent: it is refused
\* because it is still in the map.  Its session is dropped, and stays
\* marked connected, so that its client can never come back.
DupIsLockedOut ==
    \A s \in Slots : (\E id \in PacketIDs : session[s].packetIDMap[id] = "DUP") =>
        session[s].isConnecting /\ s # cur

\* The timer that a PINGREQ starts never ends the session: its entry is
\* made only after it has been joined.  Only a CONNECT's timer expires.
PingTimerSparesSession ==
    [][(pc = "join" /\ session[cur].isConnecting) =>
          session'[cur].isConnecting /\ (pc' \in {"join", "pinged"})]_vars

\* A session that is marked connected when its loop has ended stays so and
\* keeps its key: nothing but its own handlers disconnects it.
DroppedStaysConnected ==
    [][\A s \in Slots : (s # cur /\ heap[s] = "live" /\ session[s].isConnecting) =>
          /\ session'[s].isConnecting /\ heap'[s] = "live"
          /\ \A k \in IDs : clients[k] = s => clients'[k] = s]_vars

\* The abstract view of the registry: who holds an identifier, who is served.
Holder(k) ==
    IF k \notin stale /\ clients[k] \in Slots /\ session[clients[k]].isConnecting
    THEN tcp[clients[k]] ELSE Nil

Ids == INSTANCE Registry WITH
    None <- Nil, holder <- [k \in IDs |-> Holder(k)],
    serving <- IF cur = Nil THEN Nil ELSE tcp[cur]

\* No identifier is taken over from a connection that holds it.
RegistryImplemented == Ids!Spec

\* A handler that has begun comes back to read() or ends the loop, when
\* nothing blocks it: peers read what is sent to them and timers run.
FairSpec == Spec /\ WF_vars(Handle)
HandlersReturn ==
    (pc \notin {"accept", "read"}) ~> (pc \in {"accept", "read"} \/ status # "up")

=============================================================================
