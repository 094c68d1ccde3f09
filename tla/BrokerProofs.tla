---------------------------- MODULE BrokerProofs ----------------------------
(***************************************************************************)
(* Invariance proofs about Broker, for every value of its constants.       *)
(***************************************************************************)
EXTENDS Broker, TLAPS

-----------------------------------------------------------------------------
(***************************************************************************)
(* What the operations of Terminal do to a session.                        *)
(***************************************************************************)
\* The session has at most recorded a message in flight and drawn
\* identifiers.
OnlyFlight(t, u) ==
    /\ u \in Sessions
    /\ u.fd = t.fd /\ u.isConnecting = t.isConnecting /\ u.cleanSession = t.cleanSession
    /\ u.ID = t.ID /\ u.will = t.will /\ u.keepAlive = t.keepAlive
    /\ u.threads = t.threads /\ u.threadIdx = t.threadIdx

\* The identifier of messages without one is in the range of uint16_t.
LEMMA ZeroIsPacketID == 0 \in PacketIDs
BY TerminalAssumption DEF PacketIDs

\* sendMessage either leaves the terminal alone or records the message, and
\* that only when connected and under an identifier not in use.
LEMMA SendOutcomesShape ==
    ASSUME NEW t, NEW m, NEW link, NEW o \in SendOutcomes(t, m, link)
    PROVE  \/ o.t = t
           \/ /\ o.t = AfterWrite(t, m)
              /\ t.isConnecting /\ ~InUse(t, m.id)
              /\ o.err \in {"NO_ERROR", "PACKET_ID_SHOULD_NOT_BE_ZERO"}
<1>1. CASE Refusal(t, m) # "NO_ERROR"
  BY <1>1 DEF SendOutcomes
<1>2. CASE Refusal(t, m) = "NO_ERROR"
  <2>1. t.isConnecting /\ ~InUse(t, m.id)
    BY <1>2 DEF Refusal
  <2>2. PICK r \in WriteResults(link) :
          o = IF r = "NO_ERROR"
              THEN [t |-> AfterWrite(t, m), err |-> AfterWriteError(m), wrote |-> TRUE]
              ELSE [t |-> t, err |-> r, wrote |-> FALSE]
    BY <1>2 DEF SendOutcomes
  <2>3. CASE r = "NO_ERROR"
    BY <2>1, <2>2, <2>3 DEF AfterWriteError
  <2>4. CASE r # "NO_ERROR"
    BY <2>2, <2>4
  <2>. QED
    BY <2>3, <2>4
<1>. QED
  BY <1>1, <1>2

\* Recording a message changes the packets in flight only.
LEMMA AfterWriteType ==
    ASSUME NEW t \in Sessions, NEW m, m.id \in PacketIDs
    PROVE  OnlyFlight(t, AfterWrite(t, m))
<1>1. CASE Keeps(m)
  <2>1. m.type \in Kinds
    BY <1>1 DEF Keeps
  <2>. QED
    BY <1>1, <2>1 DEF AfterWrite, OnlyFlight, Sessions
<1>2. CASE ~Keeps(m)
  BY <1>2 DEF AfterWrite, OnlyFlight
<1>. QED
  BY <1>1, <1>2

\* sendMessage changes the packets in flight only.
LEMMA SendOutcomesType ==
    ASSUME NEW t \in Sessions, NEW m, NEW link, m.id \in PacketIDs,
           NEW o \in SendOutcomes(t, m, link)
    PROVE  OnlyFlight(t, o.t)
<1>1. OnlyFlight(t, t)
  BY DEF OnlyFlight
<1>2. o.t = t \/ o.t = AfterWrite(t, m)
  BY SendOutcomesShape
<1>. QED
  BY <1>1, <1>2, AfterWriteType

\* The generator stays in its cycle and yields packet identifiers.
LEMMA StateAfterType ==
    ASSUME NEW t \in Sessions, NEW n \in Nat
    PROVE  StateAfter(t, n) \in GeneratorStates /\ Drawn(t, n) \in PacketIDs
<1>1. t.mt \in Nat /\ Period \in Nat \ {0}
  BY TerminalAssumption DEF Sessions, GeneratorStates
<1>2. StateAfter(t, n) \in 0 .. Period - 1
  BY <1>1 DEF StateAfter
<1>. QED
  BY <1>2, TerminalAssumption DEF GeneratorStates, Drawn

\* getUsablePacketID moves the generator and changes nothing else.
LEMMA DrawOutcomesType ==
    ASSUME NEW t \in Sessions, NEW d \in DrawOutcomes(t)
    PROVE  d.id \in PacketIDs /\ OnlyFlight(t, d.t) /\ d.t.packetIDMap = t.packetIDMap
<1>0. MaxPacketID \in PacketIDs /\ Trials \in Nat
  BY TerminalAssumption DEF PacketIDs
<1>1. CASE \E n \in 0 .. Trials - 1 :
             d = [t |-> [t EXCEPT !.mt = StateAfter(t, n + 1)],
                  id |-> Drawn(t, n), err |-> "NO_ERROR"]
  <2>1. PICK n \in 0 .. Trials - 1 :
             d = [t |-> [t EXCEPT !.mt = StateAfter(t, n + 1)],
                  id |-> Drawn(t, n), err |-> "NO_ERROR"]
    BY <1>1
  <2>2. n \in Nat /\ n + 1 \in Nat
    BY <1>0
  <2>3. StateAfter(t, n + 1) \in GeneratorStates /\ Drawn(t, n) \in PacketIDs
    BY <2>2, StateAfterType
  <2>. QED
    BY <2>1, <2>3 DEF OnlyFlight, Sessions
<1>2. CASE d = [t |-> [t EXCEPT !.mt = StateAfter(t, Trials)],
                id |-> MaxPacketID, err |-> "FAIL_TO_SET_PACKET_ID"]
  <2>1. StateAfter(t, Trials) \in GeneratorStates
    BY <1>0, StateAfterType
  <2>. QED
    BY <1>0, <1>2, <2>1 DEF OnlyFlight, Sessions
<1>. QED
  BY <1>1, <1>2 DEF DrawOutcomes

\* checkQoSAndPublish changes the generator and the packets in flight only.
LEMMA PublishOutcomesType ==
    ASSUME NEW t \in Sessions, NEW qos, NEW link, NEW o \in PublishOutcomes(t, qos, link)
    PROVE  OnlyFlight(t, o.t)
<1>1. CASE qos = 0
  BY <1>1, SendOutcomesType, ZeroIsPacketID DEF PublishOutcomes
<1>2. CASE qos # 0
  <2>1. PICK d \in DrawOutcomes(t) :
          o \in IF d.err # "NO_ERROR"
                THEN { [t |-> d.t, err |-> d.err, wrote |-> FALSE] }
                ELSE SendOutcomes(d.t, [type |-> "PUBLISH", id |-> d.id], link)
    BY <1>2 DEF PublishOutcomes
  <2>2. d.id \in PacketIDs /\ OnlyFlight(t, d.t)
    BY DrawOutcomesType
  <2>3. CASE d.err # "NO_ERROR"
    BY <2>1, <2>2, <2>3
  <2>4. CASE o \in SendOutcomes(d.t, [type |-> "PUBLISH", id |-> d.id], link)
    <3>1. OnlyFlight(d.t, o.t)
      BY <2>2, <2>4, SendOutcomesType DEF OnlyFlight
    <3>. QED
      BY <2>2, <3>1 DEF OnlyFlight, Sessions
  <2>. QED
    BY <2>1, <2>3, <2>4
<1>. QED
  BY <1>1, <1>2

\* ackMessage keeps a session a session.
LEMMA AckedType ==
    ASSUME NEW t \in Sessions, NEW id \in PacketIDs
    PROVE  Acked(t, id) \in Sessions
BY DEF Acked, Sessions

\* An entry in threads keeps a session a session.
LEMMA MarkType ==
    ASSUME NEW t \in Sessions, NEW mark \in {Unset, Waiting, Pinged}
    PROVE  Mark(t, mark) \in Sessions /\ Mark(t, mark).threadIdx = t.threadIdx
BY DEF Mark, Sessions

\* disconnectBase leaves a session that is not connected.
LEMMA DisconnectedType ==
    ASSUME NEW t \in Sessions
    PROVE  Disconnected(t) \in Sessions /\ ~Disconnected(t).isConnecting
BY DEF Disconnected, Sessions

\* A BrokerSideClient just made is a session.
LEMMA NewSessionType ==
    ASSUME NEW fd \in 0 .. MaxFd
    PROVE  NewSession(fd) \in Sessions
<1>1. 0 \in GeneratorStates /\ 0 \in 0 .. MaxPings
  BY TerminalAssumption, BrokerAssumption DEF GeneratorStates
<1>2. EmptyMap \in [PacketIDs -> Kinds \cup {NoMessage}]
  BY DEF EmptyMap
<1>3. [i \in 0 .. MaxPings |-> Unset] \in [0 .. MaxPings -> {Unset, Waiting, Pinged}]
  OBVIOUS
<1>4. Anon \in IDs
  BY DEF IDs
<1>. QED
  BY <1>1, <1>2, <1>3, <1>4 DEF NewSession, Sessions

-----------------------------------------------------------------------------
(***************************************************************************)
(* Type correctness.  That the session being served has not been deleted   *)
(* depends on the keep-alive timers: were the timer of a PINGREQ to find   *)
(* its entry, it would delete a clean session under the handler's feet.    *)
(***************************************************************************)
TimerInv ==
    /\ \A s \in Slots : \A i \in 0 .. MaxPings :
         i > session[s].threadIdx => session[s].threads[i] = Unset
    /\ pc \in {"arm", "will", "connack"} => ~session[cur].isConnecting
    /\ pc = "join" /\ session[cur].isConnecting => ~EntryIsWaiting

PubType(p) == p \in [topic : Topics \cup {Nil}, qos : QoS, id : PacketIDs, err : {p.err}]

\* No message to forward has the type of one.
LEMMA NoPubType == PubType(NoPub)
BY BrokerAssumption, ZeroIsPacketID DEF PubType, NoPub, QoS

\* The broker starts with every type right.
LEMMA TypeInit == Init => TypeOK
<1>. SUFFICES ASSUME Init PROVE TypeOK
  OBVIOUS
<1>1. NewSession(0) \in Sessions
  BY NewSessionType, BrokerAssumption
<1>2. 0 \in QoS /\ 0 \in PacketIDs
  BY BrokerAssumption, ZeroIsPacketID DEF QoS
<1>. QED
  BY <1>1, <1>2 DEF Init, TypeOK, TodoOK, NoPub, Serving

\* The end of the process keeps the types.
LEMMA CrashType ==
    ASSUME TypeOK, NEW cause, Crash(cause),
           cause \in {"sigpipe", "unset_pointer", "null_session",
                     "null_subscriber", "freed_session"}
    PROVE  TypeOK'
BY DEF TypeOK, TodoOK, Crash, locals, registry, tree, network

\* A step that ends or goes on with the loop, once session is typed.
LEMMA LoopTestType ==
    ASSUME TypeOK, pc # "accept", NEW t, NEW err, LoopTest(t, err),
           session' \in [Slots -> Sessions], UNCHANGED <<registry, retained, network>>,
           subscribers' \in [Topics -> [IDs -> QoS \cup {NoQoS}]]
    PROVE  TypeOK'
<1>1. 0 \in QoS /\ 0 \in PacketIDs
  BY BrokerAssumption, ZeroIsPacketID DEF QoS
<1>. QED
  BY <1>1 DEF TypeOK, TodoOK, LoopTest, NoPub, Serving, registry, network

\* A handler that comes back to readLoop keeps the types.
LEMMA ReturnType ==
    ASSUME TypeOK, pc # "accept", NEW o, o.t \in Sessions, Return(o)
    PROVE  TypeOK'
<1>1. CASE o.err = "SIGPIPE"
  BY <1>1, CrashType DEF Return
<1>2. CASE o.err # "SIGPIPE"
  <2>1. session' \in [Slots -> Sessions]
    BY <1>2 DEF Return, TypeOK
  <2>. QED
    BY <1>2, <2>1, LoopTestType DEF Return, TypeOK, tree
<1>. QED
  BY <1>1, <1>2

\* A handler that comes back without sending keeps the types.
LEMMA DoneType ==
    ASSUME TypeOK, pc # "accept", NEW t \in Sessions, NEW err, Done(t, err)
    PROVE  TypeOK'
BY ReturnType DEF Done

\* A handler that ends with sendMessage keeps the types.
LEMMA ReplyType ==
    ASSUME TypeOK, pc # "accept", NEW t \in Sessions, NEW m, m.id \in PacketIDs,
           Reply(t, m)
    PROVE  TypeOK'
<1>1. PICK o \in SendOutcomes(t, m, Link(t)) : Return(o)
  BY DEF Reply
<1>2. o.t \in Sessions
  BY SendOutcomesType DEF OnlyFlight
<1>. QED
  BY <1>1, <1>2, ReturnType

\* Within a handler there is a session, and it has not been deleted.
LEMMA AtServes == ASSUME TypeOK, Received \/ pc \in Serving
                  PROVE  pc # "accept" /\ cur \in Slots /\ heap[cur] = "live"
                         /\ session[cur] \in Sessions
BY DEF TypeOK, Received, At, Serving

\* Accept keeps the types.
LEMMA AcceptType ==
    ASSUME TypeOK, NEW c \in Conns, NEW s \in Slots, Accept(c, s)
    PROVE  TypeOK'
<1>1. PICK fd \in Fds : /\ socket' = [socket EXCEPT ![fd] = c]
                       /\ session' = [session EXCEPT ![s] = NewSession(fd)]
  BY DEF Accept
<1>2. NewSession(fd) \in Sessions
  BY NewSessionType, BrokerAssumption DEF Fds
<1>. QED
  BY <1>1, <1>2 DEF Accept, At, TypeOK, TodoOK, Serving, locals, tree

\* A peer that leaves keeps the types.
LEMMA PeerLeavesType ==
    ASSUME TypeOK, NEW c \in Conns, PeerLeaves(c)
    PROVE  TypeOK'
BY DEF PeerLeaves, TypeOK, TodoOK, process, locals, registry, tree

\* readMessage at the end of the stream keeps the types.
LEMMA PeerClosedType ==
    ASSUME TypeOK, PeerClosed
    PROVE  TypeOK'
<1>1. 0 \in QoS /\ 0 \in PacketIDs
  BY BrokerAssumption, ZeroIsPacketID DEF QoS
<1>2. socket' \in [Fds -> Conns \cup {Nil}]
  BY DEF PeerClosed, TypeOK
<1>3. pc' = "accept" /\ cur' = Nil /\ pub' = NoPub /\ todo' = {}
  BY DEF PeerClosed, LoopTest
<1>. QED
  BY <1>1, <1>2, <1>3 DEF PeerClosed, LoopTest, TypeOK, TodoOK, NoPub, Serving, registry, tree

\* What recvConnectMessage installs, new or resumed, is a session.
LEMMA InstalledType ==
    ASSUME TypeOK, ConnectReceived, NEW id \in IDs, NEW key \in IDs,
           clients[id] # Null, NEW cs \in BOOLEAN, NEW ka \in BOOLEAN, NEW w \in Wills
    PROVE  Installed(id, key, cs, ka, w) \in Sessions
<1>1. session[cur] \in Sessions
  BY AtServes DEF ConnectReceived
<1>2. Resumes(id) => session[clients[id]] \in Sessions
  BY DEF Resumes, Known, TypeOK
<1>3. Resumes(id) => Inherit(session[cur], session[clients[id]]) \in Sessions
  BY <1>1, <1>2 DEF Inherit, Sessions
<1>4. PICK t \in Sessions :
         Installed(id, key, cs, ka, w) =
           [(IF cs \/ ~Known(id)
             THEN [t EXCEPT !.ID = key, !.keepAlive = ka, !.cleanSession = cs]
             ELSE t)
            EXCEPT !.will = w]
  BY <1>1, <1>3 DEF Installed
<1>. QED
  BY <1>4 DEF Sessions

\* An accepted CONNECT keeps the types.
LEMMA AcceptConnectType ==
    ASSUME TypeOK, NEW id \in IDs, NEW cs \in BOOLEAN, NEW ka \in BOOLEAN,
           NEW w \in Wills, AcceptConnect(id, cs, ka, w)
    PROVE  TypeOK'
<1>1. pc = "read" /\ cur \in Slots
  BY AtServes DEF AcceptConnect, ConnectReceived, Received, At
<1>2. PICK key \in IDs :
         /\ session' = [session EXCEPT ![cur] = Installed(id, key, cs, ka, w)]
         /\ clients' = [clients EXCEPT ![key] = cur]
         /\ stale' = stale \ {key}
  BY DEF AcceptConnect
<1>3. Installed(id, key, cs, ka, w) \in Sessions
  BY InstalledType DEF AcceptConnect
<1>4. pc' \in {"arm", "connack"}
  BY DEF AcceptConnect
<1>. QED
  BY <1>1, <1>2, <1>3, <1>4 DEF AcceptConnect, TypeOK, TodoOK, Serving, locals, tree, network

\* FinishDisconnect deletes nothing while the handler goes on.
LEMMA FinishDisconnectType ==
    ASSUME TypeOK, cur \in Slots, NEW t \in Sessions, FinishDisconnect(t)
    PROVE  /\ session' \in [Slots -> Sessions]
           /\ heap' \in [Slots -> {"unused", "live", "freed"}]
           /\ clients' \in [IDs -> Slots \cup {Nil, Null}]
           /\ subscribers' \in [Topics -> [IDs -> QoS \cup {NoQoS}]]
           /\ retained' \in [Topics -> QoS \cup {NoQoS}]
           /\ socket' \in [Fds -> Conns \cup {Nil}]
           /\ peer' \in [Conns -> {"idle", "open", "gone"}]
           /\ tcp' \in [Slots -> Conns \cup {Nil}]
           /\ stale' \subseteq IDs
           /\ ~Deletes(t) => heap' = heap
<1>1. Disconnected(t) \in Sessions
  BY DisconnectedType
<1>2. session' \in [Slots -> Sessions] /\ socket' \in [Fds -> Conns \cup {Nil}]
  BY <1>1 DEF FinishDisconnect, TypeOK
<1>3. CASE Deletes(t) /\ clients[t.ID] \in Slots
  <2>1. /\ heap' = [heap EXCEPT ![clients[t.ID]] = "freed"]
        /\ stale' = stale \cup {k \in IDs : clients[k] = clients[t.ID]}
        /\ clients' = clients
    BY <1>3 DEF FinishDisconnect
  <2>. QED
    BY <1>2, <1>3, <2>1 DEF FinishDisconnect, TypeOK, tree
<1>4. CASE ~(Deletes(t) /\ clients[t.ID] \in Slots)
  <2>1. /\ clients' = IF Deletes(t) THEN [clients EXCEPT ![t.ID] = Null] ELSE clients
        /\ heap' = heap /\ stale' = stale
    BY <1>4 DEF FinishDisconnect
  <2>. QED
    BY <1>2, <1>4, <2>1 DEF FinishDisconnect, TypeOK, tree
<1>. QED
  BY <1>3, <1>4

\* A timer that expires keeps the types: the session it disconnects is not
\* deleted, as it is not connected.
LEMMA TimerExpiresType ==
    ASSUME TypeOK, TimerInv, TimerExpires
    PROVE  TypeOK'
<1> DEFINE w == session[cur].will
<1>1. pc = "join" /\ cur \in Slots /\ heap[cur] = "live" /\ session[cur] \in Sessions
  BY AtServes DEF TimerExpires, At, Serving
<1>2. ~session[cur].isConnecting
  BY <1>1 DEF TimerExpires, TimerInv
<1>3. AfterTimer = "connack"
  BY <1>2 DEF AfterTimer
<1>4. CASE w = NoWill
  <2>1. FinishDisconnect(session[cur]) /\ pc' = "connack" /\ UNCHANGED <<status, cur, locals>>
    BY <1>3, <1>4 DEF TimerExpires
  <2>2. ~Deletes(session[cur])
    BY <1>2 DEF Deletes
  <2>. QED
    BY <1>1, <2>1, <2>2, FinishDisconnectType DEF TypeOK, TodoOK, Serving, locals
<1>5. CASE w # NoWill
  <2>1. w.topic \in Topics /\ w.qos \in QoS
    BY <1>1, <1>5, BrokerAssumption DEF Sessions
  <2>2. /\ retained' = IF w.retain /\ w.topic \notin BadTopics
                       THEN [retained EXCEPT ![w.topic] = w.qos] ELSE retained
        /\ UNCHANGED <<status, cur, session, registry, subscribers, network>>
    BY <1>5 DEF TimerExpires
  <2>3. retained' \in [Topics -> QoS \cup {NoQoS}]
    BY <2>1, <2>2 DEF TypeOK
  <2>4. CASE w.topic \in BadTopics
    <3>1. pc' = "connack" /\ UNCHANGED locals
      BY <1>3, <1>5, <2>4 DEF TimerExpires
    <3>. QED
      BY <1>1, <2>2, <2>3, <3>1 DEF TypeOK, TodoOK, Serving, locals, registry, network
  <2>5. CASE w.topic \notin BadTopics
    <3>1. /\ pc' = "will"
          /\ pub' = [NoPub EXCEPT !.topic = w.topic, !.qos = w.qos]
          /\ todo' = {k \in IDs : subscribers[w.topic][k] # NoQoS}
      BY <1>5, <2>5 DEF TimerExpires
    <3>2. pub'.topic = w.topic /\ PubType(pub')
      BY <2>1, <3>1, ZeroIsPacketID DEF NoPub, PubType
    <3>. QED
      BY <1>1, <2>1, <2>2, <2>3, <3>1, <3>2 DEF TypeOK, TodoOK, Serving, PubType, registry, network
  <2>. QED
    BY <2>4, <2>5
<1>. QED
  BY <1>4, <1>5

\* The end of a disconnect that had a will keeps the types, for the same
\* reason.
LEMMA WillDoneType ==
    ASSUME TypeOK, TimerInv, WillDone
    PROVE  TypeOK'
<1>1. pc = "will" /\ todo = {} /\ cur \in Slots /\ heap[cur] = "live"
      /\ session[cur] \in Sessions
  BY AtServes DEF WillDone, At, Serving
<1>2. ~session[cur].isConnecting /\ ~Deletes(session[cur]) /\ AfterTimer = "connack"
  BY <1>1 DEF TimerInv, Deletes, AfterTimer
<1>3. PubType(NoPub)
  BY NoPubType
<1>4. FinishDisconnect(session[cur]) /\ pc' = "connack" /\ pub' = NoPub
      /\ UNCHANGED <<status, cur, todo>>
  BY <1>2 DEF WillDone
<1>. QED
  BY <1>1, <1>2, <1>3, <1>4, FinishDisconnectType DEF TypeOK, TodoOK, Serving, PubType

\* The CONNACK keeps the types.
LEMMA ConnackType ==
    ASSUME TypeOK, Connack
    PROVE  TypeOK'
<1> DEFINE t == [session[cur] EXCEPT !.isConnecting = TRUE]
<1>1. pc = "connack" /\ cur \in Slots /\ heap[cur] = "live" /\ session[cur] \in Sessions
      /\ todo = {}
  BY AtServes DEF Connack, At, Serving, TypeOK, TodoOK
<1>2. t \in Sessions
  BY <1>1 DEF Sessions
<1>3. PICK o \in SendOutcomes(t, [type |-> "CONNACK", id |-> 0], Link(t)) :
        IF o.err = "SIGPIPE" THEN Crash("sigpipe")
        ELSE /\ session' = [session EXCEPT ![cur] = o.t]
             /\ pc' = "redeliver"
             /\ todo' = IF t.cleanSession THEN {} ELSE {id \in PacketIDs : InUse(t, id)}
             /\ UNCHANGED <<status, cur, pub, registry, tree, network>>
  BY DEF Connack
<1>4. o.t \in Sessions
  BY <1>2, SendOutcomesType, ZeroIsPacketID DEF OnlyFlight
<1>5. CASE o.err = "SIGPIPE"
  BY <1>3, <1>5, CrashType
<1>6. CASE o.err # "SIGPIPE"
  <2>1. todo' \subseteq PacketIDs /\ pc' = "redeliver" /\ session' = [session EXCEPT ![cur] = o.t]
        /\ UNCHANGED <<status, cur, pub, registry, tree, network>>
    BY <1>3, <1>6
  <2>. QED
    BY <1>1, <1>4, <2>1 DEF TypeOK, TodoOK, Serving, registry, tree, network
<1>. QED
  BY <1>5, <1>6

\* redelivery keeps the types.
LEMMA RedeliverType ==
    ASSUME TypeOK, NEW id \in PacketIDs, Redeliver(id)
    PROVE  TypeOK'
<1> DEFINE t == session[cur]
           kind == IF t.packetIDMap[id] = "PUBLISH" THEN "DUP" ELSE t.packetIDMap[id]
           marked == [t EXCEPT !.packetIDMap[id] = kind]
<1>1. pc = "redeliver" /\ cur \in Slots /\ heap[cur] = "live" /\ t \in Sessions
  BY AtServes DEF Redeliver, At, Serving
<1>2. marked \in Sessions
  <2>1. kind \in Kinds \cup {NoMessage}
    BY <1>1 DEF Sessions, Kinds
  <2>. QED
    BY <1>1, <2>1 DEF Sessions
<1>3. PICK o \in SendOutcomes(marked, [type |-> kind, id |-> id], Link(t)) :
        IF o.err # "NO_ERROR" THEN Return(o)
        ELSE /\ session' = [session EXCEPT ![cur] = o.t]
             /\ todo' = todo \ {id}
             /\ UNCHANGED <<process, pub, registry, tree, network>>
  BY DEF Redeliver
<1>4. o.t \in Sessions
  BY <1>2, SendOutcomesType DEF OnlyFlight
<1>5. CASE o.err # "NO_ERROR"
  BY <1>1, <1>3, <1>4, <1>5, ReturnType
<1>6. CASE o.err = "NO_ERROR"
  BY <1>1, <1>3, <1>4, <1>6 DEF TypeOK, TodoOK, Serving, process, registry, tree, network
<1>. QED
  BY <1>5, <1>6

\* A PUBLISH keeps the types.
LEMMA RecvPublishType ==
    ASSUME TypeOK, NEW t \in Topics, NEW qos \in QoS, NEW retain \in BOOLEAN,
           NEW id \in PacketIDs, RecvPublish(t, qos, retain, id)
    PROVE  TypeOK'
<1>1. pc # "accept" /\ cur \in Slots /\ heap[cur] = "live" /\ session[cur] \in Sessions
  BY AtServes DEF RecvPublish
<1>2. CASE t \in BadTopics
  BY <1>1, <1>2, DoneType DEF RecvPublish
<1>3. CASE t \notin BadTopics
  <2>1. /\ pc' = "route"
        /\ pub' = [topic |-> t, qos |-> qos, id |-> id, err |-> "NO_ERROR"]
        /\ todo' = {k \in IDs : subscribers[t][k] # NoQoS}
        /\ retained' = IF retain THEN [retained EXCEPT ![t] = NoQoS] ELSE retained
        /\ UNCHANGED <<status, cur, session, registry, subscribers, network>>
    BY <1>3 DEF RecvPublish
  <2>2. retained' \in [Topics -> QoS \cup {NoQoS}]
    BY <2>1 DEF TypeOK
  <2>. QED
    BY <1>1, <2>1, <2>2 DEF TypeOK, TodoOK, Serving, registry, network
<1>. QED
  BY <1>2, <1>3

\* A delivery to a subscriber keeps the types.
LEMMA DeliverType ==
    ASSUME TypeOK, NEW k \in IDs, Deliver(k)
    PROVE  TypeOK'
<1> DEFINE s == clients[k]
           qos == Lower(pub.qos, subscribers[pub.topic][k])
<1>1. pc \in {"route", "will"} /\ s \in Slots /\ session[s] \in Sessions
  BY DEF Deliver, Delivers, TypeOK
<1>2. PICK o \in PublishOutcomes(session[s], qos, Link(session[s])) :
        IF o.err = "SIGPIPE" THEN Crash("sigpipe")
        ELSE /\ session' = [session EXCEPT ![s] = o.t]
             /\ todo' = todo \ {k}
             /\ pub' = IF pc = "route" THEN [pub EXCEPT !.err = o.err] ELSE pub
             /\ UNCHANGED <<process, registry, tree, network>>
  BY DEF Deliver
<1>3. o.t \in Sessions
  BY <1>1, PublishOutcomesType DEF OnlyFlight
<1>4. CASE o.err = "SIGPIPE"
  BY <1>2, <1>4, CrashType
<1>5. CASE o.err # "SIGPIPE"
  <2>1. /\ pub'.topic = pub.topic
        /\ pub' \in [topic : Topics \cup {Nil}, qos : QoS, id : PacketIDs, err : {pub'.err}]
    BY <1>2, <1>5 DEF TypeOK
  <2>. QED
    BY <1>1, <1>2, <1>3, <1>5, <2>1 DEF TypeOK, TodoOK, Serving, process, registry, tree, network
<1>. QED
  BY <1>4, <1>5

\* The answer to a PUBLISH keeps the types.
LEMMA RouteDoneType ==
    ASSUME TypeOK, RouteDone
    PROVE  TypeOK'
<1>1. pc # "accept" /\ session[cur] \in Sessions /\ pub.id \in PacketIDs /\ pub.qos \in QoS
  BY AtServes DEF RouteDone, At, Serving, TypeOK
<1>2. CASE pub.qos = 1
  <2>1. Reply(session[cur], [type |-> "PUBACK", id |-> pub.id])
    BY <1>2 DEF RouteDone
  <2>. QED
    BY <1>1, <2>1, ReplyType
<1>3. CASE pub.qos = 2
  <2>1. Reply(session[cur], [type |-> "PUBREC", id |-> pub.id])
    BY <1>3 DEF RouteDone
  <2>. QED
    BY <1>1, <2>1, ReplyType
<1>4. CASE pub.qos \notin {1, 2}
  <2>1. Done(session[cur], IF pub.id # 0 THEN "PACKET_ID_SHOULD_BE_ZERO" ELSE pub.err)
    BY <1>4 DEF RouteDone
  <2>. QED
    BY <1>1, <2>1, DoneType
<1>. QED
  BY <1>2, <1>3, <1>4

\* A filter of a SUBSCRIBE keeps the types.
LEMMA SubscribeType ==
    ASSUME TypeOK, NEW t \in Topics, NEW qos \in QoS, Subscribe(t, qos)
    PROVE  TypeOK'
<1>1. pc = "subscribe" /\ cur \in Slots /\ heap[cur] = "live" /\ session[cur] \in Sessions
  BY AtServes DEF Subscribe, At, Serving
<1>2. CASE t \in BadTopics
  <2>1. todo' = todo \ {<<t, qos>>} /\ UNCHANGED <<process, pub, session, tree, registry, network>>
    BY <1>2 DEF Subscribe
  <2>. QED
    BY <1>1, <2>1 DEF TypeOK, TodoOK, process, tree, registry, network
<1>3. CASE t \notin BadTopics
  <2>1. subscribers' = [subscribers EXCEPT ![t][session[cur].ID] = qos]
        /\ UNCHANGED <<retained, registry, network>>
    BY <1>3 DEF Subscribe
  <2>2. subscribers' \in [Topics -> [IDs -> QoS \cup {NoQoS}]]
    BY <1>1, <2>1 DEF TypeOK
  <2>3. PICK o \in IF retained[t] = NoQoS
                   THEN {[t |-> session[cur], err |-> "NO_ERROR", wrote |-> FALSE]}
                   ELSE PublishOutcomes(session[cur], Lower(retained[t], qos),
                                        Link(session[cur])) :
          /\ session' = [session EXCEPT ![cur] = o.t]
          /\ CASE o.err = "NO_ERROR" -> todo' = todo \ {<<t, qos>>} /\ UNCHANGED <<process, pub>>
               [] o.err = "SIGPIPE"  -> status' = "sigpipe" /\ UNCHANGED <<pc, cur, locals>>
               [] OTHER              -> LoopTest(o.t, o.err)
    BY <1>3 DEF Subscribe
  <2>4. o.t \in Sessions
    BY <1>1, <2>3, PublishOutcomesType DEF OnlyFlight
  <2>5. session' \in [Slots -> Sessions]
    BY <2>3, <2>4 DEF TypeOK
  <2>6. CASE o.err = "NO_ERROR"
    <3>1. todo' = todo \ {<<t, qos>>} /\ UNCHANGED <<process, pub>>
      BY <2>3, <2>6
    <3>. QED
      BY <1>1, <2>1, <2>2, <2>5, <3>1 DEF TypeOK, TodoOK, Serving, process, registry, network
  <2>7. CASE o.err = "SIGPIPE"
    <3>1. status' = "sigpipe" /\ UNCHANGED <<pc, cur, locals>>
      BY <2>3, <2>7
    <3>. QED
      BY <1>1, <2>1, <2>2, <2>5, <3>1 DEF TypeOK, TodoOK, Serving, locals, registry, network
  <2>8. CASE o.err \notin {"NO_ERROR", "SIGPIPE"}
    <3>1. LoopTest(o.t, o.err)
      BY <2>3, <2>8
    <3>. QED
      BY <1>1, <2>1, <2>2, <2>5, <3>1, LoopTestType
  <2>. QED
    BY <2>6, <2>7, <2>8
<1>. QED
  BY <1>2, <1>3

\* An UNSUBSCRIBE keeps the types.
LEMMA RecvUnsubscribeType ==
    ASSUME TypeOK, NEW ts \in SUBSET Topics, NEW id \in PacketIDs, RecvUnsubscribe(ts, id)
    PROVE  TypeOK'
<1> DEFINE t == session[cur]
<1>1. pc # "accept" /\ cur \in Slots /\ heap[cur] = "live" /\ t \in Sessions
  BY AtServes DEF RecvUnsubscribe
<1>2. CASE ts = {}
  BY <1>1, <1>2, DoneType DEF RecvUnsubscribe
<1>3. CASE ts # {}
  <2>1. PICK o \in SendOutcomes(t, [type |-> "UNSUBACK", id |-> id], Link(t)) :
          /\ subscribers' = [f \in Topics |->
                               IF f \in ts \ BadTopics
                               THEN [subscribers[f] EXCEPT ![t.ID] = NoQoS]
                               ELSE subscribers[f]]
          /\ IF o.err = "SIGPIPE" THEN status' = "sigpipe" /\ UNCHANGED <<pc, cur, locals>>
             ELSE LoopTest(o.t, o.err)
          /\ session' = [session EXCEPT ![cur] = o.t]
          /\ UNCHANGED <<registry, retained, network>>
    BY <1>3 DEF RecvUnsubscribe
  <2>2. o.t \in Sessions
    BY <1>1, SendOutcomesType DEF OnlyFlight
  <2>3. session' \in [Slots -> Sessions]
    BY <2>1, <2>2 DEF TypeOK
  <2>4. subscribers' \in [Topics -> [IDs -> QoS \cup {NoQoS}]]
    BY <2>1 DEF TypeOK
  <2>5. CASE o.err = "SIGPIPE"
    <3>1. status' = "sigpipe" /\ UNCHANGED <<pc, cur, locals>>
      BY <2>1, <2>5
    <3>. QED
      BY <1>1, <2>1, <2>3, <2>4, <3>1 DEF TypeOK, TodoOK, Serving, locals, registry, network
  <2>6. CASE o.err # "SIGPIPE"
    <3>1. LoopTest(o.t, o.err)
      BY <2>1, <2>6
    <3>. QED
      BY <1>1, <2>1, <2>3, <2>4, <3>1, LoopTestType
  <2>. QED
    BY <2>5, <2>6
<1>. QED
  BY <1>2, <1>3

\* A PINGREQ keeps the types.
LEMMA RecvPingreqType ==
    ASSUME TypeOK, RecvPingreq
    PROVE  TypeOK'
<1> DEFINE t == session[cur]
<1>1. pc = "read" /\ cur \in Slots /\ heap[cur] = "live" /\ t \in Sessions /\ todo = {}
  BY AtServes DEF RecvPingreq, Received, At, TypeOK, TodoOK
<1>2. PICK o \in SendOutcomes(t, [type |-> "PINGRESP", id |-> 0], Link(t)) :
        IF o.err # "NO_ERROR" \/ ~t.keepAlive THEN Return(o)
        ELSE /\ session' = [session EXCEPT ![cur] =
                              [Mark(o.t, Pinged) EXCEPT !.threadIdx = @ + 1]]
             /\ pc' = "join"
             /\ UNCHANGED <<status, cur, locals, registry, tree, network>>
  BY DEF RecvPingreq
<1>3. OnlyFlight(t, o.t)
  BY <1>1, SendOutcomesType, ZeroIsPacketID
<1>4. CASE o.err # "NO_ERROR" \/ ~t.keepAlive
  BY <1>1, <1>2, <1>3, <1>4, ReturnType DEF OnlyFlight
<1>5. CASE o.err = "NO_ERROR" /\ t.keepAlive
  <2>1. Mark(o.t, Pinged) \in Sessions /\ Mark(o.t, Pinged).threadIdx = t.threadIdx
    BY <1>3, MarkType DEF OnlyFlight
  <2>2. t.threadIdx + 1 \in 0 .. MaxPings
    <3>1. t.threadIdx < MaxPings
      BY <1>5 DEF RecvPingreq
    <3>. QED
      BY <1>1, <3>1, BrokerAssumption DEF Sessions
  <2>3. [Mark(o.t, Pinged) EXCEPT !.threadIdx = @ + 1] \in Sessions
    BY <2>1, <2>2 DEF Sessions
  <2>. QED
    BY <1>1, <1>2, <1>5, <2>3 DEF TypeOK, TodoOK, Serving, locals, registry, tree, network
<1>. QED
  BY <1>4, <1>5

\* A DISCONNECT keeps the types.
LEMMA RecvDisconnectType ==
    ASSUME TypeOK, RecvDisconnect
    PROVE  TypeOK'
<1> DEFINE t == [session[cur] EXCEPT !.will = NoWill]
<1>1. cur \in Slots /\ session[cur] \in Sessions
  BY AtServes DEF RecvDisconnect
<1>2. t \in Sessions
  BY <1>1 DEF Sessions
<1>3. FinishDisconnect(t) /\ LoopTest(Disconnected(t), "NO_ERROR")
  BY DEF RecvDisconnect
<1>4. pc' = "accept" /\ cur' = Nil /\ pub' = NoPub /\ todo' = {} /\ status' = status
  BY <1>2, <1>3, DisconnectedType DEF LoopTest
<1>5. PubType(NoPub)
  BY NoPubType
<1>. QED
  BY <1>1, <1>2, <1>3, <1>4, <1>5, FinishDisconnectType DEF TypeOK, TodoOK, Serving, PubType

\* The steps within handlers keep the types.
LEMMA HandleType ==
    ASSUME TypeOK, TimerInv, Handle
    PROVE  TypeOK'
<1>1. CASE ArmTimer \/ TimerMissesEntry
  <2>1. pc = "arm" /\ cur \in Slots /\ heap[cur] = "live" /\ session[cur] \in Sessions
    BY <1>1, AtServes DEF ArmTimer, TimerMissesEntry, At, Serving
  <2>2. Mark(session[cur], Waiting) \in Sessions
    BY <2>1, MarkType
  <2>3. session' = [session EXCEPT ![cur] = Mark(session[cur], Waiting)]
        /\ pc' \in {"join", "pinged", "connack"}
        /\ UNCHANGED <<status, cur, locals, registry, tree, network>>
    BY <1>1, <2>1 DEF ArmTimer, TimerMissesEntry, AfterTimer, TypeOK
  <2>. QED
    BY <2>1, <2>2, <2>3 DEF TypeOK, TodoOK, Serving, locals, registry, tree, network
<1>2. CASE TimerFindsNothing
  BY <1>2 DEF TimerFindsNothing, At, AfterTimer, TypeOK, TodoOK, Serving, locals, registry,
              tree, network
<1>3. CASE TimerExpires
  BY <1>3, TimerExpiresType
<1>4. CASE WillDone
  BY <1>4, WillDoneType
<1>5. CASE Connack
  BY <1>5, ConnackType
<1>6. CASE \E id \in PacketIDs : Redeliver(id)
  BY <1>6, RedeliverType
<1>7. CASE RedeliveryDone
  <2>1. pc # "accept" /\ session[cur] \in Sessions
    BY <1>7, AtServes DEF RedeliveryDone, At, Serving
  <2>. QED
    BY <1>7, <2>1, DoneType DEF RedeliveryDone
<1>8. CASE \E k \in IDs : Deliver(k) \/ DeliverCrashes(k)
  BY <1>8, DeliverType, CrashType DEF DeliverCrashes
<1>9. CASE RouteDone
  BY <1>9, RouteDoneType
<1>10. CASE \E t \in Topics, qos \in QoS : Subscribe(t, qos)
  BY <1>10, SubscribeType
<1>11. CASE SubscribeDone
  <2>1. pc # "accept" /\ session[cur] \in Sessions /\ pub.id \in PacketIDs
    BY <1>11, AtServes DEF SubscribeDone, At, Serving, TypeOK
  <2>. QED
    BY <1>11, <2>1, ReplyType DEF SubscribeDone
<1>12. CASE PingDone
  <2>1. pc # "accept" /\ session[cur] \in Sessions
    BY <1>12, AtServes DEF PingDone, At, Serving
  <2>2. Mark(session[cur], Waiting) \in Sessions
    BY <2>1, MarkType
  <2>. QED
    BY <1>12, <2>1, <2>2, DoneType DEF PingDone
<1>. QED
  BY <1>1, <1>2, <1>3, <1>4, <1>5, <1>6, <1>7, <1>8, <1>9, <1>10, <1>11, <1>12 DEF Handle

\* Every message received keeps the types.
LEMMA ReceiveType ==
    ASSUME TypeOK, Receive
    PROVE  TypeOK'
<1>0. Received => pc # "accept" /\ session[cur] \in Sessions
  BY AtServes
<1>1. CASE RecvInvalid
  BY <1>0, <1>1, DoneType DEF RecvInvalid
<1>2. ASSUME NEW id \in Names \cup {Anon}, ConnectCrashes(id) PROVE TypeOK'
  BY <1>2, CrashType DEF ConnectCrashes
<1>3. ASSUME NEW id \in Names \cup {Anon}, NEW cs \in BOOLEAN, RejectConnect(id, cs)
      PROVE  TypeOK'
  BY <1>0, <1>3, DoneType DEF RejectConnect, ConnectReceived
<1>4. ASSUME NEW id \in Names \cup {Anon}, NEW cs \in BOOLEAN, NEW ka \in KeepAlives,
             NEW w \in Wills, AcceptConnect(id, cs, ka, w)
      PROVE  TypeOK'
  BY <1>4, AcceptConnectType, BrokerAssumption DEF IDs
<1>5. ASSUME NEW t \in Topics, NEW qos \in QoS, NEW retain \in BOOLEAN,
             NEW id \in PacketIDs, RecvPublish(t, qos, retain, id)
      PROVE  TypeOK'
  BY <1>5, RecvPublishType
<1>6. ASSUME NEW id \in PacketIDs,
             RecvPuback(id) \/ RecvPubrec(id) \/ RecvPubrel(id) \/ RecvPubcomp(id)
      PROVE  TypeOK'
  <2>1. pc # "accept" /\ session[cur] \in Sessions /\ Acked(session[cur], id) \in Sessions
    BY <1>0, <1>6, AckedType DEF RecvPuback, RecvPubrec, RecvPubrel, RecvPubcomp
  <2>2. CASE RecvPuback(id)
    BY <2>1, <2>2, DoneType DEF RecvPuback
  <2>3. CASE RecvPubrec(id)
    BY <2>1, <2>3, ReplyType DEF RecvPubrec
  <2>4. CASE RecvPubrel(id)
    BY <2>1, <2>4, ReplyType DEF RecvPubrel
  <2>5. CASE RecvPubcomp(id)
    BY <2>1, <2>5, DoneType DEF RecvPubcomp
  <2>. QED
    BY <1>6, <2>2, <2>3, <2>4, <2>5
<1>7. ASSUME NEW id \in PacketIDs, NEW ts \in SUBSET Topics, NEW qos \in QoS,
             RecvSubscribe(ts \X {qos}, id)
      PROVE  TypeOK'
  <2>1. pc = "read" /\ cur \in Slots /\ heap[cur] = "live"
    BY <1>7, AtServes DEF RecvSubscribe, Received, At
  <2>2. pc' = "subscribe" /\ todo' \subseteq Topics \X QoS /\ PubType(pub')
        /\ UNCHANGED <<status, cur, session, registry, tree, network>>
    BY <1>7, NoPubType DEF RecvSubscribe, PubType
  <2>. QED
    BY <2>1, <2>2 DEF PubType, TypeOK, TodoOK, Serving, registry, tree, network
<1>8. ASSUME NEW id \in PacketIDs, NEW ts \in SUBSET Topics, RecvUnsubscribe(ts, id)
      PROVE  TypeOK'
  BY <1>8, RecvUnsubscribeType
<1>9. CASE RecvPingreq
  BY <1>9, RecvPingreqType
<1>10. CASE RecvDisconnect
  BY <1>10, RecvDisconnectType
<1>11. CASE DisconnectCrashes
  BY <1>11, CrashType DEF DisconnectCrashes
<1>. QED
  BY <1>1, <1>2, <1>3, <1>4, <1>5, <1>6, <1>7, <1>8, <1>9, <1>10, <1>11 DEF Receive

\* Every step keeps the types, given the invariant of the timers.
LEMMA TypeStep ==
    ASSUME TypeOK, TimerInv, [Next]_vars
    PROVE  TypeOK'
<1>1. CASE \E c \in Conns, s \in Slots : Accept(c, s)
  BY <1>1, AcceptType
<1>2. CASE \E c \in Conns : PeerLeaves(c)
  BY <1>2, PeerLeavesType
<1>3. CASE PeerClosed
  BY <1>3, PeerClosedType
<1>4. CASE ReadError
  <2>1. pc # "accept" /\ session[cur] \in Sessions
    BY <1>4, AtServes DEF ReadError, At, Serving
  <2>. QED
    BY <1>4, <2>1, DoneType DEF ReadError
<1>5. CASE Receive
  BY <1>5, ReceiveType
<1>6. CASE Handle
  BY <1>6, HandleType
<1>7. CASE UNCHANGED vars
  BY <1>7 DEF vars, process, locals, registry, tree, network, TypeOK, TodoOK
<1>. QED
  BY <1>1, <1>2, <1>3, <1>4, <1>5, <1>6, <1>7 DEF Next

-----------------------------------------------------------------------------
(***************************************************************************)
(* The timer invariant.                                                    *)
(***************************************************************************)
SameTimer(t, u) == u.threads = t.threads /\ u.threadIdx = t.threadIdx

\* Handlers that leave the timers alone and do not wait for one.
LEMMA TimerFrame ==
    ASSUME TypeOK, TimerInv, \A s \in Slots : SameTimer(session[s], session'[s]),
           pc' \notin {"arm", "will", "connack", "join"}
    PROVE  TimerInv'
BY DEF TimerInv, SameTimer

\* A step that touches no session and stays in its place keeps the timers.
LEMMA TimerUnchanged ==
    ASSUME TimerInv, session' = session, cur' = cur, pc' = pc
    PROVE  TimerInv'
BY DEF TimerInv, EntryIsWaiting

\* A handler that comes back to readLoop with its timers untouched keeps them.
LEMMA TimerReturn ==
    ASSUME TypeOK, TimerInv, pc # "accept", NEW o, SameTimer(session[cur], o.t), Return(o)
    PROVE  TimerInv'
<1>1. CASE o.err = "SIGPIPE"
  BY <1>1, TimerUnchanged DEF Return, Crash
<1>2. CASE o.err # "SIGPIPE"
  <2>1. session' = [session EXCEPT ![cur] = o.t] /\ pc' \in {"read", "accept"}
    BY <1>2 DEF Return, LoopTest
  <2>2. \A s \in Slots : SameTimer(session[s], session'[s])
    BY <2>1 DEF TypeOK, SameTimer
  <2>. QED
    BY <2>1, <2>2, TimerFrame
<1>. QED
  BY <1>1, <1>2

\* The same for a handler that sends nothing.
LEMMA TimerDone ==
    ASSUME TypeOK, TimerInv, pc # "accept", NEW t, NEW err,
           SameTimer(session[cur], t), Done(t, err)
    PROVE  TimerInv'
BY TimerReturn DEF Done

\* A change of the packets in flight leaves the timers alone.
LEMMA SameTimerFlight ==
    ASSUME NEW t, NEW u, NEW v, SameTimer(t, u), OnlyFlight(u, v)
    PROVE  SameTimer(t, v)
BY DEF SameTimer, OnlyFlight

\* The same for a handler that ends with sendMessage.
LEMMA TimerReply ==
    ASSUME TypeOK, TimerInv, pc # "accept", NEW t \in Sessions, NEW m, m.id \in PacketIDs,
           SameTimer(session[cur], t), Reply(t, m)
    PROVE  TimerInv'
<1>1. PICK o \in SendOutcomes(t, m, Link(t)) : Return(o)
  BY DEF Reply
<1>2. SameTimer(session[cur], o.t)
  BY SendOutcomesType DEF OnlyFlight, SameTimer
<1>. QED
  BY <1>1, <1>2, TimerReturn

\* Marking the entry of the latest timer sets none beyond it.
LEMMA MarkTimer ==
    ASSUME NEW t \in Sessions, NEW mark,
           \A i \in 0 .. MaxPings : i > t.threadIdx => t.threads[i] = Unset
    PROVE  /\ \A i \in 0 .. MaxPings :
                i > t.threadIdx => Mark(t, mark).threads[i] = Unset
           /\ Mark(t, mark).threadIdx = t.threadIdx
           /\ Mark(t, mark).isConnecting = t.isConnecting
BY DEF Mark, Sessions

\* An entry in threads at threadIdx keeps the invariant, where no timer that
\* could find it is joined.
LEMMA TimerMark ==
    ASSUME TypeOK, TimerInv, pc \in Serving, NEW mark,
           session' = [session EXCEPT ![cur] = Mark(session[cur], mark)],
           \/ pc' \in {"read", "accept", "pinged"}
           \/ /\ pc' \in {"join", "connack"} /\ cur' = cur
              /\ ~session[cur].isConnecting
    PROVE  TimerInv'
<1>1. cur \in Slots /\ session[cur] \in Sessions
  BY AtServes
<1>2. \A i \in 0 .. MaxPings :
        i > session[cur].threadIdx => Mark(session[cur], mark).threads[i] = Unset
  BY <1>1, MarkTimer DEF TimerInv
<1>3. /\ session'[cur] = Mark(session[cur], mark)
      /\ session'[cur].threadIdx = session[cur].threadIdx
      /\ session'[cur].isConnecting = session[cur].isConnecting
      /\ \A s \in Slots \ {cur} : session'[s] = session[s]
  BY <1>1, MarkTimer DEF TypeOK, TimerInv
<1>. QED
  BY <1>1, <1>2, <1>3 DEF TimerInv

\* A session just made has no timer.
LEMMA TimerNew ==
    ASSUME NEW fd, NEW i \in 0 .. MaxPings
    PROVE  NewSession(fd).threads[i] = Unset
BY DEF NewSession

\* There is no timer in the beginning.
LEMMA TimerInit == Init => TimerInv
<1>. SUFFICES ASSUME Init PROVE TimerInv
  OBVIOUS
<1>1. pc = "accept" /\ \A s \in Slots : session[s] = NewSession(0)
  BY DEF Init
<1>. QED
  BY <1>1, TimerNew DEF TimerInv

\* An accepted CONNECT leaves a session that is not connected, and no entry
\* above threadIdx.
LEMMA TimerConnect ==
    ASSUME TypeOK, TimerInv, NEW id \in IDs, NEW cs \in BOOLEAN, NEW ka \in BOOLEAN,
           NEW w \in Wills, AcceptConnect(id, cs, ka, w)
    PROVE  TimerInv'
<1>1. cur \in Slots /\ session[cur] \in Sessions /\ ~session[cur].isConnecting
  BY AtServes DEF AcceptConnect, ConnectReceived
<1>2. PICK key \in IDs : session' = [session EXCEPT ![cur] = Installed(id, key, cs, ka, w)]
  BY DEF AcceptConnect
<1>3. /\ SameTimer(session[cur], Installed(id, key, cs, ka, w))
      /\ Installed(id, key, cs, ka, w).isConnecting = session[cur].isConnecting
  BY <1>1 DEF Installed, Inherit, SameTimer, Sessions
<1>4. pc' \in {"arm", "connack"} /\ cur' = cur
  BY DEF AcceptConnect
<1>5. \A s \in Slots : SameTimer(session[s], session'[s])
  BY <1>1, <1>2, <1>3 DEF TypeOK, SameTimer
<1>6. ~session'[cur'].isConnecting
  BY <1>1, <1>2, <1>3, <1>4 DEF TypeOK
<1>. QED
  BY <1>4, <1>5, <1>6 DEF TimerInv, SameTimer

\* disconnectProcessing keeps the timers.
LEMMA TimerFinish ==
    ASSUME TypeOK, TimerInv, cur \in Slots, NEW t \in Sessions, SameTimer(session[cur], t),
           FinishDisconnect(t),
           pc' = "accept" \/ (pc' = "connack" /\ cur' = cur)
    PROVE  TimerInv'
<1>1. Disconnected(t) \in Sessions /\ ~Disconnected(t).isConnecting
  BY DisconnectedType
<1>2. SameTimer(session[cur], Disconnected(t))
  BY DEF Disconnected, SameTimer, Sessions
<1>3. session' = [session EXCEPT ![cur] = Disconnected(t)]
  BY DEF FinishDisconnect
<1>4. \A s \in Slots : SameTimer(session[s], session'[s])
  BY <1>2, <1>3 DEF TypeOK, SameTimer
<1>5. ~session'[cur].isConnecting
  BY <1>1, <1>3 DEF TypeOK
<1>. QED
  BY <1>4, <1>5 DEF TimerInv, SameTimer

\* The steps within handlers keep the timers.
LEMMA TimerHandle ==
    ASSUME TypeOK, TimerInv, Handle
    PROVE  TimerInv'
<1>0. /\ pc \in Serving => cur \in Slots /\ session[cur] \in Sessions
      /\ (pc = "will" => ~session[cur].isConnecting)
      /\ (pc = "arm" => ~session[cur].isConnecting)
  BY AtServes DEF TimerInv
<1>1. CASE ArmTimer \/ TimerMissesEntry
  BY <1>0, <1>1, TimerMark DEF ArmTimer, TimerMissesEntry, At, Serving, AfterTimer
<1>2. CASE TimerFindsNothing
  BY <1>2 DEF TimerFindsNothing, At, AfterTimer, TimerInv
<1>3. CASE TimerExpires
  <2>1. pc = "join" /\ EntryIsWaiting
    BY <1>3 DEF TimerExpires, At
  <2>2. ~session[cur].isConnecting /\ AfterTimer = "connack"
    BY <2>1 DEF TimerInv, AfterTimer
  <2>3. CASE session[cur].will = NoWill
    BY <1>0, <1>3, <2>1, <2>2, <2>3, TimerFinish DEF TimerExpires, SameTimer, Serving
  <2>4. CASE session[cur].will # NoWill
    <3>1. session' = session /\ cur' = cur /\ pc' \in {"connack", "will"}
      BY <1>3, <2>2, <2>4 DEF TimerExpires
    <3>. QED
      BY <2>2, <3>1 DEF TimerInv
  <2>. QED
    BY <2>3, <2>4
<1>4. CASE WillDone
  <2>1. pc = "will" /\ AfterTimer = "connack"
    BY <1>0, <1>4 DEF WillDone, At, AfterTimer
  <2>. QED
    BY <1>0, <1>4, <2>1, TimerFinish DEF WillDone, SameTimer, Serving
<1>5. CASE Connack
  <2> DEFINE t == [session[cur] EXCEPT !.isConnecting = TRUE]
  <2>1. cur \in Slots /\ session[cur] \in Sessions
    BY <1>0, <1>5 DEF Connack, At, Serving
  <2>2. t \in Sessions /\ SameTimer(session[cur], t)
    BY <2>1 DEF Sessions, SameTimer
  <2>3. PICK o \in SendOutcomes(t, [type |-> "CONNACK", id |-> 0], Link(t)) :
          IF o.err = "SIGPIPE" THEN Crash("sigpipe")
          ELSE session' = [session EXCEPT ![cur] = o.t] /\ pc' = "redeliver"
    BY <1>5 DEF Connack
  <2>4. SameTimer(session[cur], o.t)
    <3>1. OnlyFlight(t, o.t)
      BY <2>2, SendOutcomesType, ZeroIsPacketID
    <3>. QED
      BY <2>2, <3>1, SameTimerFlight
  <2>5. CASE o.err = "SIGPIPE"
    BY <2>3, <2>5, TimerUnchanged DEF Crash
  <2>6. CASE o.err # "SIGPIPE"
    <3>1. \A s \in Slots : SameTimer(session[s], session'[s])
      BY <2>3, <2>4, <2>6 DEF TypeOK, SameTimer
    <3>. QED
      BY <2>3, <2>6, <3>1, TimerFrame
  <2>. QED
    BY <2>5, <2>6
<1>6. ASSUME NEW id \in PacketIDs, Redeliver(id) PROVE TimerInv'
  <2> DEFINE t == session[cur]
             kind == IF t.packetIDMap[id] = "PUBLISH" THEN "DUP" ELSE t.packetIDMap[id]
             marked == [t EXCEPT !.packetIDMap[id] = kind]
  <2>1. pc = "redeliver" /\ cur \in Slots /\ t \in Sessions
    BY <1>0, <1>6 DEF Redeliver, At, Serving
  <2>2. marked \in Sessions /\ SameTimer(t, marked)
    <3>1. kind \in Kinds \cup {NoMessage}
      BY <2>1 DEF Sessions, Kinds
    <3>. QED
      BY <2>1, <3>1 DEF Sessions, SameTimer
  <2>3. PICK o \in SendOutcomes(marked, [type |-> kind, id |-> id], Link(t)) :
          IF o.err # "NO_ERROR" THEN Return(o)
          ELSE session' = [session EXCEPT ![cur] = o.t] /\ UNCHANGED process
    BY <1>6 DEF Redeliver
  <2>4. SameTimer(t, o.t)
    <3>1. OnlyFlight(marked, o.t)
      BY <2>2, SendOutcomesType
    <3>. QED
      BY <2>2, <3>1, SameTimerFlight
  <2>5. CASE o.err # "NO_ERROR"
    BY <2>1, <2>3, <2>4, <2>5, TimerReturn
  <2>6. CASE o.err = "NO_ERROR"
    <3>1. \A s \in Slots : SameTimer(session[s], session'[s])
      BY <2>3, <2>4, <2>6 DEF TypeOK, SameTimer
    <3>. QED
      BY <2>1, <2>3, <2>6, <3>1, TimerFrame DEF process
  <2>. QED
    BY <2>5, <2>6
<1>7. CASE RedeliveryDone
  BY <1>7, TimerDone DEF RedeliveryDone, At, SameTimer
<1>8. ASSUME NEW k \in IDs, Deliver(k) PROVE TimerInv'
  <2> DEFINE s == clients[k]
             qos == Lower(pub.qos, subscribers[pub.topic][k])
  <2>1. s \in Slots /\ session[s] \in Sessions /\ pc \in {"route", "will"} /\ cur \in Slots
    BY <1>8, AtServes DEF Deliver, Delivers, TypeOK, Serving
  <2>2. PICK o \in PublishOutcomes(session[s], qos, Link(session[s])) :
          IF o.err = "SIGPIPE" THEN Crash("sigpipe")
          ELSE session' = [session EXCEPT ![s] = o.t] /\ UNCHANGED process
    BY <1>8 DEF Deliver
  <2>3. OnlyFlight(session[s], o.t)
    BY <2>1, PublishOutcomesType
  <2>4. CASE o.err = "SIGPIPE"
    BY <2>2, <2>4, TimerUnchanged DEF Crash
  <2>5. CASE o.err # "SIGPIPE"
    <3>1. /\ \A r \in Slots : SameTimer(session[r], session'[r])
          /\ session'[cur].isConnecting = session[cur].isConnecting
      BY <2>1, <2>2, <2>3, <2>5 DEF OnlyFlight, TypeOK, SameTimer
    <3>. QED
      BY <2>1, <2>2, <2>5, <3>1 DEF TimerInv, SameTimer, process
  <2>. QED
    BY <2>4, <2>5
<1>9. ASSUME NEW k \in IDs, DeliverCrashes(k) PROVE TimerInv'
  BY <1>9, TimerUnchanged DEF DeliverCrashes, Crash
<1>10. CASE RouteDone
  <2>1. pc # "accept" /\ session[cur] \in Sessions /\ pub.id \in PacketIDs
    BY <1>10, AtServes DEF RouteDone, At, Serving, TypeOK
  <2>2. \/ \E m : m.id \in PacketIDs /\ Reply(session[cur], m)
        \/ \E err : Done(session[cur], err)
    <3>1. CASE pub.qos = 1
      <4>1. Reply(session[cur], [type |-> "PUBACK", id |-> pub.id])
        BY <1>10, <3>1 DEF RouteDone
      <4>. QED
        BY <2>1, <4>1
    <3>2. CASE pub.qos = 2
      <4>1. Reply(session[cur], [type |-> "PUBREC", id |-> pub.id])
        BY <1>10, <3>2 DEF RouteDone
      <4>. QED
        BY <2>1, <4>1
    <3>3. CASE pub.qos \notin {1, 2}
      BY <1>10, <3>3 DEF RouteDone
    <3>. QED
      BY <3>1, <3>2, <3>3
  <2>. QED
    BY <2>1, <2>2, TimerReply, TimerDone DEF SameTimer
<1>11. ASSUME NEW t \in Topics, NEW qos \in QoS, Subscribe(t, qos) PROVE TimerInv'
  <2>1. pc = "subscribe" /\ cur \in Slots /\ session[cur] \in Sessions
    BY <1>0, <1>11 DEF Subscribe, At, Serving
  <2>2. CASE t \in BadTopics
    BY <1>11, <2>2, TimerUnchanged DEF Subscribe, process
  <2>3. CASE t \notin BadTopics
    <3>1. PICK o \in IF retained[t] = NoQoS
                     THEN {[t |-> session[cur], err |-> "NO_ERROR", wrote |-> FALSE]}
                     ELSE PublishOutcomes(session[cur], Lower(retained[t], qos),
                                          Link(session[cur])) :
            /\ session' = [session EXCEPT ![cur] = o.t]
            /\ CASE o.err = "NO_ERROR" -> todo' = todo \ {<<t, qos>>} /\ UNCHANGED <<process, pub>>
                 [] o.err = "SIGPIPE"  -> status' = "sigpipe" /\ UNCHANGED <<pc, cur, locals>>
                 [] OTHER              -> LoopTest(o.t, o.err)
      BY <1>11, <2>3 DEF Subscribe
    <3>2. SameTimer(session[cur], o.t)
      BY <2>1, <3>1, PublishOutcomesType DEF OnlyFlight, SameTimer
    <3>3. \A s \in Slots : SameTimer(session[s], session'[s])
      BY <3>1, <3>2 DEF TypeOK, SameTimer
    <3>4. pc' \in {"subscribe", "read", "accept"}
      BY <2>1, <3>1 DEF process, LoopTest
    <3>. QED
      BY <3>3, <3>4, TimerFrame
  <2>. QED
    BY <2>2, <2>3
<1>12. CASE SubscribeDone
  <2>1. pc # "accept" /\ session[cur] \in Sessions /\ pub.id \in PacketIDs
    BY <1>12, AtServes DEF SubscribeDone, At, Serving, TypeOK
  <2>. QED
    BY <1>12, <2>1, TimerReply DEF SubscribeDone, SameTimer
<1>13. CASE PingDone
  <2>1. pc = "pinged" /\ Done(Mark(session[cur], Waiting), "NO_ERROR")
    BY <1>13 DEF PingDone, At
  <2>2. session' = [session EXCEPT ![cur] = Mark(session[cur], Waiting)]
        /\ pc' \in {"read", "accept"}
    BY <2>1 DEF Done, Return, LoopTest
  <2>. QED
    BY <2>1, <2>2, TimerMark DEF Serving
<1>. QED
  BY <1>1, <1>2, <1>3, <1>4, <1>5, <1>6, <1>7, <1>8, <1>9, <1>10, <1>11, <1>12, <1>13
     DEF Handle

\* A PINGREQ joins its timer before it makes the entry the timer looks for.
LEMMA TimerPingreq ==
    ASSUME TypeOK, TimerInv, RecvPingreq
    PROVE  TimerInv'
<1> DEFINE t == session[cur]
           next(u) == [Mark(u, Pinged) EXCEPT !.threadIdx = @ + 1]
<1>1. pc = "read" /\ cur \in Slots /\ t \in Sessions
  BY AtServes DEF RecvPingreq, Received, At
<1>2. PICK o \in SendOutcomes(t, [type |-> "PINGRESP", id |-> 0], Link(t)) :
        IF o.err # "NO_ERROR" \/ ~t.keepAlive THEN Return(o)
        ELSE session' = [session EXCEPT ![cur] = next(o.t)] /\ pc' = "join" /\ cur' = cur
  BY DEF RecvPingreq
<1>3. OnlyFlight(t, o.t)
  BY <1>1, SendOutcomesType, ZeroIsPacketID
<1>4. CASE o.err # "NO_ERROR" \/ ~t.keepAlive
  BY <1>1, <1>2, <1>3, <1>4, TimerReturn DEF OnlyFlight, SameTimer
<1>5. CASE o.err = "NO_ERROR" /\ t.keepAlive
  <2>1. t.threadIdx \in Nat /\ t.threadIdx + 1 \in 0 .. MaxPings
    <3>1. t.threadIdx < MaxPings
      BY <1>5 DEF RecvPingreq
    <3>. QED
      BY <1>1, <3>1, BrokerAssumption DEF Sessions
  <2>2. o.t \in Sessions /\ o.t.threadIdx = t.threadIdx
        /\ \A i \in 0 .. MaxPings : i > o.t.threadIdx => o.t.threads[i] = Unset
    BY <1>1, <1>3 DEF OnlyFlight, TimerInv
  <2>3. Mark(o.t, Pinged) \in Sessions /\ Mark(o.t, Pinged).threadIdx = t.threadIdx
        /\ \A i \in 0 .. MaxPings : i > t.threadIdx => Mark(o.t, Pinged).threads[i] = Unset
    BY <2>2, MarkTimer, MarkType
  <2>4. next(o.t).threadIdx = t.threadIdx + 1
        /\ next(o.t).threads = Mark(o.t, Pinged).threads
    BY <2>3 DEF Sessions
  <2> HIDE DEF next
  <2>5. \A i \in 0 .. MaxPings : i >= next(o.t).threadIdx => next(o.t).threads[i] = Unset
    <3>1. \A i \in 0 .. MaxPings : i >= t.threadIdx + 1 => i > t.threadIdx
      BY <2>1, BrokerAssumption
    <3>. QED
      BY <2>3, <2>4, <3>1
  <2>6. session'[cur] = next(o.t) /\ \A s \in Slots \ {cur} : session'[s] = session[s]
    BY <1>1, <1>2, <1>5 DEF TypeOK
  <2>7. \A s \in Slots : \A i \in 0 .. MaxPings :
          i > session'[s].threadIdx => session'[s].threads[i] = Unset
    <3>1. \A i \in 0 .. MaxPings : i > next(o.t).threadIdx => i >= next(o.t).threadIdx
      BY <2>1, <2>4
    <3>. QED
      BY <2>5, <2>6, <3>1 DEF TimerInv
  <2>8. session'[cur].threads[session'[cur].threadIdx] = Unset
    BY <2>1, <2>4, <2>5, <2>6
  <2>9. pc' = "join" /\ cur' = cur
    BY <1>2, <1>5
  <2>10. ~EntryIsWaiting'
    <3>1. session'[cur'].threads[session'[cur'].threadIdx] = Unset
      BY <2>8, <2>9
    <3>. QED
      BY <3>1 DEF EntryIsWaiting, Unset, Waiting
  <2>. QED
    BY <2>7, <2>9, <2>10 DEF TimerInv
<1>. QED
  BY <1>4, <1>5

\* Every message received keeps the timers.
LEMMA TimerReceive ==
    ASSUME TypeOK, TimerInv, Receive
    PROVE  TimerInv'
<1>0. Received => pc = "read" /\ cur \in Slots /\ session[cur] \in Sessions
  BY AtServes DEF Received, At
<1>1. CASE RecvInvalid
  BY <1>0, <1>1, TimerDone DEF RecvInvalid, SameTimer
<1>2. ASSUME NEW id, ConnectCrashes(id) PROVE TimerInv'
  BY <1>2, TimerUnchanged DEF ConnectCrashes, Crash
<1>3. ASSUME NEW id, NEW cs, RejectConnect(id, cs) PROVE TimerInv'
  BY <1>0, <1>3, TimerDone DEF RejectConnect, ConnectReceived, SameTimer
<1>4. ASSUME NEW id \in Names \cup {Anon}, NEW cs \in BOOLEAN, NEW ka \in KeepAlives,
             NEW w \in Wills, AcceptConnect(id, cs, ka, w)
      PROVE  TimerInv'
  BY <1>4, TimerConnect, BrokerAssumption DEF IDs
<1>5. ASSUME NEW t, NEW qos, NEW retain, NEW id, RecvPublish(t, qos, retain, id)
      PROVE  TimerInv'
  <2>1. CASE t \in BadTopics
    BY <1>0, <1>5, <2>1, TimerDone DEF RecvPublish, SameTimer
  <2>2. CASE t \notin BadTopics
    <3>1. session' = session /\ pc' = "route"
      BY <1>5, <2>2 DEF RecvPublish
    <3>. QED
      BY <3>1, TimerFrame DEF SameTimer
  <2>. QED
    BY <2>1, <2>2
<1>6. ASSUME NEW id \in PacketIDs,
             RecvPuback(id) \/ RecvPubrec(id) \/ RecvPubrel(id) \/ RecvPubcomp(id)
      PROVE  TimerInv'
  <2>1. pc # "accept" /\ session[cur] \in Sessions
    BY <1>0, <1>6 DEF RecvPuback, RecvPubrec, RecvPubrel, RecvPubcomp
  <2>2. Acked(session[cur], id) \in Sessions
    BY <2>1, AckedType
  <2>3. SameTimer(session[cur], Acked(session[cur], id)) /\ SameTimer(session[cur], session[cur])
    BY <2>1 DEF Acked, SameTimer, Sessions
  <2>4. CASE RecvPuback(id)
    BY <2>1, <2>3, <2>4, TimerDone DEF RecvPuback
  <2>5. CASE RecvPubrec(id)
    BY <2>1, <2>2, <2>3, <2>5, TimerReply DEF RecvPubrec
  <2>6. CASE RecvPubrel(id)
    BY <2>1, <2>2, <2>3, <2>6, TimerReply DEF RecvPubrel
  <2>7. CASE RecvPubcomp(id)
    BY <2>1, <2>3, <2>7, TimerDone DEF RecvPubcomp
  <2>. QED
    BY <1>6, <2>4, <2>5, <2>6, <2>7
<1>7. ASSUME NEW requests, NEW id, RecvSubscribe(requests, id) PROVE TimerInv'
  BY <1>7, TimerFrame DEF RecvSubscribe, SameTimer
<1>8. ASSUME NEW ts, NEW id \in PacketIDs, RecvUnsubscribe(ts, id) PROVE TimerInv'
  <2> DEFINE t == session[cur]
  <2>1. pc # "accept" /\ cur \in Slots /\ t \in Sessions
    BY <1>0, <1>8 DEF RecvUnsubscribe
  <2>2. CASE ts = {}
    BY <1>8, <2>1, <2>2, TimerDone DEF RecvUnsubscribe, SameTimer
  <2>3. CASE ts # {}
    <3>1. PICK o \in SendOutcomes(t, [type |-> "UNSUBACK", id |-> id], Link(t)) :
            /\ IF o.err = "SIGPIPE" THEN status' = "sigpipe" /\ UNCHANGED <<pc, cur, locals>>
               ELSE LoopTest(o.t, o.err)
            /\ session' = [session EXCEPT ![cur] = o.t]
      BY <1>8, <2>3 DEF RecvUnsubscribe
    <3>2. OnlyFlight(t, o.t)
      BY <2>1, SendOutcomesType
    <3>3. \A s \in Slots : SameTimer(session[s], session'[s])
      BY <3>1, <3>2 DEF OnlyFlight, SameTimer, TypeOK
    <3>4. pc' \in {"read", "accept"}
      BY <1>0, <1>8, <3>1 DEF LoopTest, RecvUnsubscribe
    <3>. QED
      BY <3>3, <3>4, TimerFrame
  <2>. QED
    BY <2>2, <2>3
<1>9. CASE RecvPingreq
  BY <1>9, TimerPingreq
<1>10. CASE RecvDisconnect
  <2> DEFINE t == [session[cur] EXCEPT !.will = NoWill]
  <2>1. cur \in Slots /\ session[cur] \in Sessions
    BY <1>0, <1>10 DEF RecvDisconnect
  <2>2. t \in Sessions /\ SameTimer(session[cur], t)
    BY <2>1 DEF Sessions, SameTimer
  <2>3. FinishDisconnect(t) /\ LoopTest(Disconnected(t), "NO_ERROR")
    BY <1>10 DEF RecvDisconnect
  <2>4. pc' = "accept"
    BY <2>2, <2>3, DisconnectedType DEF LoopTest
  <2>. QED
    BY <2>1, <2>2, <2>3, <2>4, TimerFinish
<1>11. CASE DisconnectCrashes
  BY <1>11, TimerUnchanged DEF DisconnectCrashes, Crash
<1>. QED
  BY <1>1, <1>2, <1>3, <1>4, <1>5, <1>6, <1>7, <1>8, <1>9, <1>10, <1>11 DEF Receive

\* Every step keeps the timers.
LEMMA TimerStep ==
    ASSUME TypeOK, TimerInv, [Next]_vars
    PROVE  TimerInv'
<1>1. ASSUME NEW c \in Conns, NEW s \in Slots, Accept(c, s) PROVE TimerInv'
  <2>1. PICK fd \in Fds : session' = [session EXCEPT ![s] = NewSession(fd)]
    BY <1>1 DEF Accept
  <2>2. \A i \in 0 .. MaxPings : session'[s].threads[i] = Unset
    BY <2>1, TimerNew DEF TypeOK
  <2>3. \A r \in Slots \ {s} : session'[r] = session[r]
    BY <2>1 DEF TypeOK
  <2>4. pc' = "read"
    BY <1>1 DEF Accept
  <2>. QED
    BY <2>2, <2>3, <2>4 DEF TimerInv
<1>2. ASSUME NEW c \in Conns, PeerLeaves(c) PROVE TimerInv'
  BY <1>2, TimerUnchanged DEF PeerLeaves, process
<1>3. CASE PeerClosed
  BY <1>3, TimerFrame DEF PeerClosed, LoopTest, SameTimer
<1>4. CASE ReadError
  BY <1>4, TimerDone DEF ReadError, At, SameTimer
<1>5. CASE Receive
  BY <1>5, TimerReceive
<1>6. CASE Handle
  BY <1>6, TimerHandle
<1>7. CASE UNCHANGED vars
  BY <1>7, TimerUnchanged DEF vars, process
<1>. QED
  BY <1>1, <1>2, <1>3, <1>4, <1>5, <1>6, <1>7 DEF Next

\* Every variable keeps its type; while a handler runs, its session has not
\* been deleted (disconnectProcessing, expirationTimer).
THEOREM TypeCorrect == Spec => []TypeOK
<1>1. Init => TypeOK /\ TimerInv
  BY TypeInit, TimerInit
<1>2. TypeOK /\ TimerInv /\ [Next]_vars => (TypeOK /\ TimerInv)'
  BY TypeStep, TimerStep
<1>. QED
  BY <1>1, <1>2, PTL DEF Spec
=============================================================================
