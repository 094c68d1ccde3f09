----------------------------- MODULE BrokerSteps -----------------------------
(***************************************************************************)
(* What a step of Broker can do, for every value of its constants.  Most   *)
(* steps are routine: no session changes its identifier, its descriptor or *)
(* whether it is connected, and the registry and the sockets stay as they  *)
(* are.  StepKinds names the others.  The safety proofs rest on it, and do *)
(* not look at the handlers again.                                         *)
(***************************************************************************)
EXTENDS BrokerProofs

(***************************************************************************)
(* What a routine step leaves of a session.                                *)
(***************************************************************************)
Alike(t, u) ==
    /\ u.ID = t.ID /\ u.fd = t.fd /\ u.isConnecting = t.isConnecting
    /\ t.threads[0] # Unset => u.threads[0] # Unset
    /\ ~t.isConnecting => u.threadIdx = t.threadIdx
    /\ t.packetIDMap[0] = NoMessage => u.packetIDMap[0] = NoMessage

NoNewDup(t, u) ==
    \A id \in PacketIDs : u.packetIDMap[id] = "DUP" => t.packetIDMap[id] = "DUP"

Keeping(t, u) == Alike(t, u) /\ NoNewDup(t, u)

\* Only the session being served subscribes, under its own key.
OwnSubscriptions ==
    \A t \in Topics, k \in IDs :
        subscribers'[t][k] # NoQoS =>
            subscribers[t][k] # NoQoS \/ (cur \in Slots /\ k = session[cur].ID)

Elsewhere ==
    /\ UNCHANGED <<registry, socket, tcp>>
    /\ \A c \in Conns : peer'[c] = peer[c] \/ peer'[c] = "gone"
    /\ OwnSubscriptions

Place ==
    /\ cur' \in {cur, Nil}
    /\ pc' = "read" => pc = "read" \/ session[cur].isConnecting
    /\ pc' = "redeliver" => pc = "redeliver"
    /\ pc' = "will" => pc = "will" \/ EntryIsWaiting

\* Only a session that redelivery drops may have a PUBLISH newly marked dup.
Dropped(s) == pc = "redeliver" /\ s = cur /\ cur' = Nil

Routine ==
    /\ \A s \in Slots : /\ Alike(session[s], session'[s])
                        /\ NoNewDup(session[s], session'[s]) \/ Dropped(s)
    /\ Elsewhere
    /\ Place

(***************************************************************************)
(* The other steps.                                                        *)
(***************************************************************************)
AnAccept == \E c \in Conns, s \in Slots : Accept(c, s)

AConnect ==
    \E id \in Names \cup {Anon}, cs \in BOOLEAN, ka \in BOOLEAN, w \in Wills :
        AcceptConnect(id, cs, ka, w)

\* The CONNACK has been written, or its error ignored.
Connects ==
    /\ pc = "connack" /\ pc' = "redeliver" /\ cur' = cur /\ cur \in Slots
    /\ \E u \in Sessions : /\ Keeping([session[cur] EXCEPT !.isConnecting = TRUE], u)
                          /\ session' = [session EXCEPT ![cur] = u]
    /\ UNCHANGED <<registry, tree, network>>

\* A DISCONNECT, or the timer of a CONNECT, which goes on to the CONNACK.
Disconnects ==
    /\ cur \in Slots
    /\ \E t \in Sessions : Keeping(session[cur], t) /\ FinishDisconnect(t)
    /\ \/ cur' = Nil /\ pc' = "accept"
       \/ /\ cur' = cur /\ pc' = "connack" /\ ~session[cur].isConnecting
          /\ pc = "will" \/ EntryIsWaiting

-----------------------------------------------------------------------------
(***************************************************************************)
(* The operations of Terminal keep what a routine step keeps.              *)
(***************************************************************************)
LEMMA KeepingItself == ASSUME NEW t PROVE Keeping(t, t)
BY DEF Keeping, Alike, NoNewDup

LEMMA KeepingOn ==
    ASSUME NEW t, NEW u, NEW v, Keeping(t, u), Keeping(u, v)
    PROVE  Keeping(t, v)
BY DEF Keeping, Alike, NoNewDup

\* sendMessage keeps nothing under 0 and marks nothing dup.
LEMMA SendKeeps ==
    ASSUME NEW t \in Sessions, NEW m, m.id \in PacketIDs, m.type # "DUP", NEW link,
           NEW o \in SendOutcomes(t, m, link)
    PROVE  Keeping(t, o.t)
<1>1. CASE o.t = t
  BY <1>1, KeepingItself
<1>2. CASE o.t = AfterWrite(t, m) /\ Keeps(m)
  <2>1. m.id # 0
    BY <1>2 DEF Keeps
  <2>2. o.t = [t EXCEPT !.packetIDMap[m.id] = m.type]
    BY <1>2 DEF AfterWrite
  <2>3. Alike(t, o.t)
    BY <2>1, <2>2, ZeroIsPacketID DEF Alike, Sessions
  <2>4. NoNewDup(t, o.t)
    BY <2>2 DEF NoNewDup, Sessions
  <2>. QED
    BY <2>3, <2>4 DEF Keeping
<1>3. CASE o.t = AfterWrite(t, m) /\ ~Keeps(m)
  BY <1>3, KeepingItself DEF AfterWrite
<1>. QED
  BY <1>1, <1>2, <1>3, SendOutcomesShape

\* Drawing an identifier changes the generator only.
LEMMA DrawKeeps ==
    ASSUME NEW t \in Sessions, NEW d \in DrawOutcomes(t)
    PROVE  Keeping(t, d.t)
BY DrawOutcomesType DEF OnlyFlight, Keeping, Alike, NoNewDup

\* checkQoSAndPublish keeps the same.
LEMMA PublishKeeps ==
    ASSUME NEW t \in Sessions, NEW qos, NEW link, NEW o \in PublishOutcomes(t, qos, link)
    PROVE  Keeping(t, o.t)
<1>1. CASE qos = 0
  BY <1>1, SendKeeps, ZeroIsPacketID DEF PublishOutcomes
<1>2. CASE qos # 0
  <2>1. PICK d \in DrawOutcomes(t) :
          o \in IF d.err # "NO_ERROR"
                THEN { [t |-> d.t, err |-> d.err, wrote |-> FALSE] }
                ELSE SendOutcomes(d.t, [type |-> "PUBLISH", id |-> d.id], link)
    BY <1>2 DEF PublishOutcomes
  <2>2. d.id \in PacketIDs /\ d.t \in Sessions /\ Keeping(t, d.t)
    BY DrawOutcomesType, DrawKeeps DEF OnlyFlight
  <2>3. CASE d.err # "NO_ERROR"
    BY <2>1, <2>2, <2>3
  <2>4. CASE o \in SendOutcomes(d.t, [type |-> "PUBLISH", id |-> d.id], link)
    <3>1. Keeping(d.t, o.t)
      BY <2>2, <2>4, SendKeeps
    <3>. QED
      BY <2>2, <3>1, KeepingOn
  <2>. QED
    BY <2>1, <2>3, <2>4
<1>. QED
  BY <1>1, <1>2

\* Without an error, sendMessage has found the session connected.
LEMMA SentWhenConnected ==
    ASSUME NEW t, NEW m, NEW link, NEW o \in SendOutcomes(t, m, link), o.err = "NO_ERROR"
    PROVE  t.isConnecting /\ ~InUse(t, m.id)
BY DEF SendOutcomes, Refusal

LEMMA AckKeeps ==
    ASSUME NEW t \in Sessions, NEW id \in PacketIDs
    PROVE  Acked(t, id) \in Sessions /\ Keeping(t, Acked(t, id))
BY AckedType, ZeroIsPacketID DEF Acked, Keeping, Alike, NoNewDup, Sessions, NoMessage

LEMMA MarkKeeps ==
    ASSUME NEW t \in Sessions, NEW mark \in {Waiting, Pinged}
    PROVE  Mark(t, mark) \in Sessions /\ Keeping(t, Mark(t, mark))
<1>1. t.threads \in [0 .. MaxPings -> {Unset, Waiting, Pinged}] /\ t.threadIdx \in 0 .. MaxPings
  BY DEF Sessions
<1>2. Mark(t, mark).threads[0] = IF t.threadIdx = 0 THEN mark ELSE t.threads[0]
  BY <1>1, BrokerAssumption DEF Mark, Sessions
<1>3. mark # Unset
  BY DEF Unset, Waiting, Pinged
<1>4. /\ Mark(t, mark).ID = t.ID /\ Mark(t, mark).fd = t.fd
      /\ Mark(t, mark).isConnecting = t.isConnecting /\ Mark(t, mark).threadIdx = t.threadIdx
      /\ Mark(t, mark).packetIDMap = t.packetIDMap
  BY DEF Mark, Sessions
<1>. QED
  BY <1>2, <1>3, <1>4, MarkType DEF Keeping, Alike, NoNewDup

-----------------------------------------------------------------------------
(***************************************************************************)
(* How the ends of handlers are routine.                                   *)
(***************************************************************************)
\* A step that changes one session.
LEMMA KeepingOne ==
    ASSUME TypeOK, NEW s \in Slots, NEW t, Keeping(session[s], t),
           session' = session \/ session' = [session EXCEPT ![s] = t], Elsewhere, Place
    PROVE  Routine
<1>1. \A r \in Slots : session'[r] = session[r] \/ (r = s /\ session'[r] = t)
  BY DEF TypeOK
<1>2. \A r \in Slots : Keeping(session[r], session'[r])
  BY <1>1, KeepingItself
<1>. QED
  BY <1>2 DEF Routine, Keeping

\* A step that changes none.
LEMMA KeepingAll ==
    ASSUME session' = session, Elsewhere, Place
    PROVE  Routine
BY KeepingItself DEF Routine, Keeping

\* Where nothing but the session changes, nothing changes elsewhere.
LEMMA NothingElsewhere ==
    ASSUME UNCHANGED <<registry, socket, tcp>>, peer' = peer, subscribers' = subscribers
    PROVE  Elsewhere
BY DEF Elsewhere, OwnSubscriptions

\* The end of the process is routine.
LEMMA CrashRoutine ==
    ASSUME NEW cause, Crash(cause)
    PROVE  Routine
<1>1. Elsewhere
  BY NothingElsewhere DEF Crash, tree, network
<1>2. Place
  BY DEF Crash, Place
<1>. QED
  BY <1>1, <1>2, KeepingAll DEF Crash

\* The loop is entered again only by a session that is connected.
LEMMA LoopTestPlace ==
    ASSUME NEW t, NEW err, LoopTest(t, err), t.isConnecting = session[cur].isConnecting
    PROVE  Place
BY DEF LoopTest, Place

\* A handler that comes back to readLoop.
LEMMA ReturnRoutine ==
    ASSUME TypeOK, cur \in Slots, NEW o, Keeping(session[cur], o.t), Return(o)
    PROVE  Routine
<1>1. CASE o.err = "SIGPIPE"
  BY <1>1, CrashRoutine DEF Return
<1>2. CASE o.err # "SIGPIPE"
  <2>1. Elsewhere
    BY <1>2, NothingElsewhere DEF Return, tree, network
  <2>2. Place
    BY <1>2, LoopTestPlace DEF Return, Keeping, Alike
  <2>. QED
    BY <1>2, <2>1, <2>2, KeepingOne DEF Return
<1>. QED
  BY <1>1, <1>2

\* The same for a handler that sends nothing.
LEMMA DoneRoutine ==
    ASSUME TypeOK, cur \in Slots, NEW t, NEW err, Keeping(session[cur], t), Done(t, err)
    PROVE  Routine
BY ReturnRoutine DEF Done

\* The same for a handler that ends with sendMessage.
LEMMA ReplyRoutine ==
    ASSUME TypeOK, cur \in Slots, NEW t \in Sessions, NEW m, m.id \in PacketIDs,
           m.type # "DUP", Keeping(session[cur], t), Reply(t, m)
    PROVE  Routine
<1>1. PICK o \in SendOutcomes(t, m, Link(t)) : Return(o)
  BY DEF Reply
<1>2. Keeping(session[cur], o.t)
  BY SendKeeps, KeepingOn
<1>. QED
  BY <1>1, <1>2, ReturnRoutine

-----------------------------------------------------------------------------
(***************************************************************************)
(* The steps within handlers.                                              *)
(***************************************************************************)
\* redelivery marks a PUBLISH dup, finds that it cannot send it, since it is
\* in the map, and drops the session.
LEMMA RedeliverRoutine ==
    ASSUME TypeOK, NEW id \in PacketIDs, Redeliver(id)
    PROVE  Routine
<1>. DEFINE t == session[cur]
            kind == IF t.packetIDMap[id] = "PUBLISH" THEN "DUP" ELSE t.packetIDMap[id]
            marked == [t EXCEPT !.packetIDMap[id] = kind]
<1>1. pc = "redeliver" /\ cur \in Slots /\ t \in Sessions
  BY AtServes DEF Redeliver, At, Serving
<1>2. PICK o \in SendOutcomes(marked, [type |-> kind, id |-> id], Link(t)) :
        IF o.err # "NO_ERROR" THEN Return(o)
        ELSE /\ session' = [session EXCEPT ![cur] = o.t]
             /\ todo' = todo \ {id}
             /\ UNCHANGED <<process, pub, registry, tree, network>>
  BY DEF Redeliver
<1>3. CASE kind = "DUP"
  <2>1. marked.packetIDMap[id] = "DUP" /\ Alike(t, marked)
    <3>1. "DUP" # NoMessage /\ t.packetIDMap[id] # NoMessage
      BY <1>3 DEF NoMessage
    <3>. QED
      BY <1>1, <1>3, <3>1, ZeroIsPacketID DEF Alike, Sessions
  <2>2. Refusal(marked, [type |-> kind, id |-> id]) \in {"NOT_CONNECTED", "PACKET_ID_IS_USED_ALREADY"}
    BY <2>1 DEF Refusal, InUse, NoMessage
  <2>3. o.t = marked /\ o.err \notin {"NO_ERROR", "SIGPIPE"}
    BY <1>2, <2>2 DEF SendOutcomes
  <2>4. /\ LoopTest(marked, o.err) /\ session' = [session EXCEPT ![cur] = marked]
        /\ UNCHANGED <<registry, tree, network>>
    BY <1>2, <2>3 DEF Return
  <2>5. Place /\ cur' = Nil
    BY <2>3, <2>4 DEF LoopTest, Place
  <2>6. Elsewhere
    BY <2>4, NothingElsewhere DEF tree, network
  <2>7. ASSUME NEW s \in Slots
        PROVE  Alike(session[s], session'[s]) /\ (NoNewDup(session[s], session'[s]) \/ Dropped(s))
    <3>1. CASE s = cur
      BY <1>1, <2>1, <2>4, <2>5, <3>1 DEF Dropped, TypeOK
    <3>2. CASE s # cur
      <4>1. session'[s] = session[s]
        BY <2>4, <3>2 DEF TypeOK
      <4>. QED
        BY <4>1, KeepingItself DEF Keeping
    <3>. QED
      BY <3>1, <3>2
  <2>. QED
    BY <2>5, <2>6, <2>7 DEF Routine
<1>4. CASE kind # "DUP"
  <2>1. kind = t.packetIDMap[id]
    BY <1>4
  <2>2. marked = t
    BY <1>1, <2>1 DEF Sessions
  <2>3. Keeping(t, o.t)
    BY <1>1, <1>2, <1>4, <2>2, SendKeeps
  <2>4. CASE o.err # "NO_ERROR"
    BY <1>1, <1>2, <2>3, <2>4, ReturnRoutine
  <2>5. CASE o.err = "NO_ERROR"
    <3>1. Elsewhere /\ Place
      BY <1>2, <2>5, NothingElsewhere DEF Place, process, tree, network
    <3>. QED
      BY <1>1, <1>2, <2>3, <2>5, <3>1, KeepingOne
  <2>. QED
    BY <2>4, <2>5
<1>. QED
  BY <1>3, <1>4

\* A delivery changes the subscriber's packets in flight.
LEMMA DeliverRoutine ==
    ASSUME TypeOK, NEW k \in IDs, Deliver(k)
    PROVE  Routine
<1>. DEFINE s == clients[k]
            qos == Lower(pub.qos, subscribers[pub.topic][k])
<1>1. s \in Slots /\ session[s] \in Sessions
  BY DEF Deliver, TypeOK
<1>2. PICK o \in PublishOutcomes(session[s], qos, Link(session[s])) :
        IF o.err = "SIGPIPE" THEN Crash("sigpipe")
        ELSE /\ session' = [session EXCEPT ![s] = o.t]
             /\ UNCHANGED <<process, registry, tree, network>>
  BY DEF Deliver
<1>3. Keeping(session[s], o.t)
  BY <1>1, PublishKeeps
<1>4. CASE o.err = "SIGPIPE"
  BY <1>2, <1>4, CrashRoutine
<1>5. CASE o.err # "SIGPIPE"
  <2>1. Elsewhere /\ Place
    BY <1>2, <1>5, NothingElsewhere DEF Place, process, tree, network
  <2>. QED
    BY <1>1, <1>2, <1>3, <1>5, <2>1, KeepingOne
<1>. QED
  BY <1>4, <1>5

\* The answer to a PUBLISH.
LEMMA RouteDoneRoutine ==
    ASSUME TypeOK, RouteDone
    PROVE  Routine
<1>1. cur \in Slots /\ session[cur] \in Sessions /\ pub.id \in PacketIDs
  BY AtServes DEF RouteDone, At, Serving, TypeOK
<1>2. Keeping(session[cur], session[cur])
  BY KeepingItself
<1>3. CASE pub.qos = 1
  <2>1. Reply(session[cur], [type |-> "PUBACK", id |-> pub.id])
    BY <1>3 DEF RouteDone
  <2>. QED
    BY <1>1, <1>2, <2>1, ReplyRoutine
<1>4. CASE pub.qos = 2
  <2>1. Reply(session[cur], [type |-> "PUBREC", id |-> pub.id])
    BY <1>4 DEF RouteDone
  <2>. QED
    BY <1>1, <1>2, <2>1, ReplyRoutine
<1>5. CASE pub.qos \notin {1, 2}
  BY <1>1, <1>2, <1>5, DoneRoutine DEF RouteDone
<1>. QED
  BY <1>3, <1>4, <1>5

\* A filter of a SUBSCRIBE: the subscription is the session's own.
LEMMA SubscribeRoutine ==
    ASSUME TypeOK, NEW t \in Topics, NEW qos \in QoS, Subscribe(t, qos)
    PROVE  Routine
<1>1. pc = "subscribe" /\ cur \in Slots /\ session[cur] \in Sessions
  BY AtServes DEF Subscribe, At, Serving
<1>2. CASE t \in BadTopics
  <2>1. session' = session /\ UNCHANGED <<process, tree, registry, network>>
    BY <1>2 DEF Subscribe
  <2>2. Elsewhere /\ Place
    BY <2>1, NothingElsewhere DEF Place, process, tree, network
  <2>. QED
    BY <2>1, <2>2, KeepingAll
<1>3. CASE t \notin BadTopics
  <2>1. PICK o \in IF retained[t] = NoQoS
                   THEN {[t |-> session[cur], err |-> "NO_ERROR", wrote |-> FALSE]}
                   ELSE PublishOutcomes(session[cur], Lower(retained[t], qos),
                                        Link(session[cur])) :
          /\ session' = [session EXCEPT ![cur] = o.t]
          /\ CASE o.err = "NO_ERROR" -> todo' = todo \ {<<t, qos>>} /\ UNCHANGED <<process, pub>>
               [] o.err = "SIGPIPE"  -> status' = "sigpipe" /\ UNCHANGED <<pc, cur, locals>>
               [] OTHER              -> LoopTest(o.t, o.err)
    BY <1>3 DEF Subscribe
  <2>2. Keeping(session[cur], o.t)
    BY <1>1, <2>1, KeepingItself, PublishKeeps
  <2>3. UNCHANGED <<pc, cur>> \/ LoopTest(o.t, o.err)
    BY <2>1 DEF process
  <2>4. Place
    BY <2>2, <2>3, LoopTestPlace DEF Place, Keeping, Alike
  <2>5. /\ subscribers' = [subscribers EXCEPT ![t][session[cur].ID] = qos]
        /\ UNCHANGED <<registry, network>>
    BY <1>3 DEF Subscribe
  <2>6. OwnSubscriptions
    BY <1>1, <2>5 DEF OwnSubscriptions, TypeOK
  <2>7. Elsewhere
    BY <2>5, <2>6 DEF Elsewhere, network
  <2>. QED
    BY <1>1, <2>1, <2>2, <2>4, <2>7, KeepingOne
<1>. QED
  BY <1>2, <1>3

\* The CONNACK, which connects the session.
LEMMA ConnackConnects ==
    ASSUME TypeOK, Connack
    PROVE  Routine \/ Connects
<1>. DEFINE t == [session[cur] EXCEPT !.isConnecting = TRUE]
<1>1. pc = "connack" /\ cur \in Slots /\ session[cur] \in Sessions
  BY AtServes DEF Connack, At, Serving
<1>2. t \in Sessions
  BY <1>1 DEF Sessions
<1>3. PICK o \in SendOutcomes(t, [type |-> "CONNACK", id |-> 0], Link(t)) :
        IF o.err = "SIGPIPE" THEN Crash("sigpipe")
        ELSE /\ session' = [session EXCEPT ![cur] = o.t]
             /\ pc' = "redeliver"
             /\ UNCHANGED <<status, cur, pub, registry, tree, network>>
  BY DEF Connack
<1>4. CASE o.err = "SIGPIPE"
  BY <1>3, <1>4, CrashRoutine
<1>5. CASE o.err # "SIGPIPE"
  <2>1. o.t \in Sessions /\ Keeping(t, o.t)
    BY <1>2, SendOutcomesType, SendKeeps, ZeroIsPacketID DEF OnlyFlight
  <2>. QED
    BY <1>1, <1>3, <1>5, <2>1 DEF Connects
<1>. QED
  BY <1>4, <1>5

\* The timer of a CONNECT, and the end of its will.
LEMMA TimerKind ==
    ASSUME TypeOK, TimerInv, TimerExpires \/ WillDone
    PROVE  Routine \/ Disconnects
<1>1. cur \in Slots /\ session[cur] \in Sessions
  BY AtServes DEF TimerExpires, WillDone, At, Serving
<1>2. ~session[cur].isConnecting /\ AfterTimer = "connack" /\ (pc = "will" \/ EntryIsWaiting)
  BY DEF TimerExpires, WillDone, At, TimerInv, AfterTimer
<1>3. CASE FinishDisconnect(session[cur]) /\ cur' = cur /\ pc' = "connack"
  BY <1>1, <1>2, <1>3, KeepingItself DEF Disconnects
<1>4. CASE TimerExpires /\ session[cur].will # NoWill
  <2>1. session' = session /\ UNCHANGED <<cur, registry, subscribers, network>>
    BY <1>4 DEF TimerExpires
  <2>2. pc' \in {"connack", "will"} /\ EntryIsWaiting
    BY <1>2, <1>4 DEF TimerExpires
  <2>3. Elsewhere /\ Place
    BY <2>1, <2>2, NothingElsewhere DEF Place, network
  <2>. QED
    BY <2>1, <2>3, KeepingAll
<1>. QED
  BY <1>2, <1>3, <1>4 DEF TimerExpires, WillDone

\* Every step within a handler is of a kind.
LEMMA HandleKinds ==
    ASSUME TypeOK, TimerInv, Handle
    PROVE  Routine \/ Connects \/ Disconnects
<1>0. pc \in Serving => cur \in Slots /\ session[cur] \in Sessions
  BY AtServes
<1>a. Keeping(session[cur], session[cur])
  BY KeepingItself
<1>1. CASE ArmTimer \/ TimerMissesEntry \/ TimerFindsNothing
  <2>1. cur \in Slots /\ session[cur] \in Sessions
    BY <1>0, <1>1 DEF ArmTimer, TimerMissesEntry, TimerFindsNothing, At, Serving
  <2>2. session' = session \/ session' = [session EXCEPT ![cur] = Mark(session[cur], Waiting)]
    BY <1>1, <2>1 DEF ArmTimer, TimerMissesEntry, TimerFindsNothing, TypeOK
  <2>3. pc' \in {"join", "connack", "pinged"} /\ UNCHANGED <<cur, registry, tree, network>>
    BY <1>1 DEF ArmTimer, TimerMissesEntry, TimerFindsNothing, AfterTimer
  <2>4. Elsewhere /\ Place
    BY <2>3, NothingElsewhere DEF Place, tree, network
  <2>. QED
    BY <2>1, <2>2, <2>4, MarkKeeps, KeepingOne
<1>2. CASE TimerExpires \/ WillDone
  BY <1>2, TimerKind
<1>3. CASE Connack
  BY <1>3, ConnackConnects
<1>4. CASE \E id \in PacketIDs : Redeliver(id)
  BY <1>4, RedeliverRoutine
<1>5. CASE RedeliveryDone
  BY <1>0, <1>a, <1>5, DoneRoutine DEF RedeliveryDone, At, Serving
<1>6. CASE \E k \in IDs : Deliver(k) \/ DeliverCrashes(k)
  BY <1>6, DeliverRoutine, CrashRoutine DEF DeliverCrashes
<1>7. CASE RouteDone
  BY <1>7, RouteDoneRoutine
<1>8. CASE \E t \in Topics, qos \in QoS : Subscribe(t, qos)
  BY <1>8, SubscribeRoutine
<1>9. CASE SubscribeDone
  <2>1. cur \in Slots /\ session[cur] \in Sessions /\ pub.id \in PacketIDs
    BY <1>0, <1>9 DEF SubscribeDone, At, Serving, TypeOK
  <2>. QED
    BY <1>9, <1>a, <2>1, ReplyRoutine DEF SubscribeDone
<1>10. CASE PingDone
  BY <1>0, <1>10, MarkKeeps, DoneRoutine DEF PingDone, At, Serving
<1>. QED
  BY <1>1, <1>2, <1>3, <1>4, <1>5, <1>6, <1>7, <1>8, <1>9, <1>10 DEF Handle

-----------------------------------------------------------------------------
(***************************************************************************)
(* The messages.                                                           *)
(***************************************************************************)
\* Acknowledgements take a packet out of the map.
LEMMA AckRoutine ==
    ASSUME TypeOK, NEW id \in PacketIDs,
           RecvPuback(id) \/ RecvPubrec(id) \/ RecvPubrel(id) \/ RecvPubcomp(id)
    PROVE  Routine
<1>1. cur \in Slots /\ session[cur] \in Sessions
  BY AtServes DEF RecvPuback, RecvPubrec, RecvPubrel, RecvPubcomp
<1>2. /\ Keeping(session[cur], session[cur])
      /\ Acked(session[cur], id) \in Sessions /\ Keeping(session[cur], Acked(session[cur], id))
  BY <1>1, AckKeeps, KeepingItself
<1>3. CASE RecvPuback(id)
  BY <1>1, <1>2, <1>3, DoneRoutine DEF RecvPuback
<1>4. CASE RecvPubrec(id)
  BY <1>1, <1>2, <1>4, ReplyRoutine DEF RecvPubrec
<1>5. CASE RecvPubrel(id)
  BY <1>1, <1>2, <1>5, ReplyRoutine DEF RecvPubrel
<1>6. CASE RecvPubcomp(id)
  BY <1>1, <1>2, <1>6, DoneRoutine DEF RecvPubcomp
<1>. QED
  BY <1>3, <1>4, <1>5, <1>6

\* UNSUBSCRIBE takes subscriptions away.
LEMMA UnsubscribeRoutine ==
    ASSUME TypeOK, NEW ts, NEW id \in PacketIDs, RecvUnsubscribe(ts, id)
    PROVE  Routine
<1>1. cur \in Slots /\ session[cur] \in Sessions /\ Keeping(session[cur], session[cur])
  BY AtServes, KeepingItself DEF RecvUnsubscribe
<1>2. CASE ts = {}
  BY <1>1, <1>2, DoneRoutine DEF RecvUnsubscribe
<1>3. CASE ts # {}
  <2>1. PICK o \in SendOutcomes(session[cur], [type |-> "UNSUBACK", id |-> id],
                                Link(session[cur])) :
          /\ subscribers' = [f \in Topics |->
                               IF f \in ts \ BadTopics
                               THEN [subscribers[f] EXCEPT ![session[cur].ID] = NoQoS]
                               ELSE subscribers[f]]
          /\ IF o.err = "SIGPIPE" THEN status' = "sigpipe" /\ UNCHANGED <<pc, cur, locals>>
             ELSE LoopTest(o.t, o.err)
          /\ session' = [session EXCEPT ![cur] = o.t]
          /\ UNCHANGED <<registry, retained, network>>
    BY <1>3 DEF RecvUnsubscribe
  <2>2. Keeping(session[cur], o.t)
    BY <1>1, SendKeeps
  <2>3. OwnSubscriptions
    BY <2>1 DEF OwnSubscriptions, TypeOK
  <2>4. Elsewhere
    BY <2>1, <2>3 DEF Elsewhere, network
  <2>5. Place
    BY <2>1, <2>2, LoopTestPlace DEF Place, Keeping, Alike
  <2>. QED
    BY <1>1, <2>1, <2>2, <2>4, <2>5, KeepingOne
<1>. QED
  BY <1>2, <1>3

\* A PINGREQ that is answered comes from a session that is connected; only
\* then its next timer gets an entry of its own.
LEMMA PingreqRoutine ==
    ASSUME TypeOK, RecvPingreq
    PROVE  Routine
<1>. DEFINE t == session[cur]
<1>1. cur \in Slots /\ t \in Sessions
  BY AtServes DEF RecvPingreq
<1>2. PICK o \in SendOutcomes(t, [type |-> "PINGRESP", id |-> 0], Link(t)) :
        IF o.err # "NO_ERROR" \/ ~t.keepAlive THEN Return(o)
        ELSE /\ session' = [session EXCEPT ![cur] =
                              [Mark(o.t, Pinged) EXCEPT !.threadIdx = @ + 1]]
             /\ pc' = "join"
             /\ UNCHANGED <<status, cur, locals, registry, tree, network>>
  BY DEF RecvPingreq
<1>3. o.t \in Sessions /\ Keeping(t, o.t)
  BY <1>1, SendKeeps, SendOutcomesType, ZeroIsPacketID DEF OnlyFlight
<1>4. CASE o.err # "NO_ERROR" \/ ~t.keepAlive
  BY <1>1, <1>2, <1>3, <1>4, ReturnRoutine
<1>5. CASE o.err = "NO_ERROR" /\ t.keepAlive
  <2>1. t.isConnecting
    BY <1>2, <1>5, SentWhenConnected
  <2>2. Mark(o.t, Pinged) \in Sessions /\ Keeping(t, Mark(o.t, Pinged))
    BY <1>3, MarkKeeps, KeepingOn
  <2>3. Keeping(t, [Mark(o.t, Pinged) EXCEPT !.threadIdx = @ + 1])
    BY <2>1, <2>2 DEF Keeping, Alike, NoNewDup, Sessions
  <2>4. Elsewhere /\ Place
    BY <1>2, <1>5, NothingElsewhere DEF Place, tree, network
  <2>. QED
    BY <1>1, <1>2, <1>5, <2>3, <2>4, KeepingOne
<1>. QED
  BY <1>4, <1>5

\* A DISCONNECT ends the loop.
LEMMA DisconnectKind ==
    ASSUME TypeOK, RecvDisconnect
    PROVE  Disconnects
<1>. DEFINE t == [session[cur] EXCEPT !.will = NoWill]
<1>1. cur \in Slots /\ session[cur] \in Sessions
  BY AtServes DEF RecvDisconnect
<1>2. t \in Sessions /\ Keeping(session[cur], t)
  BY <1>1 DEF Sessions, Keeping, Alike, NoNewDup
<1>3. FinishDisconnect(t) /\ LoopTest(Disconnected(t), "NO_ERROR")
  BY DEF RecvDisconnect
<1>4. cur' = Nil /\ pc' = "accept"
  BY <1>2, <1>3, DisconnectedType DEF LoopTest
<1>. QED
  BY <1>1, <1>2, <1>3, <1>4 DEF Disconnects

\* Every message is handled by a step of a kind.
LEMMA ReceiveKinds ==
    ASSUME TypeOK, Receive
    PROVE  Routine \/ AConnect \/ Disconnects
<1>0. Received => cur \in Slots /\ session[cur] \in Sessions
  BY AtServes
<1>a. Keeping(session[cur], session[cur])
  BY KeepingItself
<1>1. CASE RecvInvalid
  BY <1>0, <1>1, <1>a, DoneRoutine DEF RecvInvalid
<1>2. ASSUME NEW id, ConnectCrashes(id) PROVE Routine
  BY <1>2, CrashRoutine DEF ConnectCrashes
<1>3. ASSUME NEW id, NEW cs, RejectConnect(id, cs) PROVE Routine
  BY <1>0, <1>3, <1>a, DoneRoutine DEF RejectConnect, ConnectReceived
<1>4. ASSUME NEW id \in Names \cup {Anon}, NEW cs \in BOOLEAN, NEW ka \in KeepAlives,
             NEW w \in Wills, AcceptConnect(id, cs, ka, w)
      PROVE  AConnect
  BY <1>4, BrokerAssumption DEF AConnect
<1>5. ASSUME NEW t, NEW qos, NEW retain, NEW id, RecvPublish(t, qos, retain, id)
      PROVE  Routine
  <2>1. CASE t \in BadTopics
    BY <1>0, <1>5, <1>a, <2>1, DoneRoutine DEF RecvPublish
  <2>2. CASE t \notin BadTopics
    <3>1. pc' = "route" /\ UNCHANGED <<cur, session, registry, subscribers, network>>
      BY <1>5, <2>2 DEF RecvPublish
    <3>2. Elsewhere /\ Place
      BY <3>1, NothingElsewhere DEF Place, network
    <3>. QED
      BY <3>1, <3>2, KeepingAll
  <2>. QED
    BY <2>1, <2>2
<1>6. ASSUME NEW requests, NEW id, RecvSubscribe(requests, id) PROVE Routine
  <2>1. pc' = "subscribe" /\ UNCHANGED <<cur, session, registry, tree, network>>
    BY <1>6 DEF RecvSubscribe
  <2>2. Elsewhere /\ Place
    BY <2>1, NothingElsewhere DEF Place, tree, network
  <2>. QED
    BY <2>1, <2>2, KeepingAll
<1>7. CASE DisconnectCrashes
  BY <1>7, CrashRoutine DEF DisconnectCrashes
<1>. QED
  BY <1>1, <1>2, <1>3, <1>4, <1>5, <1>6, <1>7, AckRoutine, UnsubscribeRoutine, PingreqRoutine,
     DisconnectKind DEF Receive

\* Every step is routine, or one of five others.
THEOREM StepKinds ==
    ASSUME TypeOK, TimerInv, [Next]_vars
    PROVE  Routine \/ AnAccept \/ AConnect \/ Connects \/ Disconnects \/ PeerClosed
<1>1. ASSUME NEW c \in Conns, PeerLeaves(c) PROVE Routine
  <2>1. /\ peer' = [peer EXCEPT ![c] = "gone"] /\ session' = session
        /\ UNCHANGED <<process, registry, tree, socket, tcp>>
    BY <1>1 DEF PeerLeaves
  <2>2. \A d \in Conns : peer'[d] = peer[d] \/ peer'[d] = "gone"
    BY <2>1 DEF TypeOK
  <2>3. Elsewhere /\ Place
    BY <2>1, <2>2 DEF Elsewhere, OwnSubscriptions, Place, process, tree
  <2>. QED
    BY <2>1, <2>3, KeepingAll
<1>2. CASE ReadError
  <2>1. cur \in Slots /\ Keeping(session[cur], session[cur])
    BY <1>2, AtServes, KeepingItself DEF ReadError, At, Serving
  <2>. QED
    BY <1>2, <2>1, DoneRoutine DEF ReadError
<1>3. CASE UNCHANGED vars
  <2>1. Elsewhere /\ Place
    BY <1>3, NothingElsewhere DEF Place, vars, process, tree, network
  <2>. QED
    BY <1>3, <2>1, KeepingAll DEF vars
<1>. QED
  BY <1>1, <1>2, <1>3, HandleKinds, ReceiveKinds DEF Next, AnAccept

-----------------------------------------------------------------------------
(***************************************************************************)
(* What the other steps do to the session being served, in the terms the   *)
(* invariants need.                                                        *)
(***************************************************************************)
\* A CONNECT installs t.  It takes its packets in flight from the session p
\* that it resumes (setPreviousSession) or from cur itself; neither is
\* connected.  A session that is resumed gives no identifier away.
Installs(id, cs, key, t) ==
    /\ Received /\ cur \in Slots /\ heap[cur] = "live" /\ ~session[cur].isConnecting
    /\ clients[id] # Null /\ ~IDInUse(id) /\ key = KeyOf(id, cs)
    /\ t.fd = session[cur].fd /\ ~t.isConnecting
    /\ t.threads = session[cur].threads /\ t.threadIdx = session[cur].threadIdx
    /\ t.ID = IF cs \/ ~Known(id) THEN key ELSE session[cur].ID
    /\ \E p \in Slots : ~session[p].isConnecting /\ t.packetIDMap = session[p].packetIDMap
    /\ session' = [session EXCEPT ![cur] = t]
    /\ clients' = [clients EXCEPT ![key] = cur]
    /\ stale' = stale \ {key}
    /\ pc' \in {"arm", "connack"}
    /\ UNCHANGED <<cur, heap, tree, network>>

LEMMA ConnectInstalls ==
    ASSUME TypeOK, AConnect
    PROVE  \E id \in Names \cup {Anon}, cs \in BOOLEAN, key \in IDs, t \in Sessions :
             Installs(id, cs, key, t)
<1>1. PICK id \in Names \cup {Anon}, cs \in BOOLEAN, ka \in BOOLEAN, w \in Wills :
        AcceptConnect(id, cs, ka, w)
  BY DEF AConnect
<1>. DEFINE key == KeyOf(id, cs)
            t == Installed(id, key, cs, ka, w)
<1>2. /\ ConnectReceived /\ clients[id] # Null /\ ~Refused(id, cs) /\ key \in IDs
      /\ session' = [session EXCEPT ![cur] = t]
      /\ clients' = [clients EXCEPT ![key] = cur] /\ stale' = stale \ {key}
      /\ pc' \in {"arm", "connack"} /\ UNCHANGED <<cur, heap, tree, network>>
  BY <1>1 DEF AcceptConnect
<1>3. /\ Received /\ cur \in Slots /\ heap[cur] = "live" /\ session[cur] \in Sessions
      /\ ~session[cur].isConnecting
  BY <1>2, AtServes DEF ConnectReceived
<1>4. id \in IDs
  BY DEF IDs
<1>5. ~IDInUse(id) /\ (Resumes(id) => clients[id] \in Slots)
  BY <1>2, <1>4 DEF Refused, Resumes, Known, TypeOK
<1>. HIDE DEF key
<1>6. t \in Sessions
  BY <1>2, <1>4, InstalledType
<1>7. /\ t.fd = session[cur].fd /\ ~t.isConnecting
      /\ t.threads = session[cur].threads /\ t.threadIdx = session[cur].threadIdx
      /\ t.ID = IF cs \/ ~Known(id) THEN key ELSE session[cur].ID
  BY <1>3 DEF Installed, Inherit, Sessions
<1>8. \E p \in Slots : ~session[p].isConnecting /\ t.packetIDMap = session[p].packetIDMap
  <2>1. CASE Resumes(id)
    <3>1. t.packetIDMap = session[clients[id]].packetIDMap
      BY <1>3, <2>1 DEF Installed, Inherit, Sessions
    <3>. QED
      BY <1>5, <2>1, <3>1 DEF IDInUse
  <2>2. CASE ~Resumes(id)
    <3>1. t.packetIDMap = session[cur].packetIDMap
      BY <1>3, <2>2 DEF Installed, Sessions
    <3>. QED
      BY <1>3, <3>1
  <2>. QED
    BY <2>1, <2>2
<1>9. key = KeyOf(id, cs)
  BY DEF key
<1>. HIDE DEF t
<1>. QED
  BY <1>2, <1>3, <1>5, <1>6, <1>7, <1>8, <1>9 DEF Installs

\* disconnectProcessing ends with cur as disconnectBase leaves t.
LEMMA DisconnectsFrame ==
    ASSUME NEW t \in Sessions, FinishDisconnect(t)
    PROVE  /\ session' = [session EXCEPT ![cur] = Disconnected(t)]
           /\ socket' = [socket EXCEPT ![t.fd] = Nil]
           /\ UNCHANGED <<tree, peer, tcp>>
           /\ Disconnected(t).ID = t.ID /\ Disconnected(t).fd = t.fd
           /\ ~Disconnected(t).isConnecting /\ Disconnected(t).packetIDMap = t.packetIDMap
           /\ Disconnected(t).threads = t.threads /\ Disconnected(t).threadIdx = t.threadIdx
BY DEF FinishDisconnect, Disconnected, Sessions

\* A session just made.
LEMMA FreshSession ==
    ASSUME NEW fd
    PROVE  /\ NewSession(fd).fd = fd /\ NewSession(fd).ID = Anon
           /\ ~NewSession(fd).isConnecting /\ NewSession(fd).threadIdx = 0
           /\ \A id \in PacketIDs : NewSession(fd).packetIDMap[id] = NoMessage
BY DEF NewSession, EmptyMap

\* The two invariants that StepKinds needs always hold.
LEMMA SoundAlways == Spec => [](TypeOK /\ TimerInv)
<1>1. Init => TypeOK /\ TimerInv
  BY TypeInit, TimerInit
<1>2. TypeOK /\ TimerInv /\ [Next]_vars => (TypeOK /\ TimerInv)'
  BY TypeStep, TimerStep
<1>. QED
  BY <1>1, <1>2, PTL DEF Spec
=============================================================================
