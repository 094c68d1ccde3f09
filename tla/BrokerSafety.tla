---------------------------- MODULE BrokerSafety ----------------------------
(***************************************************************************)
(* Safety of Broker, for every value of its constants: the timers, the     *)
(* packets in flight, the registry behind the topic tree, the descriptors  *)
(* that sessions write to, the client identifiers, and that the broker     *)
(* implements the registry of Registry.                                    *)
(***************************************************************************)
EXTENDS BrokerSteps, FiniteSetTheorems

-----------------------------------------------------------------------------
(***************************************************************************)
(* While a handler waits for a timer, the timer is all that runs.          *)
(***************************************************************************)
\* The timer that a PINGREQ starts never ends the session (recvPingreqMessage
\* makes its entry only after it has joined it).
THEOREM PingTimerSpares == Spec => PingTimerSparesSession
<1>1. TypeOK /\ TimerInv /\ [Next]_vars =>
        [(pc = "join" /\ session[cur].isConnecting) =>
            session'[cur].isConnecting /\ (pc' \in {"join", "pinged"})]_vars
  <2> SUFFICES ASSUME TypeOK, TimerInv, [Next]_vars, pc = "join", session[cur].isConnecting
               PROVE  session'[cur].isConnecting /\ pc' \in {"join", "pinged"}
    OBVIOUS
  <2>1. CASE UNCHANGED vars
    BY <2>1 DEF vars, process
  <2>2. CASE \E c \in Conns : PeerLeaves(c)
    BY <2>2 DEF PeerLeaves, process
  <2>3. CASE Handle
    <3>1. ~EntryIsWaiting
      BY DEF TimerInv
    <3>2. TimerFindsNothing
      BY <2>3, <3>1 DEF Handle, ArmTimer, TimerMissesEntry, TimerExpires, WillDone, Connack,
            Redeliver, RedeliveryDone, Deliver, DeliverCrashes, Delivers, RouteDone, Subscribe,
            SubscribeDone, PingDone, At
    <3>. QED
      BY <3>2 DEF TimerFindsNothing, AfterTimer
  <2>4. CASE Receive
    <3>1. ~Received
      BY DEF Received, At
    <3>. QED
      BY <2>4, <3>1 DEF Receive, RecvInvalid, ConnectCrashes, RejectConnect, AcceptConnect,
            ConnectReceived, RecvPublish, RecvPuback, RecvPubrec, RecvPubrel, RecvPubcomp,
            RecvSubscribe, RecvUnsubscribe, RecvPingreq, RecvDisconnect, DisconnectCrashes
  <2>5. ~PeerClosed /\ ~ReadError /\ \A c, s : ~Accept(c, s)
    BY DEF PeerClosed, ReadError, Accept, At
  <2>. QED
    BY <2>1, <2>2, <2>3, <2>4, <2>5 DEF Next
<1>. QED
  BY <1>1, SoundAlways, PTL DEF Spec, PingTimerSparesSession

-----------------------------------------------------------------------------
(***************************************************************************)
(* Packets in flight.                                                      *)
(***************************************************************************)
\* No step keeps a message under 0.
LEMMA NoZeroStep ==
    ASSUME TypeOK, TimerInv, NoZeroInFlight, [Next]_vars
    PROVE  NoZeroInFlight'
<1>0. \A s \in Slots : session[s].packetIDMap[0] = NoMessage
  BY DEF NoZeroInFlight, InUse
<1>. SUFFICES \A s \in Slots : session'[s].packetIDMap[0] = NoMessage
  BY DEF NoZeroInFlight, InUse
<1>1. CASE Routine
  BY <1>0, <1>1 DEF Routine, Alike
<1>2. CASE AnAccept
  <2>1. PICK s \in Slots, fd \in Fds : session' = [session EXCEPT ![s] = NewSession(fd)]
    BY <1>2 DEF AnAccept, Accept
  <2>. QED
    BY <1>0, <2>1, FreshSession, ZeroIsPacketID DEF TypeOK
<1>3. CASE AConnect
  <2>1. PICK id \in Names \cup {Anon}, cs \in BOOLEAN, key \in IDs, t \in Sessions :
          Installs(id, cs, key, t)
    BY <1>3, ConnectInstalls
  <2>. QED
    BY <1>0, <2>1 DEF Installs, TypeOK
<1>4. CASE Connects
  <2>1. PICK u : /\ Keeping([session[cur] EXCEPT !.isConnecting = TRUE], u)
                 /\ session' = [session EXCEPT ![cur] = u]
    BY <1>4 DEF Connects
  <2>2. cur \in Slots /\ session[cur] \in Sessions
    BY <1>4 DEF Connects, TypeOK
  <2>3. u.packetIDMap[0] = NoMessage
    BY <1>0, <2>1, <2>2 DEF Keeping, Alike, Sessions
  <2>. QED
    BY <1>0, <2>1, <2>3 DEF TypeOK
<1>5. CASE Disconnects
  <2>1. PICK t \in Sessions : Keeping(session[cur], t) /\ FinishDisconnect(t)
    BY <1>5 DEF Disconnects
  <2>2. t.packetIDMap[0] = NoMessage
    BY <1>0, <1>5, <2>1 DEF Disconnects, Keeping, Alike
  <2>. QED
    BY <1>0, <2>1, <2>2, DisconnectsFrame DEF TypeOK
<1>6. CASE PeerClosed
  BY <1>0, <1>6 DEF PeerClosed
<1>. QED
  BY <1>1, <1>2, <1>3, <1>4, <1>5, <1>6, StepKinds

\* No packet is kept under identifier 0 (sendMessage), not even in a session
\* that is resumed (setPreviousSession) or redelivered.
THEOREM NoZeroEver == Spec => []NoZeroInFlight
<1>1. Init => NoZeroInFlight
  BY FreshSession, ZeroIsPacketID DEF Init, NoZeroInFlight, InUse
<1>2. TypeOK /\ TimerInv /\ NoZeroInFlight /\ [Next]_vars => NoZeroInFlight'
  BY NoZeroStep
<1>. QED
  BY <1>1, <1>2, SoundAlways, PTL DEF Spec

-----------------------------------------------------------------------------
(***************************************************************************)
(* A PUBLISH marked dup.  Redelivery, which marks it, runs only on a       *)
(* session that has been marked connected; a CONNECT takes packets over    *)
(* only from sessions that are not.                                        *)
(***************************************************************************)
HasDup(t) == \E id \in PacketIDs : t.packetIDMap[id] = "DUP"

DupInv ==
    /\ DupIsLockedOut
    /\ pc = "redeliver" => session[cur].isConnecting

LEMMA DupStep ==
    ASSUME TypeOK, TimerInv, DupInv, [Next]_vars
    PROVE  DupInv'
<1>0. \A s \in Slots : HasDup(session[s]) => session[s].isConnecting /\ s # cur
  BY DEF DupInv, DupIsLockedOut, HasDup
<1>a. TypeOK'
  BY TypeStep
<1>. SUFFICES /\ \A s \in Slots : HasDup(session'[s]) =>
                                  session'[s].isConnecting /\ s # cur'
              /\ pc' = "redeliver" => session'[cur'].isConnecting
  BY DEF DupInv, DupIsLockedOut, HasDup
<1>1. CASE Routine
  <2>1. cur' \in {cur, Nil} /\ (pc' = "redeliver" => pc = "redeliver")
    BY <1>1 DEF Routine, Place
  <2>2. ASSUME NEW s \in Slots, HasDup(session'[s])
        PROVE  session'[s].isConnecting /\ s # cur'
    <3>1. session'[s].isConnecting = session[s].isConnecting /\ s # Nil
      BY <1>1, BrokerAssumption DEF Routine, Alike
    <3>2. CASE NoNewDup(session[s], session'[s])
      BY <1>0, <2>1, <2>2, <3>1, <3>2 DEF NoNewDup, HasDup
    <3>3. CASE Dropped(s)
      BY <3>1, <3>3 DEF Dropped, DupInv
    <3>. QED
      BY <1>1, <3>2, <3>3 DEF Routine
  <2>3. pc' = "redeliver" => session'[cur'].isConnecting
    <3>1. pc' = "redeliver" => cur' \in Slots /\ cur' # Nil
      BY <1>a, BrokerAssumption DEF TypeOK
    <3>. QED
      BY <1>1, <2>1, <3>1 DEF DupInv, Routine, Alike
  <2>. QED
    BY <2>2, <2>3
<1>2. CASE AnAccept
  <2>1. PICK s \in Slots, fd \in Fds :
          /\ session' = [session EXCEPT ![s] = NewSession(fd)]
          /\ pc' = "read" /\ cur' = s
    BY <1>2 DEF AnAccept, Accept
  <2>2. ~HasDup(NewSession(fd))
    BY FreshSession DEF HasDup, NoMessage
  <2>. QED
    BY <1>0, <2>1, <2>2 DEF TypeOK
<1>3. CASE AConnect
  <2>1. PICK id \in Names \cup {Anon}, cs \in BOOLEAN, key \in IDs, t \in Sessions :
          Installs(id, cs, key, t)
    BY <1>3, ConnectInstalls
  <2>2. ~HasDup(t)
    BY <1>0, <2>1 DEF Installs, HasDup
  <2>3. cur' = cur /\ pc' # "redeliver" /\ session' = [session EXCEPT ![cur] = t]
    BY <2>1 DEF Installs
  <2>. QED
    BY <1>0, <2>2, <2>3 DEF TypeOK
<1>4. CASE Connects
  <2>1. PICK u : /\ Keeping([session[cur] EXCEPT !.isConnecting = TRUE], u)
                 /\ session' = [session EXCEPT ![cur] = u]
    BY <1>4 DEF Connects
  <2>2. cur \in Slots /\ session[cur] \in Sessions /\ cur' = cur
    BY <1>4 DEF Connects, TypeOK
  <2>3. u.isConnecting /\ ~HasDup(u)
    BY <1>0, <2>1, <2>2 DEF Keeping, Alike, NoNewDup, HasDup, Sessions
  <2>. QED
    BY <1>0, <2>1, <2>2, <2>3 DEF TypeOK
<1>5. CASE Disconnects
  <2>1. PICK t \in Sessions : Keeping(session[cur], t) /\ FinishDisconnect(t)
    BY <1>5 DEF Disconnects
  <2>2. cur \in Slots /\ pc' # "redeliver"
    BY <1>5 DEF Disconnects
  <2>3. ~HasDup(Disconnected(t))
    BY <1>0, <2>1, <2>2, DisconnectsFrame DEF Keeping, NoNewDup, HasDup
  <2>4. \A s \in Slots : HasDup(session'[s]) => s # cur /\ session'[s] = session[s]
    BY <2>1, <2>3, DisconnectsFrame DEF TypeOK
  <2>5. cur' \in {cur, Nil} /\ Nil \notin Slots
    BY <1>5, BrokerAssumption DEF Disconnects
  <2>. QED
    BY <1>0, <2>2, <2>4, <2>5
<1>6. CASE PeerClosed
  <2>1. session' = session /\ cur' = Nil /\ pc' = "accept" /\ Nil \notin Slots
    BY <1>6, BrokerAssumption DEF PeerClosed, LoopTest
  <2>. QED
    BY <1>0, <2>1
<1>. QED
  BY <1>1, <1>2, <1>3, <1>4, <1>5, <1>6, StepKinds

\* A session whose PUBLISH redelivery has marked dup is dropped and stays
\* marked connected (redelivery, readLoop): no CONNECT can resume it.
THEOREM DupNeverResumed == Spec => []DupIsLockedOut
<1>1. Init => DupInv
  BY FreshSession DEF Init, DupInv, DupIsLockedOut, NoMessage
<1>2. TypeOK /\ TimerInv /\ DupInv /\ [Next]_vars => DupInv'
  BY DupStep
<1>3. DupInv => DupIsLockedOut
  BY DEF DupInv
<1>. QED
  BY <1>1, <1>2, <1>3, SoundAlways, PTL DEF Spec

-----------------------------------------------------------------------------
(***************************************************************************)
(* The registry behind the topic tree.                                     *)
(***************************************************************************)
\* A session's own key leads to a session too: it is under that key that it
\* subscribes, and that its entry is looked up to be deleted.
RegInv ==
    /\ SubscribersRegistered
    /\ \A s \in Slots : session[s].ID # Anon => clients[session[s].ID] \in Slots

\* No entry that leads to a session is lost: the deletion that makes a NULL
\* entry (operator[] in disconnectProcessing) finds none under the key of cur.
LEMMA RegistryKept ==
    ASSUME TypeOK, TimerInv, RegInv, [Next]_vars,
           NEW k \in IDs \ {Anon}, clients[k] \in Slots
    PROVE  clients'[k] \in Slots
<1>1. CASE Routine \/ AnAccept \/ Connects \/ PeerClosed
  <2>1. clients' = clients
    BY <1>1 DEF Routine, Elsewhere, AnAccept, Accept, Connects, PeerClosed, registry
  <2>. QED
    BY <2>1
<1>2. CASE AConnect
  BY <1>2, ConnectInstalls DEF Installs, TypeOK
<1>3. CASE Disconnects
  <2>1. PICK t \in Sessions : Keeping(session[cur], t) /\ FinishDisconnect(t)
    BY <1>3 DEF Disconnects
  <2>2. CASE Deletes(t) /\ clients[t.ID] \notin Slots
    <3>1. clients' = [clients EXCEPT ![t.ID] = Null]
      BY <2>1, <2>2 DEF FinishDisconnect
    <3>2. t.ID = Anon
      BY <1>3, <2>1, <2>2 DEF RegInv, Disconnects, Keeping, Alike
    <3>. QED
      BY <3>1, <3>2 DEF TypeOK
  <2>3. CASE ~(Deletes(t) /\ clients[t.ID] \notin Slots)
    BY <2>1, <2>3 DEF FinishDisconnect
  <2>. QED
    BY <2>2, <2>3
<1>. QED
  BY <1>1, <1>2, <1>3, StepKinds

\* Every step keeps the registry behind the tree.
LEMMA RegStep ==
    ASSUME TypeOK, TimerInv, RegInv, [Next]_vars
    PROVE  RegInv'
<1>0. \A k \in IDs \ {Anon} : clients[k] \in Slots => clients'[k] \in Slots
  BY RegistryKept
<1>a. \A s \in Slots : session[s].ID \in IDs
  BY DEF TypeOK, Sessions
<1>1. \A s \in Slots : session'[s].ID # Anon => clients'[session'[s].ID] \in Slots
  <2>0. ASSUME \A s \in Slots : session'[s].ID \in {session[s].ID, Anon}
        PROVE  \A s \in Slots : session'[s].ID # Anon => clients'[session'[s].ID] \in Slots
    BY <1>0, <1>a, <2>0 DEF RegInv
  <2>1. CASE Routine
    BY <2>0, <2>1 DEF Routine, Alike
  <2>2. CASE AnAccept
    <3>1. PICK s \in Slots, fd \in Fds : session' = [session EXCEPT ![s] = NewSession(fd)]
      BY <2>2 DEF AnAccept, Accept
    <3>. QED
      BY <2>0, <3>1, FreshSession DEF TypeOK
  <2>3. CASE AConnect
    <3>1. PICK id \in Names \cup {Anon}, cs \in BOOLEAN, key \in IDs, t \in Sessions :
            Installs(id, cs, key, t)
      BY <2>3, ConnectInstalls
    <3>2. clients'[key] \in Slots
      BY <3>1 DEF Installs, TypeOK
    <3>3. \A s \in Slots : session'[s].ID \in {key, session[s].ID}
      BY <3>1 DEF Installs, TypeOK
    <3>. QED
      BY <1>0, <1>a, <3>2, <3>3 DEF RegInv
  <2>4. CASE Connects
    <3>1. PICK u : /\ Keeping([session[cur] EXCEPT !.isConnecting = TRUE], u)
                   /\ session' = [session EXCEPT ![cur] = u]
      BY <2>4 DEF Connects
    <3>2. cur \in Slots /\ session[cur] \in Sessions
      BY <2>4 DEF Connects, TypeOK
    <3>3. u.ID = session[cur].ID
      BY <3>1, <3>2 DEF Keeping, Alike, Sessions
    <3>. QED
      BY <2>0, <3>1, <3>3 DEF TypeOK
  <2>5. CASE Disconnects
    <3>1. PICK t \in Sessions : Keeping(session[cur], t) /\ FinishDisconnect(t)
      BY <2>5 DEF Disconnects
    <3>2. Disconnected(t).ID = session[cur].ID
      BY <3>1, DisconnectsFrame DEF Keeping, Alike
    <3>. QED
      BY <2>0, <3>1, <3>2, DisconnectsFrame DEF TypeOK
  <2>6. CASE PeerClosed
    BY <2>0, <2>6 DEF PeerClosed
  <2>. QED
    BY <2>1, <2>2, <2>3, <2>4, <2>5, <2>6, StepKinds
<1>2. OwnSubscriptions
  <2>1. CASE Routine
    BY <2>1 DEF Routine, Elsewhere
  <2>2. CASE ~Routine
    <3>1. subscribers' = subscribers
      BY <2>2, StepKinds, ConnectInstalls, DisconnectsFrame
         DEF AnAccept, Accept, Connects, Disconnects, PeerClosed, Installs, tree
    <3>. QED
      BY <3>1 DEF OwnSubscriptions
  <2>. QED
    BY <2>1, <2>2
<1>3. SubscribersRegistered'
  BY <1>0, <1>a, <1>2 DEF RegInv, SubscribersRegistered, OwnSubscriptions
<1>. QED
  BY <1>1, <1>3 DEF RegInv

\* Every key but the empty one under which a subscriber is kept leads to a
\* session, so that recvPublishMessage follows no NULL pointer there.
THEOREM SubscribersAlwaysRegistered == Spec => []SubscribersRegistered
<1>1. Init => RegInv
  BY FreshSession DEF Init, RegInv, SubscribersRegistered
<1>2. TypeOK /\ TimerInv /\ RegInv /\ [Next]_vars => RegInv'
  BY RegStep
<1>3. RegInv => SubscribersRegistered
  BY DEF RegInv
<1>. QED
  BY <1>1, <1>2, <1>3, SoundAlways, PTL DEF Spec

-----------------------------------------------------------------------------
(***************************************************************************)
(* Connections and descriptors.                                            *)
(***************************************************************************)
\* A live session has been accepted, and no other on its connection.
ConnsUsedOnce ==
    /\ \A s \in Slots : heap[s] = "live" => tcp[s] \in Conns /\ session[s].fd \in Fds
    /\ \A s \in Slots : tcp[s] \in Conns => peer[tcp[s]] # "idle"
    /\ \A r, s \in Slots : tcp[r] \in Conns /\ tcp[r] = tcp[s] => r = s

\* What a write of s comes to.
Reaches(s) ==
    \/ socket[session[s].fd] = tcp[s]
    \/ peer[tcp[s]] = "gone"
    \/ session[s].threads[0] # Unset

\* The descriptor of the session being served has not been given to another:
\* it is closed by the session's own steps, and nothing is accepted between.
\* Before the CONNACK only the timer under index 0 can have closed it.
ServedReaches ==
    cur \in Slots =>
        /\ socket[session[cur].fd] \in {tcp[cur], Nil}
        /\ Reaches(cur)
        /\ ~session[cur].isConnecting => session[cur].threadIdx = 0
        /\ pc = "will" => session[cur].threads[0] # Unset

NetInv == ConnsUsedOnce /\ WritesToOwnPeer /\ ServedReaches

\* A session that is made gets a connection that no session has had.
LEMMA ConnsStep ==
    ASSUME TypeOK, TimerInv, ConnsUsedOnce, [Next]_vars
    PROVE  ConnsUsedOnce'
<1>0. Nil \notin Conns /\ Nil \notin Slots
  BY BrokerAssumption
<1>1. ASSUME tcp' = tcp,
             \A c \in Conns : peer'[c] = peer[c] \/ peer'[c] = "gone",
             \A s \in Slots : heap'[s] = "live" => heap[s] = "live",
             \A s \in Slots : session'[s].fd = session[s].fd
      PROVE  ConnsUsedOnce'
  BY <1>1 DEF ConnsUsedOnce
<1>2. CASE Routine
  BY <1>1, <1>2 DEF Routine, Alike, Elsewhere, registry
<1>3. CASE AnAccept
  <2>1. PICK c \in Conns, s \in Slots : Accept(c, s)
    BY <1>3 DEF AnAccept
  <2>2. PICK fd \in Fds : session' = [session EXCEPT ![s] = NewSession(fd)]
    BY <2>1 DEF Accept
  <2>3. /\ peer[c] = "idle" /\ peer'[c] = "open" /\ tcp'[s] = c
        /\ \A d \in Conns \ {c} : peer'[d] = peer[d]
        /\ \A r \in Slots \ {s} : tcp'[r] = tcp[r] /\ heap'[r] = heap[r]
                                  /\ session'[r] = session[r]
    BY <2>1, <2>2 DEF Accept, TypeOK
  <2>4. session'[s].fd = fd
    BY <2>2, FreshSession DEF TypeOK
  <2>5. \A r \in Slots : tcp[r] # c
    BY <2>3 DEF ConnsUsedOnce
  <2>. QED
    BY <2>3, <2>4, <2>5 DEF ConnsUsedOnce
<1>4. CASE AConnect
  <2>1. PICK id \in Names \cup {Anon}, cs \in BOOLEAN, key \in IDs, t \in Sessions :
          Installs(id, cs, key, t)
    BY <1>4, ConnectInstalls
  <2>2. \A s \in Slots : session'[s].fd = session[s].fd
    BY <2>1 DEF Installs, TypeOK
  <2>. QED
    BY <1>1, <2>1, <2>2 DEF Installs, network
<1>5. CASE Connects
  <2>1. PICK u : /\ Keeping([session[cur] EXCEPT !.isConnecting = TRUE], u)
                 /\ session' = [session EXCEPT ![cur] = u]
    BY <1>5 DEF Connects
  <2>2. cur \in Slots /\ session[cur] \in Sessions
    BY <1>5 DEF Connects, TypeOK
  <2>3. u.fd = session[cur].fd
    BY <2>1, <2>2 DEF Keeping, Alike, Sessions
  <2>4. \A s \in Slots : session'[s].fd = session[s].fd
    BY <2>1, <2>3 DEF TypeOK
  <2>. QED
    BY <1>1, <1>5, <2>4 DEF Connects, registry, network
<1>6. CASE Disconnects
  <2>1. PICK t \in Sessions : Keeping(session[cur], t) /\ FinishDisconnect(t)
    BY <1>6 DEF Disconnects
  <2>2. \A s \in Slots : session'[s].fd = session[s].fd
    BY <2>1, DisconnectsFrame DEF Keeping, Alike, TypeOK
  <2>3. \A s \in Slots : heap'[s] = "live" => heap[s] = "live"
    BY <2>1 DEF FinishDisconnect, TypeOK
  <2>. QED
    BY <1>1, <2>1, <2>2, <2>3, DisconnectsFrame
<1>7. CASE PeerClosed
  BY <1>1, <1>7 DEF PeerClosed, registry
<1>. QED
  BY <1>2, <1>3, <1>4, <1>5, <1>6, <1>7, StepKinds

\* Closing the descriptor of cur takes nobody else's connection away.
LEMMA CloseKeeps ==
    ASSUME TypeOK, ConnsUsedOnce, ServedReaches, cur \in Slots,
           NEW s \in Slots \ {cur}, heap[s] = "live", Reaches(s),
           socket' = [socket EXCEPT ![session[cur].fd] = Nil],
           UNCHANGED <<peer, tcp>>, session'[s] = session[s]
    PROVE  Reaches(s)'
<1>1. tcp[s] \in Conns /\ tcp[s] # tcp[cur] /\ tcp[s] # Nil /\ session[s].fd \in Fds
  BY BrokerAssumption DEF ConnsUsedOnce
<1>2. CASE session[s].fd = session[cur].fd
  BY <1>1, <1>2 DEF Reaches, ServedReaches
<1>3. CASE session[s].fd # session[cur].fd
  <2>1. socket'[session[s].fd] = socket[session[s].fd]
    BY <1>1, <1>3 DEF TypeOK
  <2>. QED
    BY <2>1 DEF Reaches
<1>. QED
  BY <1>2, <1>3

\* An accept gives out a descriptor through which no live session writes.
LEMMA NetAccept ==
    ASSUME TypeOK, NetInv, NEW c \in Conns, NEW s \in Slots, Accept(c, s)
    PROVE  (WritesToOwnPeer /\ ServedReaches)'
<1>1. PICK fd \in Fds : /\ socket[fd] = Nil /\ socket' = [socket EXCEPT ![fd] = c]
                       /\ session' = [session EXCEPT ![s] = NewSession(fd)]
  BY DEF Accept
<1>2. /\ peer[c] = "idle" /\ tcp'[s] = c /\ cur' = s /\ pc' = "read"
      /\ \A d \in Conns \ {c} : peer'[d] = peer[d]
      /\ \A r \in Slots \ {s} : tcp'[r] = tcp[r] /\ heap'[r] = heap[r]
                                /\ session'[r] = session[r]
  BY <1>1 DEF Accept, TypeOK
<1>3. /\ session'[s].fd = fd /\ socket'[fd] = c
      /\ ~session'[s].isConnecting /\ session'[s].threadIdx = 0
  BY <1>1, FreshSession DEF TypeOK
<1>4. ASSUME NEW r \in Slots, session'[r].isConnecting, heap'[r] = "live"
      PROVE  Reaches(r)'
  <2>1. r # s
    BY <1>3, <1>4
  <2>2. heap[r] = "live" /\ session[r].isConnecting /\ session'[r] = session[r]
    BY <1>2, <1>4, <2>1
  <2>3. tcp[r] \in Conns /\ tcp[r] # c /\ tcp[r] # Nil /\ session[r].fd \in Fds
    BY <1>2, <2>2, BrokerAssumption DEF NetInv, ConnsUsedOnce
  <2>4. Reaches(r)
    BY <2>2 DEF NetInv, WritesToOwnPeer, Reaches
  <2>5. session[r].fd # fd => socket'[session[r].fd] = socket[session[r].fd]
    BY <1>1, <2>3 DEF TypeOK
  <2>6. tcp'[r] = tcp[r] /\ peer'[tcp[r]] = peer[tcp[r]]
    BY <1>2, <2>1, <2>3
  <2>. QED
    BY <1>1, <2>2, <2>3, <2>4, <2>5, <2>6 DEF Reaches
<1>5. ServedReaches'
  BY <1>2, <1>3 DEF ServedReaches, Reaches
<1>. QED
  BY <1>4, <1>5 DEF WritesToOwnPeer, Reaches

\* A step that closes nothing.
LEMMA NetQuiet ==
    ASSUME TypeOK, TimerInv', NetInv, UNCHANGED <<socket, tcp, heap>>, cur' \in {cur, Nil},
           \A c \in Conns : peer'[c] = peer[c] \/ peer'[c] = "gone",
           \A s \in Slots : /\ session'[s].fd = session[s].fd
                            /\ session[s].threads[0] # Unset => session'[s].threads[0] # Unset
                            /\ ~session'[s].isConnecting =>
                                 /\ ~session[s].isConnecting
                                 /\ session'[s].threadIdx = session[s].threadIdx
                            /\ session'[s].isConnecting => session[s].isConnecting \/ s = cur,
           pc' = "will" => pc = "will" \/ EntryIsWaiting
    PROVE  (WritesToOwnPeer /\ ServedReaches)'
<1>0. Nil \notin Slots /\ Nil \notin Conns
  BY BrokerAssumption
<1>1. ASSUME NEW s \in Slots, heap[s] = "live", Reaches(s)
      PROVE  Reaches(s)'
  BY <1>1 DEF Reaches, NetInv, ConnsUsedOnce
<1>2. ASSUME NEW s \in Slots, session'[s].isConnecting, heap'[s] = "live"
      PROVE  Reaches(s)'
  <2>1. Reaches(s)
    BY <1>2 DEF NetInv, WritesToOwnPeer, ServedReaches, Reaches
  <2>. QED
    BY <1>1, <1>2, <2>1
<1>3. ASSUME cur' \in Slots
      PROVE  /\ socket'[session'[cur'].fd] \in {tcp'[cur'], Nil}
             /\ Reaches(cur)'
             /\ ~session'[cur'].isConnecting => session'[cur'].threadIdx = 0
             /\ pc' = "will" => session'[cur'].threads[0] # Unset
  <2>1. cur' = cur /\ cur \in Slots /\ heap[cur] = "live"
    BY <1>0, <1>3 DEF TypeOK
  <2>2. Reaches(cur)'
    BY <1>1, <2>1 DEF NetInv, ServedReaches, Reaches
  <2>3. ASSUME pc' = "will" PROVE session'[cur].threads[0] # Unset
    <3>1. ~session[cur].isConnecting
      BY <2>1, <2>3 DEF TimerInv
    <3>2. EntryIsWaiting => session[cur].threads[0] # Unset
      BY <2>1, <3>1 DEF EntryIsWaiting, NetInv, ServedReaches, Waiting, Unset
    <3>. QED
      BY <2>1, <2>3, <3>2 DEF NetInv, ServedReaches
  <2>. QED
    BY <2>1, <2>2, <2>3 DEF NetInv, ServedReaches
<1>. QED
  BY <1>2, <1>3 DEF WritesToOwnPeer, ServedReaches, Reaches

\* Every step keeps sessions writing to their own peers.
LEMMA NetStep ==
    ASSUME TypeOK, TimerInv, NetInv, [Next]_vars
    PROVE  NetInv'
<1>0. /\ TypeOK' /\ TimerInv' /\ ConnsUsedOnce' /\ Nil \notin Slots
      /\ \A s \in Slots : session[s].isConnecting /\ heap[s] = "live" => Reaches(s)
  BY TypeStep, TimerStep, ConnsStep, BrokerAssumption DEF NetInv, WritesToOwnPeer, Reaches
<1>. SUFFICES (WritesToOwnPeer /\ ServedReaches)'
  BY <1>0 DEF NetInv
<1>1. CASE Routine
  <2>1. UNCHANGED <<socket, tcp, heap>>
    BY <1>1 DEF Routine, Elsewhere, registry
  <2>. QED
    BY <1>0, <1>1, <2>1, NetQuiet DEF Routine, Elsewhere, Place, Alike
<1>2. CASE AnAccept
  BY <1>2, NetAccept DEF AnAccept
<1>3. CASE AConnect
  <2>1. PICK id \in Names \cup {Anon}, cs \in BOOLEAN, key \in IDs, t \in Sessions :
          Installs(id, cs, key, t)
    BY <1>3, ConnectInstalls
  <2>2. UNCHANGED <<socket, tcp, heap, peer, cur>> /\ pc' # "will"
    BY <2>1 DEF Installs, network
  <2>3. \A s \in Slots : \/ session'[s] = session[s]
                         \/ /\ session'[s].fd = session[s].fd
                            /\ session'[s].threads = session[s].threads
                            /\ session'[s].threadIdx = session[s].threadIdx
                            /\ ~session'[s].isConnecting /\ ~session[s].isConnecting
    BY <2>1 DEF Installs, TypeOK
  <2>. QED
    BY <1>0, <2>2, <2>3, NetQuiet
<1>4. CASE Connects
  <2>1. PICK u : /\ Keeping([session[cur] EXCEPT !.isConnecting = TRUE], u)
                 /\ session' = [session EXCEPT ![cur] = u]
    BY <1>4 DEF Connects
  <2>2. cur \in Slots /\ session[cur] \in Sessions /\ cur' = cur /\ pc' # "will"
        /\ UNCHANGED <<socket, tcp, heap, peer>>
    BY <1>4 DEF Connects, TypeOK, registry, network
  <2>3. /\ u.fd = session[cur].fd /\ u.isConnecting
        /\ session[cur].threads[0] # Unset => u.threads[0] # Unset
    BY <2>1, <2>2 DEF Keeping, Alike, Sessions
  <2>4. \A s \in Slots : session'[s] = session[s] \/ (s = cur /\ session'[s] = u)
    BY <2>1 DEF TypeOK
  <2>. QED
    BY <1>0, <2>2, <2>3, <2>4, NetQuiet
<1>5. CASE Disconnects
  <2>1. PICK t \in Sessions : Keeping(session[cur], t) /\ FinishDisconnect(t)
    BY <1>5 DEF Disconnects
  <2>2. /\ cur \in Slots /\ heap[cur] = "live" /\ t.fd = session[cur].fd
        /\ session[cur].threads[0] # Unset => t.threads[0] # Unset
        /\ ~session[cur].isConnecting => t.threadIdx = session[cur].threadIdx
    BY <1>0, <1>5, <2>1 DEF Disconnects, Keeping, Alike, TypeOK
  <2>3. /\ socket' = [socket EXCEPT ![session[cur].fd] = Nil] /\ UNCHANGED <<peer, tcp>>
        /\ session'[cur].fd = session[cur].fd /\ ~session'[cur].isConnecting
        /\ session'[cur].threads = t.threads /\ session'[cur].threadIdx = t.threadIdx
        /\ \A s \in Slots \ {cur} : session'[s] = session[s]
    BY <2>1, <2>2, DisconnectsFrame DEF TypeOK
  <2>4. \A s \in Slots : heap'[s] = "live" => heap[s] = "live"
    BY <2>1 DEF FinishDisconnect, TypeOK
  <2>5. ASSUME NEW s \in Slots, session'[s].isConnecting, heap'[s] = "live"
        PROVE  Reaches(s)'
    <3>1. s # cur
      BY <2>3, <2>5
    <3>. QED
      BY <1>0, <2>2, <2>3, <2>4, <2>5, <3>1, CloseKeeps DEF NetInv
  <2>6. ServedReaches'
    <3>1. CASE cur' = Nil
      BY <1>0, <3>1 DEF ServedReaches
    <3>2. CASE cur' = cur /\ pc' = "connack" /\ ~session[cur].isConnecting
               /\ (pc = "will" \/ EntryIsWaiting)
      <4>1. session[cur].threadIdx = 0 /\ session[cur].threads[0] # Unset
        BY <2>2, <3>2 DEF EntryIsWaiting, NetInv, ServedReaches, Waiting, Unset
      <4>2. socket'[session[cur].fd] = Nil
        BY <2>2, <2>3 DEF NetInv, ConnsUsedOnce, TypeOK
      <4>. QED
        BY <2>2, <2>3, <3>2, <4>1, <4>2 DEF ServedReaches, Reaches
    <3>. QED
      BY <1>5, <3>1, <3>2 DEF Disconnects
  <2>. QED
    BY <2>5, <2>6 DEF WritesToOwnPeer, Reaches
<1>6. CASE PeerClosed
  <2>1. pc = "read" /\ cur \in Slots /\ heap[cur] = "live"
    BY <1>6, AtServes DEF PeerClosed, At, Serving
  <2>2. /\ socket' = [socket EXCEPT ![session[cur].fd] = Nil] /\ session' = session
        /\ UNCHANGED <<peer, tcp, heap>> /\ cur' = Nil
    BY <1>6 DEF PeerClosed, LoopTest, registry
  <2>3. peer[tcp[cur]] = "gone"
    BY <1>6, <2>1 DEF PeerClosed, Link, NetInv, ServedReaches
  <2>4. ASSUME NEW s \in Slots, session'[s].isConnecting, heap'[s] = "live"
        PROVE  Reaches(s)'
    <3>1. CASE s = cur
      BY <2>2, <2>3, <3>1 DEF Reaches
    <3>2. CASE s # cur
      BY <1>0, <2>1, <2>2, <2>4, <3>2, CloseKeeps DEF NetInv
    <3>. QED
      BY <3>1, <3>2
  <2>. QED
    BY <1>0, <2>2, <2>4 DEF WritesToOwnPeer, ServedReaches, Reaches
<1>. QED
  BY <1>1, <1>2, <1>3, <1>4, <1>5, <1>6, StepKinds

\* A session writes to the connection it was accepted on, unless its peer
\* left or its CONNECT's timer closed the socket (transport.cc writes to the
\* descriptor, which accept() may have given to another).
THEOREM WritesReachOwnPeer == Spec => []WritesToOwnPeer
<1>1. Init => NetInv
  BY FreshSession, BrokerAssumption
     DEF Init, NetInv, ConnsUsedOnce, WritesToOwnPeer, ServedReaches
<1>2. TypeOK /\ TimerInv /\ NetInv /\ [Next]_vars => NetInv'
  BY NetStep
<1>3. NetInv => WritesToOwnPeer
  BY DEF NetInv
<1>. QED
  BY <1>1, <1>2, <1>3, SoundAlways, PTL DEF Spec

-----------------------------------------------------------------------------
(***************************************************************************)
(* Generated identifiers.  Entries are never erased from clients, so that  *)
(* its size bounds every number that has been handed out.                  *)
(***************************************************************************)
KnownIDs == {k \in IDs : Known(k)}

DummyInv ==
    /\ IsFiniteSet(KnownIDs)
    /\ \A n \in DummyIDs \ Names : Known(n) => n < NextDummyID

\* One entry more: under a chosen identifier, or the next generated one.
LEMMA OneMoreKnown ==
    ASSUME DummyInv, NEW key \in IDs, KnownIDs' = KnownIDs \cup {key},
           key \in Names \cup {Anon} \/ key = NextDummyID
    PROVE  DummyInv'
<1>1. /\ IsFiniteSet(KnownIDs') /\ Cardinality(KnownIDs) \in Nat
      /\ Cardinality(KnownIDs') = IF key \in KnownIDs THEN Cardinality(KnownIDs)
                                  ELSE Cardinality(KnownIDs) + 1
  BY FS_AddElement, FS_CardinalityType DEF DummyInv
<1>2. NextDummyID = Cardinality(KnownIDs) + 1 /\ NextDummyID' = Cardinality(KnownIDs') + 1
  BY DEF NextDummyID, KnownIDs
<1>3. ASSUME NEW n \in DummyIDs \ Names, Known(n)'
      PROVE  n < NextDummyID'
  <2>1. n \in Nat /\ n \in IDs /\ n # Anon
    BY BrokerAssumption DEF DummyIDs, IDs
  <2>2. n \in KnownIDs \/ n = key
    BY <1>3, <2>1 DEF KnownIDs
  <2>3. CASE n \in KnownIDs
    <3>1. n < NextDummyID
      BY <1>3, <2>3 DEF DummyInv, KnownIDs
    <3>. QED
      BY <1>1, <1>2, <2>1, <3>1
  <2>4. CASE n \notin KnownIDs /\ n = key
    BY <1>1, <1>2, <1>3, <2>1, <2>4
  <2>. QED
    BY <2>2, <2>3, <2>4
<1>. QED
  BY <1>1, <1>3 DEF DummyInv

\* Every step keeps the numbers bounded.
LEMMA DummyStep ==
    ASSUME TypeOK, TimerInv, RegInv, DummyInv, [Next]_vars
    PROVE  DummyInv'
<1>0. Nil \notin Slots /\ Null # Nil /\ Anon \in IDs
  BY BrokerAssumption DEF IDs
<1>1. ASSUME clients' = clients PROVE DummyInv'
  BY <1>1 DEF DummyInv, KnownIDs, Known, NextDummyID
<1>2. CASE Routine \/ AnAccept \/ Connects \/ PeerClosed
  <2>1. clients' = clients
    BY <1>2 DEF Routine, Elsewhere, AnAccept, Accept, Connects, PeerClosed, registry
  <2>. QED
    BY <1>1, <2>1
<1>3. CASE AConnect
  <2>1. PICK id \in Names \cup {Anon}, cs \in BOOLEAN, key \in IDs, t \in Sessions :
          Installs(id, cs, key, t)
    BY <1>3, ConnectInstalls
  <2>2. clients' = [clients EXCEPT ![key] = cur] /\ cur \in Slots /\ key = KeyOf(id, cs)
    BY <2>1 DEF Installs
  <2>3. KnownIDs' = KnownIDs \cup {key}
    BY <1>0, <2>2 DEF KnownIDs, Known, TypeOK
  <2>4. key \in Names \cup {Anon} \/ key = NextDummyID
    BY <2>2 DEF KeyOf
  <2>. QED
    BY <2>3, <2>4, OneMoreKnown
<1>4. CASE Disconnects
  <2>1. PICK t \in Sessions : Keeping(session[cur], t) /\ FinishDisconnect(t)
    BY <1>4 DEF Disconnects
  <2>2. CASE Deletes(t) /\ clients[t.ID] \notin Slots
    <3>1. clients' = [clients EXCEPT ![t.ID] = Null]
      BY <2>1, <2>2 DEF FinishDisconnect
    <3>2. t.ID = Anon
      BY <1>4, <2>1, <2>2 DEF RegInv, Disconnects, Keeping, Alike
    <3>3. KnownIDs' = KnownIDs \cup {Anon}
      BY <1>0, <3>1, <3>2 DEF KnownIDs, Known, TypeOK
    <3>. QED
      BY <1>0, <3>3, OneMoreKnown
  <2>3. CASE ~(Deletes(t) /\ clients[t.ID] \notin Slots)
    BY <1>1, <2>1, <2>3 DEF FinishDisconnect
  <2>. QED
    BY <2>2, <2>3
<1>. QED
  BY <1>2, <1>3, <1>4, StepKinds

\* The registry behind the tree and the bound on the numbers always hold.
LEMMA DummyAlways == Spec => [](RegInv /\ DummyInv)
<1>1. Init => RegInv /\ DummyInv
  <2>1. Init => RegInv
    BY FreshSession DEF Init, RegInv, SubscribersRegistered
  <2>2. ASSUME Init PROVE KnownIDs = {} /\ \A k \in IDs : ~Known(k)
    BY <2>2 DEF Init, KnownIDs, Known
  <2>3. DummyIDs \subseteq IDs
    BY DEF IDs
  <2>. QED
    BY <2>1, <2>2, <2>3, FS_EmptySet DEF DummyInv
<1>2. TypeOK /\ TimerInv /\ (RegInv /\ DummyInv) /\ [Next]_vars => (RegInv /\ DummyInv)'
  BY RegStep, DummyStep
<1>. QED
  BY <1>1, <1>2, SoundAlways, PTL DEF Spec

LEMMA FreshFromBound == ASSUME DummyInv PROVE DummyIDsFresh
<1>1. Cardinality(KnownIDs) \in Nat
  BY FS_CardinalityType DEF DummyInv
<1>2. NextDummyID \in Nat
  BY <1>1 DEF NextDummyID, KnownIDs
<1>. QED
  BY <1>2, BrokerAssumption DEF DummyInv, DummyIDsFresh, DummyIDs

\* The identifier that recvConnectMessage makes from the size of clients has
\* no entry yet, unless a client has chosen it.
THEOREM DummyIDsAlwaysFresh == Spec => []DummyIDsFresh
BY DummyAlways, FreshFromBound, PTL

-----------------------------------------------------------------------------
(***************************************************************************)
(* Who a key leads to.                                                     *)
(*                                                                         *)
(* A client may choose an identifier of the generated form: the broker     *)
(* does not test the one it generates against those in clients, and would  *)
(* take such an entry over.  What follows holds of clients that do not.    *)
(***************************************************************************)
ChosenAreNotGenerated == (Names \cup {Anon}) \cap Nat = {}

\* Keys lead to live sessions, each to one of its own; the empty key, under
\* which a dummy identifier is asked for, leads nowhere.
KeysLead ==
    /\ clients[Anon] \notin Slots
    /\ \A k \in IDs \ stale : clients[k] \in Slots => heap[clients[k]] = "live"
    /\ \A j, k \in IDs \ stale : clients[j] \in Slots /\ clients[j] = clients[k] => j = k

\* The key of the session being served leads to it; before its CONNECT it
\* has none, although it may lie where a deleted session lay.
ServedOwnsKey ==
    cur \in Slots =>
        /\ session[cur].ID # Anon => clients[session[cur].ID] = cur /\ session[cur].ID \notin stale
        /\ pc = "read" /\ ~session[cur].isConnecting =>
             session[cur].ID = Anon /\ \A k \in IDs \ stale : clients[k] # cur

KeyInv == KeysLead /\ ServedOwnsKey

\* What a CONNECT makes of the keys.
LEMMA KeyConnect ==
    ASSUME TypeOK, KeyInv, ChosenAreNotGenerated, IsFiniteSet(KnownIDs),
           NEW id \in Names \cup {Anon}, NEW cs \in BOOLEAN, NEW key \in IDs,
           NEW t \in Sessions, Installs(id, cs, key, t)
    PROVE  KeyInv'
<1>1. /\ pc = "read" /\ cur \in Slots /\ heap[cur] = "live" /\ ~session[cur].isConnecting
      /\ key = KeyOf(id, cs) /\ clients[id] # Null
      /\ t.ID = IF cs \/ ~Known(id) THEN key ELSE session[cur].ID
      /\ session' = [session EXCEPT ![cur] = t] /\ clients' = [clients EXCEPT ![key] = cur]
      /\ stale' = stale \ {key} /\ pc' # "read" /\ cur' = cur /\ heap' = heap
  BY DEF Installs, Received, At
<1>2. session[cur].ID = Anon /\ \A k \in IDs \ stale : clients[k] # cur
  BY <1>1 DEF KeyInv, ServedOwnsKey
<1>3. NextDummyID \in Nat
  BY FS_CardinalityType DEF NextDummyID, KnownIDs
<1>4. key # Anon
  <2>1. CASE id = Anon /\ (cs \/ ~Known(id))
    BY <1>1, <1>3, <2>1 DEF KeyOf, ChosenAreNotGenerated
  <2>2. CASE id = Anon /\ ~(cs \/ ~Known(id))
    BY <1>1, <2>2 DEF KeyInv, KeysLead, Known, TypeOK, IDs
  <2>3. CASE id # Anon
    BY <1>1, <2>3 DEF KeyOf
  <2>. QED
    BY <2>1, <2>2, <2>3
<1>5. KeysLead'
  <2>1. clients'[key] = cur /\ \A k \in IDs \ {key} : clients'[k] = clients[k]
    BY <1>1 DEF TypeOK
  <2>2. Anon \in IDs
    BY DEF IDs
  <2>. QED
    BY <1>1, <1>2, <1>4, <2>1, <2>2 DEF KeyInv, KeysLead
<1>6. ServedOwnsKey'
  BY <1>1, <1>2 DEF ServedOwnsKey, TypeOK
<1>. QED
  BY <1>5, <1>6 DEF KeyInv

\* disconnectProcessing finds cur itself under the key of cur.
LEMMA VictimIsCur ==
    ASSUME TypeOK, KeyInv, cur \in Slots, clients[session[cur].ID] \in Slots
    PROVE  clients[session[cur].ID] = cur
BY DEF KeyInv, KeysLead, ServedOwnsKey

\* What it makes of the keys: those that led to a deleted session are stale.
LEMMA KeyDisconnect ==
    ASSUME TypeOK, KeyInv, Disconnects
    PROVE  KeyInv'
<1>1. PICK t \in Sessions : Keeping(session[cur], t) /\ FinishDisconnect(t)
  BY DEF Disconnects
<1>2. /\ cur \in Slots /\ t.ID = session[cur].ID /\ t.isConnecting = session[cur].isConnecting
      /\ session' = [session EXCEPT ![cur] = Disconnected(t)] /\ Disconnected(t).ID = t.ID
  BY <1>1, DisconnectsFrame DEF Disconnects, Keeping, Alike
<1>3. CASE Deletes(t) /\ clients[t.ID] \in Slots
  <2>1. clients[t.ID] = cur
    BY <1>2, <1>3, VictimIsCur
  <2>2. /\ heap' = [heap EXCEPT ![cur] = "freed"] /\ clients' = clients
        /\ stale' = stale \cup {k \in IDs : clients[k] = cur}
    BY <1>1, <1>3, <2>1 DEF FinishDisconnect
  <2>3. KeysLead'
    BY <2>2 DEF KeyInv, KeysLead, TypeOK
  <2>4. cur' \notin Slots
    BY <1>2, <1>3, BrokerAssumption DEF Disconnects, Deletes
  <2>. QED
    BY <2>3, <2>4 DEF KeyInv, ServedOwnsKey
<1>4. CASE Deletes(t) /\ clients[t.ID] \notin Slots
  <2>1. clients' = [clients EXCEPT ![t.ID] = Null] /\ UNCHANGED <<heap, stale>>
    BY <1>1, <1>4 DEF FinishDisconnect
  <2>2. KeysLead'
    BY <2>1, BrokerAssumption DEF KeyInv, KeysLead, TypeOK
  <2>3. cur' \notin Slots
    BY <1>2, <1>4, BrokerAssumption DEF Disconnects, Deletes
  <2>. QED
    BY <2>2, <2>3 DEF KeyInv, ServedOwnsKey
<1>5. CASE ~Deletes(t)
  <2>1. UNCHANGED <<heap, clients, stale>>
    BY <1>1, <1>5 DEF FinishDisconnect
  <2>2. cur' \notin Slots \/ (cur' = cur /\ pc' = "connack")
    BY BrokerAssumption DEF Disconnects
  <2>3. session'[cur].ID = session[cur].ID
    BY <1>2 DEF TypeOK
  <2>. QED
    BY <2>1, <2>2, <2>3 DEF KeyInv, KeysLead, ServedOwnsKey
<1>. QED
  BY <1>3, <1>4, <1>5

\* Every step keeps the keys leading where they should.
LEMMA KeyStep ==
    ASSUME TypeOK, TimerInv, DummyInv, KeyInv, ChosenAreNotGenerated, [Next]_vars
    PROVE  KeyInv'
<1>0. Nil \notin Slots
  BY BrokerAssumption
<1>1. CASE Routine
  <2>1. UNCHANGED <<heap, clients, stale>> /\ cur' \in {cur, Nil}
    BY <1>1 DEF Routine, Elsewhere, Place, registry
  <2>2. pc' = "read" => pc = "read" \/ session[cur].isConnecting
    BY <1>1 DEF Routine, Place
  <2>3. \A s \in Slots : /\ session'[s].ID = session[s].ID
                         /\ session'[s].isConnecting = session[s].isConnecting
    BY <1>1 DEF Routine, Alike
  <2>. QED
    BY <1>0, <2>1, <2>2, <2>3 DEF KeyInv, KeysLead, ServedOwnsKey
<1>2. CASE AnAccept
  <2>1. PICK c \in Conns, s \in Slots : Accept(c, s)
    BY <1>2 DEF AnAccept
  <2>2. PICK fd \in Fds : session' = [session EXCEPT ![s] = NewSession(fd)]
    BY <2>1 DEF Accept
  <2>3. /\ heap[s] # "live" /\ heap' = [heap EXCEPT ![s] = "live"]
        /\ UNCHANGED <<clients, stale>> /\ cur' = s
    BY <2>1 DEF Accept
  <2>4. session'[s].ID = Anon
    BY <2>2, FreshSession DEF TypeOK
  <2>. QED
    BY <2>3, <2>4 DEF KeyInv, KeysLead, ServedOwnsKey, TypeOK
<1>3. CASE AConnect
  BY <1>3, ConnectInstalls, KeyConnect DEF DummyInv
<1>4. CASE Connects
  <2>1. PICK u : /\ Keeping([session[cur] EXCEPT !.isConnecting = TRUE], u)
                 /\ session' = [session EXCEPT ![cur] = u]
    BY <1>4 DEF Connects
  <2>2. /\ cur \in Slots /\ session[cur] \in Sessions /\ cur' = cur /\ pc' = "redeliver"
        /\ UNCHANGED <<heap, clients, stale>>
    BY <1>4 DEF Connects, TypeOK, registry
  <2>3. session'[cur].ID = session[cur].ID
    BY <2>1, <2>2 DEF Keeping, Alike, Sessions, TypeOK
  <2>. QED
    BY <2>2, <2>3 DEF KeyInv, KeysLead, ServedOwnsKey
<1>5. CASE Disconnects
  BY <1>5, KeyDisconnect
<1>6. CASE PeerClosed
  <2>1. UNCHANGED <<heap, clients, stale>> /\ cur' = Nil
    BY <1>6 DEF PeerClosed, LoopTest, registry
  <2>. QED
    BY <1>0, <2>1 DEF KeyInv, KeysLead, ServedOwnsKey
<1>. QED
  BY <1>1, <1>2, <1>3, <1>4, <1>5, <1>6, StepKinds

LEMMA KeyAlways == ASSUME ChosenAreNotGenerated PROVE Spec => []KeyInv
<1>1. Init => KeyInv
  BY BrokerAssumption DEF Init, KeyInv, KeysLead, ServedOwnsKey, IDs
<1>2. TypeOK /\ TimerInv /\ DummyInv /\ KeyInv /\ [Next]_vars => KeyInv'
  BY KeyStep
<1>. QED
  BY <1>1, <1>2, SoundAlways, DummyAlways, PTL DEF Spec

-----------------------------------------------------------------------------
(***************************************************************************)
(* Nothing but its own handlers disconnects a session.                     *)
(***************************************************************************)
\* A CONNECT takes no key from a session that is connected.
LEMMA ConnectTakesNothing ==
    ASSUME TypeOK, DummyInv, ChosenAreNotGenerated,
           NEW id \in Names \cup {Anon}, NEW cs \in BOOLEAN, NEW key \in IDs,
           NEW t \in Sessions, Installs(id, cs, key, t), clients[key] \in Slots
    PROVE  ~session[clients[key]].isConnecting
<1>1. CASE key = id
  BY <1>1 DEF Installs, IDInUse
<1>2. CASE key = NextDummyID
  <2>1. NextDummyID \in Nat /\ DummyIDsFresh
    BY FreshFromBound, FS_CardinalityType DEF DummyInv, NextDummyID, KnownIDs
  <2>2. key \in DummyIDs \ Names
    BY <1>2, <2>1 DEF ChosenAreNotGenerated, IDs
  <2>3. ~Known(key)
    BY <1>2, <2>1, <2>2 DEF DummyIDsFresh
  <2>. QED
    BY <2>3, BrokerAssumption DEF Known
<1>. QED
  BY <1>1, <1>2 DEF Installs, KeyOf

LEMMA DroppedStep ==
    ASSUME TypeOK, TimerInv, DummyInv, KeyInv, ChosenAreNotGenerated, [Next]_vars,
           NEW s \in Slots, s # cur, heap[s] = "live", session[s].isConnecting
    PROVE  /\ session'[s].isConnecting /\ heap'[s] = "live"
           /\ \A k \in IDs : clients[k] = s => clients'[k] = s
<1>1. CASE Routine
  BY <1>1 DEF Routine, Alike, Elsewhere, registry
<1>2. CASE AnAccept
  BY <1>2 DEF AnAccept, Accept, TypeOK
<1>3. CASE AConnect
  <2>1. PICK id \in Names \cup {Anon}, cs \in BOOLEAN, key \in IDs, t \in Sessions :
          Installs(id, cs, key, t)
    BY <1>3, ConnectInstalls
  <2>2. clients[key] # s
    BY <2>1, ConnectTakesNothing
  <2>. QED
    BY <2>1, <2>2 DEF Installs, TypeOK
<1>4. CASE Connects
  BY <1>4 DEF Connects, registry, TypeOK
<1>5. CASE Disconnects
  <2>1. PICK t \in Sessions : Keeping(session[cur], t) /\ FinishDisconnect(t)
    BY <1>5 DEF Disconnects
  <2>2. cur \in Slots /\ t.ID = session[cur].ID
    BY <1>5, <2>1 DEF Disconnects, Keeping, Alike
  <2>3. session'[s] = session[s]
    BY <2>1, DisconnectsFrame DEF TypeOK
  <2>4. clients[t.ID] # s
    BY <2>2, VictimIsCur
  <2>5. heap'[s] = heap[s] /\ \A k \in IDs : clients[k] = s => clients'[k] = s
    BY <2>1, <2>4 DEF FinishDisconnect, TypeOK
  <2>. QED
    BY <2>3, <2>5
<1>6. CASE PeerClosed
  BY <1>6 DEF PeerClosed, registry
<1>. QED
  BY <1>1, <1>2, <1>3, <1>4, <1>5, <1>6, StepKinds

\* A session whose loop has ended while it was marked connected (readLoop
\* ends on an error without disconnectProcessing) stays connected, allocated
\* and registered, whatever happens to the others.
THEOREM DroppedIsKept ==
    ASSUME ChosenAreNotGenerated
    PROVE  Spec => DroppedStaysConnected
<1>1. TypeOK /\ TimerInv /\ DummyInv /\ KeyInv /\ [Next]_vars =>
        [\A s \in Slots : (s # cur /\ heap[s] = "live" /\ session[s].isConnecting) =>
           /\ session'[s].isConnecting /\ heap'[s] = "live"
           /\ \A k \in IDs : clients[k] = s => clients'[k] = s]_vars
  BY DroppedStep
<1>. QED
  BY <1>1, SoundAlways, DummyAlways, KeyAlways, PTL DEF Spec, DroppedStaysConnected

-----------------------------------------------------------------------------
(***************************************************************************)
(* The registry implements that of Registry.  Each step is one of its      *)
(* steps, or changes neither the holders nor the connection being served.  *)
(***************************************************************************)
Holders == [k \in IDs |-> Holder(k)]
Served == IF cur = Nil THEN Nil ELSE tcp[cur]

\* Where keys, sessions and connections stay, holders stay.
LEMMA HoldersStay ==
    ASSUME UNCHANGED <<clients, stale, tcp>>,
           \A k \in IDs \ stale : clients[k] \in Slots =>
             session'[clients[k]].isConnecting = session[clients[k]].isConnecting
    PROVE  Holders' = Holders
BY DEF Holders, Holder

\* A connection's holder is a session that has been accepted on it.
LEMMA HeldBySession ==
    ASSUME TypeOK, ConnsUsedOnce, NEW s \in Slots, tcp[s] \in Conns,
           NEW k \in IDs, Holder(k) = tcp[s]
    PROVE  k \notin stale /\ clients[k] = s /\ session[s].isConnecting
<1>1. tcp[s] # Nil
  BY BrokerAssumption
<1>. QED
  BY <1>1 DEF Holder, ConnsUsedOnce, TypeOK

\* An accept begins to serve a connection that holds nothing.
LEMMA AcceptServes ==
    ASSUME TypeOK, ConnsUsedOnce, KeyInv, NEW c \in Conns, NEW s \in Slots, Accept(c, s)
    PROVE  Ids!Serve(c)
<1>0. c # Nil /\ Nil \notin Slots
  BY BrokerAssumption
<1>1. /\ cur = Nil /\ cur' = s /\ peer[c] = "idle" /\ heap[s] # "live"
      /\ tcp' = [tcp EXCEPT ![s] = c] /\ UNCHANGED <<clients, stale>>
      /\ \A r \in Slots \ {s} : session'[r] = session[r]
  BY DEF Accept, At, TypeOK
<1>2. \A k \in IDs \ stale : clients[k] # s
  BY <1>1 DEF KeyInv, KeysLead
<1>3. Holders' = Holders
  <2>1. ASSUME NEW k \in IDs PROVE Holder(k)' = Holder(k)
    BY <1>1, <1>2 DEF Holder, TypeOK
  <2>. QED
    BY <2>1 DEF Holders
<1>4. \A k \in IDs : Holder(k) # c
  BY <1>0, <1>1 DEF Holder, ConnsUsedOnce
<1>5. Served = Nil /\ Served' = c
  BY <1>0, <1>1 DEF Served, TypeOK
<1>. QED
  BY <1>3, <1>4, <1>5 DEF Ids!Serve, Ids!Held, Holders, Served

\* A CONNECT, as long as it is not answered, holds nothing yet.
LEMMA ConnectStutters ==
    ASSUME TypeOK, DummyInv, ChosenAreNotGenerated,
           NEW id \in Names \cup {Anon}, NEW cs \in BOOLEAN, NEW key \in IDs,
           NEW t \in Sessions, Installs(id, cs, key, t)
    PROVE  Holders' = Holders /\ Served' = Served
<1>1. /\ cur \in Slots /\ ~session[cur].isConnecting /\ ~t.isConnecting
      /\ session' = [session EXCEPT ![cur] = t] /\ clients' = [clients EXCEPT ![key] = cur]
      /\ stale' = stale \ {key} /\ UNCHANGED <<cur, tcp>>
  BY DEF Installs, network
<1>2. clients[key] \in Slots => ~session[clients[key]].isConnecting
  BY ConnectTakesNothing
<1>3. \A s \in Slots : session'[s].isConnecting <=> session[s].isConnecting
  BY <1>1 DEF TypeOK
<1>4. ASSUME NEW k \in IDs PROVE Holder(k)' = Holder(k)
  <2>1. CASE k = key
    BY <1>1, <1>2, <1>3, <2>1 DEF Holder, TypeOK
  <2>2. CASE k # key
    BY <1>1, <1>3, <2>2 DEF Holder, TypeOK
  <2>. QED
    BY <2>1, <2>2
<1>. QED
  BY <1>1, <1>4 DEF Holders, Served

\* The CONNACK claims the key that leads to the session, if one does.
LEMMA ConnectsClaims ==
    ASSUME TypeOK, TimerInv, ConnsUsedOnce, KeyInv, Connects
    PROVE  (\E k \in IDs : Ids!Claim(k)) \/ (Holders' = Holders /\ Served' = Served)
<1>1. PICK u : /\ Keeping([session[cur] EXCEPT !.isConnecting = TRUE], u)
               /\ session' = [session EXCEPT ![cur] = u]
  BY DEF Connects
<1>2. /\ cur \in Slots /\ session[cur] \in Sessions /\ ~session[cur].isConnecting /\ cur' = cur
      /\ UNCHANGED <<clients, stale, tcp>> /\ heap[cur] = "live" /\ cur # Nil
  BY BrokerAssumption DEF Connects, TypeOK, TimerInv, registry, network
<1>3. session'[cur].isConnecting /\ \A s \in Slots \ {cur} : session'[s] = session[s]
  BY <1>1, <1>2 DEF Keeping, Alike, Sessions, TypeOK
<1>4. Served' = Served /\ Served = tcp[cur] /\ tcp[cur] \in Conns /\ tcp[cur] # Nil
  BY <1>2, BrokerAssumption DEF Served, ConnsUsedOnce
<1>5. CASE \A k \in IDs \ stale : clients[k] # cur
  BY <1>2, <1>3, <1>4, <1>5, HoldersStay
<1>6. CASE \E k \in IDs \ stale : clients[k] = cur
  <2>1. PICK k \in IDs \ stale : clients[k] = cur
    BY <1>6
  <2>2. Holder(k) = Nil /\ Holder(k)' = tcp[cur]
    BY <1>2, <1>3, <2>1 DEF Holder
  <2>3. ASSUME NEW j \in IDs \ {k} PROVE Holder(j)' = Holder(j)
    <3>1. j \in stale \/ clients[j] # cur
      BY <1>2, <2>1 DEF KeyInv, KeysLead
    <3>. QED
      BY <1>2, <1>3, <3>1 DEF Holder
  <2>4. \A j \in IDs : Holder(j) # tcp[cur]
    BY <1>2, <1>4, HeldBySession
  <2>5. Holders' = [Holders EXCEPT ![k] = Served]
    BY <1>4, <2>2, <2>3 DEF Holders
  <2>6. Ids!Held(Served) = {} /\ Holders[k] = Nil /\ Served # Nil
    BY <1>4, <2>2, <2>4 DEF Ids!Held, Holders
  <2>7. Ids!Claim(k)
    BY <1>4, <2>5, <2>6 DEF Ids!Claim, Holders, Served
  <2>. QED
    BY <2>7
<1>. QED
  BY <1>5, <1>6

\* A DISCONNECT gives up what cur holds; the timer of a CONNECT, nothing.
LEMMA DisconnectsLeaves ==
    ASSUME TypeOK, ConnsUsedOnce, KeyInv, Disconnects
    PROVE  Ids!Leave \/ (Holders' = Holders /\ Served' = Served)
<1>1. PICK t \in Sessions : Keeping(session[cur], t) /\ FinishDisconnect(t)
  BY DEF Disconnects
<1>2. /\ cur \in Slots /\ heap[cur] = "live" /\ cur # Nil
      /\ t.ID = session[cur].ID /\ t.isConnecting = session[cur].isConnecting
  BY <1>1, BrokerAssumption DEF Disconnects, Keeping, Alike, TypeOK
<1>3. /\ tcp' = tcp /\ ~session'[cur].isConnecting
      /\ \A s \in Slots \ {cur} : session'[s] = session[s]
  BY <1>1, <1>2, DisconnectsFrame DEF TypeOK
<1>4. Served = tcp[cur] /\ tcp[cur] \in Conns /\ tcp[cur] # Nil
  BY <1>2, BrokerAssumption DEF Served, ConnsUsedOnce
<1>5. ASSUME NEW k \in IDs
      PROVE  /\ clients'[k] = clients[k] \/ {clients'[k], clients[k]} \cap Slots = {}
             /\ (k \in stale') = (k \in stale) \/ clients[k] = cur
  <2>1. CASE Deletes(t) /\ clients[t.ID] \in Slots
    <3>1. clients[t.ID] = cur
      BY <1>2, <2>1, VictimIsCur
    <3>2. clients' = clients /\ stale' = stale \cup {j \in IDs : clients[j] = cur}
      BY <1>1, <2>1, <3>1 DEF FinishDisconnect
    <3>. QED
      BY <3>2
  <2>2. CASE ~(Deletes(t) /\ clients[t.ID] \in Slots)
    <3>1. /\ clients' = IF Deletes(t) THEN [clients EXCEPT ![t.ID] = Null] ELSE clients
          /\ stale' = stale
      BY <1>1, <2>2 DEF FinishDisconnect
    <3>. QED
      BY <2>2, <3>1, BrokerAssumption DEF TypeOK
  <2>. QED
    BY <2>1, <2>2
<1>6. ASSUME NEW k \in IDs
      PROVE  Holder(k)' = IF Holder(k) = tcp[cur] THEN Nil ELSE Holder(k)
  <2>1. CASE clients[k] = cur
    <3>1. Holder(k) \in {tcp[cur], Nil}
      BY <2>1 DEF Holder
    <3>2. clients'[k] = cur
      BY <1>2, <1>5, <2>1
    <3>3. Holder(k)' = Nil
      BY <1>3, <3>2 DEF Holder
    <3>. QED
      BY <3>1, <3>3
  <2>2. CASE clients[k] # cur
    <3>1. Holder(k) # tcp[cur]
      BY <1>2, <1>4, <2>2, HeldBySession
    <3>2. Holder(k)' = Holder(k)
      BY <1>3, <1>5, <2>2 DEF Holder
    <3>. QED
      BY <3>1, <3>2
  <2>. QED
    BY <2>1, <2>2
<1>7. CASE cur' = Nil
  <2>1. Holders' = [k \in IDs |-> IF Holders[k] = Served THEN Nil ELSE Holders[k]]
    BY <1>4, <1>6 DEF Holders
  <2>2. Served' = Nil
    BY <1>7 DEF Served
  <2>. QED
    BY <1>4, <2>1, <2>2 DEF Ids!Leave, Holders, Served
<1>8. CASE cur' = cur /\ ~session[cur].isConnecting
  <2>1. \A k \in IDs : Holder(k) # tcp[cur]
    BY <1>2, <1>4, <1>8, HeldBySession
  <2>2. Holders' = Holders
    BY <1>6, <2>1 DEF Holders
  <2>. QED
    BY <1>3, <1>8, <2>2 DEF Served
<1>. QED
  BY <1>7, <1>8 DEF Disconnects

\* Where the loop ends in another way, the connection is dropped.
LEMMA DropOrStay ==
    ASSUME TypeOK, ConnsUsedOnce, Holders' = Holders, tcp' = tcp, cur' \in {cur, Nil}
    PROVE  Ids!Drop \/ (Holders' = Holders /\ Served' = Served)
<1>1. CASE cur' = cur
  BY <1>1 DEF Served
<1>2. CASE cur' = Nil /\ cur # Nil
  <2>1. Served # Nil
    BY <1>2, BrokerAssumption DEF Served, ConnsUsedOnce, TypeOK
  <2>2. Served' = Nil
    BY <1>2 DEF Served
  <2>. QED
    BY <2>1, <2>2 DEF Ids!Drop, Holders, Served
<1>. QED
  BY <1>1, <1>2

\* Every step is a step of Registry, or none.
LEMMA RegistryStep ==
    ASSUME TypeOK, TimerInv, ConnsUsedOnce, DummyInv, KeyInv, ChosenAreNotGenerated,
           [Next]_vars
    PROVE  Ids!Next \/ (Holders' = Holders /\ Served' = Served)
<1>1. CASE Routine
  <2>1. UNCHANGED <<clients, stale, tcp>> /\ cur' \in {cur, Nil}
    BY <1>1 DEF Routine, Elsewhere, Place, registry
  <2>2. Holders' = Holders
    BY <1>1, <2>1, HoldersStay DEF Routine, Alike
  <2>. QED
    BY <2>1, <2>2, DropOrStay DEF Ids!Next
<1>2. CASE AnAccept
  BY <1>2, AcceptServes DEF AnAccept, Ids!Next
<1>3. CASE AConnect
  BY <1>3, ConnectInstalls, ConnectStutters
<1>4. CASE Connects
  BY <1>4, ConnectsClaims DEF Ids!Next
<1>5. CASE Disconnects
  BY <1>5, DisconnectsLeaves DEF Ids!Next
<1>6. CASE PeerClosed
  <2>1. UNCHANGED <<clients, stale, tcp, session>> /\ cur' = Nil
    BY <1>6 DEF PeerClosed, LoopTest, registry
  <2>2. Holders' = Holders
    BY <2>1, HoldersStay
  <2>. QED
    BY <2>1, <2>2, DropOrStay DEF Ids!Next
<1>. QED
  BY <1>1, <1>2, <1>3, <1>4, <1>5, <1>6, StepKinds

\* Connections are never given to two live sessions.
LEMMA ConnsAlways == Spec => []ConnsUsedOnce
<1>1. Init => ConnsUsedOnce
  BY BrokerAssumption DEF Init, ConnsUsedOnce
<1>2. TypeOK /\ TimerInv /\ ConnsUsedOnce /\ [Next]_vars => ConnsUsedOnce'
  BY ConnsStep
<1>. QED
  BY <1>1, <1>2, SoundAlways, PTL DEF Spec

\* No identifier is taken over from a connection that holds it: the registry
\* of the code (recvConnectMessage, disconnectProcessing, readLoop) does what
\* Registry promises.
THEOREM RegistryHolds ==
    ASSUME ChosenAreNotGenerated
    PROVE  Spec => RegistryImplemented
<1>1. Init => Ids!Init
  BY BrokerAssumption DEF Init, Ids!Init, Holder
<1>2. TypeOK /\ TimerInv /\ ConnsUsedOnce /\ DummyInv /\ KeyInv /\ [Next]_vars =>
        [Ids!Next]_(Ids!vars)
  BY RegistryStep DEF Ids!vars, Holders, Served
<1>. QED
  BY <1>1, <1>2, SoundAlways, ConnsAlways, DummyAlways, KeyAlways, PTL
     DEF Spec, RegistryImplemented, Ids!Spec
=============================================================================
