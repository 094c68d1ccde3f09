------------------------------ MODULE Terminal ------------------------------
(***************************************************************************)
(* What both ends of an MQTT connection share (terminal.cc, terminal.h):   *)
(* the map of packets in flight, the choice of packet identifiers,         *)
(* sendMessage, ackMessage and disconnectBase, and the write(2) they end   *)
(* in (transport.cc).                                                      *)
(*                                                                         *)
(* A terminal is a record t with at least the fields isConnecting, will,   *)
(* packetIDMap and mt.  An operation that the code leaves open, because    *)
(* the kernel decides, is the set of its outcomes.                         *)
(***************************************************************************)
EXTENDS Integers

CONSTANTS
    MaxPacketID,  \* largest packet identifier; 65535 in the code (uint16_t)
    Trials,       \* draws getUsablePacketID makes before it gives up; 5 in the code
    Period,       \* length of the cycle of the pseudo-random generator mt
    Draw,         \* Draw[i]: the identifier the generator yields in state i
    NoWill        \* will == NULL

PacketIDs == 0 .. MaxPacketID
GeneratorStates == 0 .. Period - 1

ASSUME TerminalAssumption ==
    /\ MaxPacketID \in Nat
    /\ Trials \in Nat \ {0}
    /\ Period \in Nat \ {0}
    /\ Draw \in [GeneratorStates -> PacketIDs]

(***************************************************************************)
(* packetIDMap maps an identifier to the kind of the message kept under    *)
(* it.  "DUP" is a PUBLISH whose dup bit redelivery has set.               *)
(***************************************************************************)
NoMessage == "none"
Acknowledged == {"PUBREC", "PUBREL", "SUBSCRIBE", "UNSUBSCRIBE"}
Kinds == {"PUBLISH", "DUP"} \cup Acknowledged

InUse(t, id) == t.packetIDMap[id] # NoMessage

EmptyMap == [id \in PacketIDs |-> NoMessage]

-----------------------------------------------------------------------------
(***************************************************************************)
(* getUsablePacketID.  The generator is default-constructed and never      *)
(* seeded, so every terminal walks the same cycle from state 0.            *)
(***************************************************************************)
StateAfter(t, n) == (t.mt + n) % Period
Drawn(t, n) == Draw[StateAfter(t, n)]

\* The n-th draw (from 0) is the first one that is not in use.
FirstUsable(t, n) ==
    /\ ~InUse(t, Drawn(t, n))
    /\ \A i \in 0 .. n - 1 : InUse(t, Drawn(t, i))

DrawOutcomes(t) ==
    { [t   |-> [t EXCEPT !.mt = StateAfter(t, n + 1)],
       id  |-> Drawn(t, n),
       err |-> "NO_ERROR"] : n \in {i \in 0 .. Trials - 1 : FirstUsable(t, i)} }
    \cup
    { [t   |-> [t EXCEPT !.mt = StateAfter(t, Trials)],
       id  |-> MaxPacketID,
       err |-> "FAIL_TO_SET_PACKET_ID"] :
         n \in {i \in {Trials} : \A j \in 0 .. i - 1 : InUse(t, Drawn(t, j))} }

-----------------------------------------------------------------------------
(***************************************************************************)
(* write(2) on a socket that is "closed" (the descriptor is not open),     *)
(* "open", or "gone" (the peer has closed its end: the bytes are accepted  *)
(* and lost; once the peer's reset has arrived, the write fails or SIGPIPE *)
(* ends the process, which installs no handler).                           *)
(***************************************************************************)
WriteResults(link) ==
    CASE link = "closed" -> {"SEND_ERROR"}
      [] link = "open"   -> {"NO_ERROR"}
      [] link = "gone"   -> {"NO_ERROR", "SEND_ERROR", "SIGPIPE"}

\* MUTANT of Refusal: an identifier in use is not refused.
Refusal_AllowsInUse(t, m) == IF ~t.isConnecting THEN "NOT_CONNECTED" ELSE "NO_ERROR"

\* The error with which sendMessage returns before it writes anything.
Refusal(t, m) ==
    IF ~t.isConnecting THEN "NOT_CONNECTED"
    ELSE IF InUse(t, m.id) THEN "PACKET_ID_IS_USED_ALREADY"
    ELSE "NO_ERROR"

\* MUTANT of Keeps: a PUBLISH is kept under identifier 0 too.
Keeps_Zero(m) == m.type \in Kinds

\* What sendMessage does once the write has succeeded.
Keeps(m) == m.type \in Kinds /\ m.id > 0
AfterWrite(t, m) ==
    IF Keeps(m) THEN [t EXCEPT !.packetIDMap[m.id] = m.type] ELSE t
AfterWriteError(m) ==
    IF m.type \in Acknowledged /\ m.id = 0
    THEN "PACKET_ID_SHOULD_NOT_BE_ZERO" ELSE "NO_ERROR"

SendOutcomes(t, m, link) ==
    IF Refusal(t, m) # "NO_ERROR"
    THEN { [t |-> t, err |-> Refusal(t, m), wrote |-> FALSE] }
    ELSE { IF r = "NO_ERROR"
           THEN [t |-> AfterWrite(t, m), err |-> AfterWriteError(m), wrote |-> TRUE]
           ELSE [t |-> t, err |-> r, wrote |-> FALSE] : r \in WriteResults(link) }

-----------------------------------------------------------------------------
AckError(t, id) ==
    IF InUse(t, id) THEN "NO_ERROR" ELSE "PACKET_ID_DOES_NOT_EXIST"

Acked(t, id) == [t EXCEPT !.packetIDMap[id] = NoMessage]

\* MUTANT of Disconnected: the session stays marked connected.
Disconnected_StaysConnected(t) == [t EXCEPT !.will = NoWill]

\* disconnectBase, apart from closing the socket.
Disconnected(t) ==
    IF t.isConnecting THEN [t EXCEPT !.isConnecting = FALSE, !.will = NoWill] ELSE t

=============================================================================
