# MQTTcc in TLA+

A model of [MQTTcc](../src/README.md), an MQTT 3.1.1 client and broker in C++,
with the TLC runs that check it and the TLAPS proofs about it. Definitions carry
the names of the functions they model; `PROJECT.json` gives the lines.

## The system

| Component | State | Operations |
|---|---|---|
| `Broker` (`broker.cc`) | `clients`: identifier → session; `topicRoot` | `Start` (accept, read until the loop ends, accept again), `checkQoSAndPublish`, `ApplyDummyClientID` |
| `BrokerSideClient` (`broker.cc`) | `threads`, `threadIdx` (keep-alive timers), `subTopics`, and what it inherits from `Terminal` | a handler per message, `disconnectProcessing`, `setPreviousSession`, `expirationTimer` |
| `Terminal` (`terminal.cc`) | `isConnecting`, `cleanSession`, `ID`, `will`, `keepAlive`, `packetIDMap` (messages in flight), `mt` (generator of packet identifiers) | `sendMessage`, `ackMessage`, `redelivery`, `getUsablePacketID`, `disconnectBase`, `readLoop` |
| `Transport` (`transport.cc`) | `sock`, `readBuff`, `writeBuff` | `sendMessage`, `readMessage`: one write, one read per message |
| `TopicNode` (`topicTree.cc`) | children, `subscribers`, `retainMessage`, `retainQoS`, `fullPath` | `getTopicNode` (wildcards), `applyRetain`, `deleteSubscriber`, `applySubscriber` |
| frame codec (`frame.cc`, `util.cc`) | none | `getWire` and `parse` per message, `remainEncode`, `remainDecode`, `UTF8_*`, `split` |
| `Client` (`client.cc`) | `pingDulation`, `timeOfPing`, and `Terminal`'s | `connect`, `publish`, `subscribe`, `unsubscribe`, `disconnect`, `pingLoop`, a handler per message |

**Interaction.** A peer's message is read by `readLoop`, parsed and given to the
session's handler. Handlers of one session write to *other* sessions: a PUBLISH
walks the subscribers of a topic node and looks each identifier up in `clients`.
`Start` joins the thread of `readLoop`, and handlers join the timers they start,
so the broker runs one handler at a time; what makes it hard is not parallelism
but what a connection leaves behind for the next ones. Sessions are never
removed from `clients`, even when they are deleted; their descriptors are
reused; their identifiers stay taken, or are resumed with the packets in flight.

**What is hard, and what makes each part correct.**

- *Registry.* An identifier belongs to one connection at a time, is given up only
  by its holder, and every key that the topic tree refers to leads to a session.
- *Keep-alive.* A timer must never end (and delete) the session under the handler
  that waits for it, or under a later one.
- *Packets in flight.* Identifier 0 means none and must never be kept; an
  identifier in use is refused; a session resumed with packets in flight sends
  them again.
- *Writes.* A session must write to its own peer, whatever descriptors have been
  closed and given out again.
- *Progress.* A handler comes back to `read()`, since nobody else is served before.
- *Codec.* What is encoded is decoded, from a buffer that earlier messages have
  used: what a handler is given must not depend on leftovers.
- *Exchange.* Both ends draw identifiers from equally seeded generators into maps
  that do not tell the two directions, or kinds of answers, apart: an answer must
  meet its own request, and every request must get one.
- *Topic tree.* A filter finds every node it matches, in every tree that can
  arise, and gives back what it took; a publish always has a node.
- *Client.* Here threads do run in parallel: callers, the reader and the timer
  share the terminal's record and the write buffer without a lock. What the
  server has not answered must be kept, nothing may go out after `disconnect()`,
  and `connect()` must come back.

## Modules

| Module | Models |
|---|---|
| `Terminal` | operators on a terminal's record: packets in flight, drawing identifiers, `sendMessage` and its outcomes, `ackMessage`, `disconnectBase` |
| `Broker` | the broker: accept loop, all handlers, wills, timers, registry, subscribers and retained QoS, descriptors, peers |
| `Registry` | the abstract specification of the identifiers, which `Broker` implements under the mapping `Ids` |
| `MCBroker` | values of the constants for TLC |
| `BrokerProofs` | type correctness of `Broker`, with the invariant of its timers |
| `BrokerSteps` | the kinds of steps that `Broker` takes, and what each leaves alone |
| `BrokerSafety` | safety theorems about `Broker`: timers, packets in flight, subscribers, writes, identifiers, and that `Broker` implements `Registry` |
| `TopicTree`, `MCTopicTree` | `getTopicNode` with its wildcards and the broker's calls on the tree; an instance |
| `TopicTreeProofs` | types of `TopicTree`, what a walk finds, and what an UNSUBSCRIBE takes back |
| `Client`, `MCClient` | the client, its calls, threads and read loop; an instance |
| `ClientProofs` | type correctness and safety theorems about `Client` |
| `Frame` | the messages of `frame.cc` and the string codec: constructors, `getWire`, `parse`, on bytes |
| `FrameProofs` | strings, lengths, headers and every message of `Frame` are read back |
| `Link`, `MCLink` | a client and its session over the two streams of a connection, every message written and read through `Frame`; an instance |
| `LinkProofs` | types of `Link`, that what is read is what was sent, and that answers meet their requests |
| `RemainingLength`, `MCRemainingLength`, `RemainingLengthProofs` | `remainEncode`/`remainDecode`, their instance, their proofs |

### How Broker corresponds to the code

`pc` is the place of the one thread that runs: `accept` in `Start`, `read` in
`readMessage`, and within a handler: `arm`/`join` (a timer is started / joined),
`will` (the loop of `disconnectProcessing`), `connack`, `redeliver`, `route`
(the loop of `recvPublishMessage`), `subscribe`, `pinged`. `cur` is the
`BrokerSideClient` served, `todo` what its loop has left, `pub` the message it
forwards or answers. `session[s]` is the object at address `s`; `heap[s]` says
whether it has been deleted (`delete` leaves the memory as it is; a later use
either finds it so or ends the process). `socket[fd]` is the connection behind a
descriptor. `tcp` and `stale` are history variables for the properties: the
connection a session was accepted on, and the keys that lead to deleted objects.

| Code | Actions |
|---|---|
| `Start` | `Accept` |
| `readMessage`, end of `readLoop` | `PeerClosed`, `ReadError`, `LoopTest` (used by every handler's return), `RecvInvalid` |
| `recvConnectMessage` | `ConnectCrashes`, `RejectConnect`, `AcceptConnect`, then `ArmTimer`…, `Connack`, `Redeliver`, `RedeliveryDone` |
| `expirationTimer`, `disconnectProcessing` | `TimerMissesEntry`, `TimerFindsNothing`, `TimerExpires`, `Deliver`, `WillDone`, `FinishDisconnect`, `RecvDisconnect`, `DisconnectCrashes` |
| `recvPublishMessage` | `RecvPublish`, `Deliver`, `DeliverCrashes`, `RouteDone` |
| `recvPuback…recvPubcompMessage` | `RecvPuback`, `RecvPubrec`, `RecvPubrel`, `RecvPubcomp` |
| `recvSubscribeMessage`, `recvUnsubscribeMessage` | `RecvSubscribe`, `Subscribe`, `SubscribeDone`, `RecvUnsubscribe` |
| `recvPingreqMessage` | `RecvPingreq`, the timer's actions, `PingDone` |

### How TopicTree corresponds to the code

A node is its path, the tree a set of paths; a topic is the sequence of parts that
`split` yields, and numbers give the names `std::map`'s order. `Walk` is the loop
of `getTopicNode`: it takes `WalkPart` of one part after the other, which has one
operator for each branch: `WalkName`, `WalkPlus` (which calls `getTopicNode` from
the root), `WalkNumberSign`. Loops and calls that nest are recursive functions,
which can be proved about: a loop of its turns, a call of how deep it may nest.
`again`, an argument of `WalkPlus`, is the function one level further in.
`GetTopicNode` allows as many levels as the topic has parts, and one: each call
that nests has a "+" less. `NodesByNumberSign` allows as many as the tree has
nodes: each call is of a longer path. That neither limit is met is part of the
proofs, since at the limit nothing would be found. The
actions are the broker's: `Subscribe` (with the retained message whose delivery
may fail in the middle), `Unsubscribe` (`deleteSubscriber`), `Publish`,
`PublishRetained` and `PublishWill` (`applyRetain`, then the walk again). What the
walk does that a reader may not expect:

- "a/#" finds the root and everything below it, not what is below "a".
- "$SYS/#" finds nothing under `$SYS`: "#" is resolved from the root, where it
  passes over names with "$" (`topicTree.cc:23`, `:61`). `FindsEveryMatch` states
  this as its one exception (`BelowDollar`).
- "a/+/b" also creates and finds "a/b".
- A name that is missing is passed over in an UNSUBSCRIBE: "a/b" finds "b", or a
  node of the same name under a shorter path, when there is no "a".
- A filter with wildcards finds the nodes there are: a topic that comes later
  reaches none of its subscribers.
- A topic with wildcards is accepted in a PUBLISH.

### How Client corresponds to the code

`op[th]` is where thread `th` is: in `sendMessage`, `check` (the test of
`isConnecting`), `lookup` (of the identifier), `load` (of `this->ct`), `fill`
(`getWire`), `write`, `store` (the entry in `packetIDMap`); in `disconnect()`,
then `leave` (`disconnectProcessing` clears `isConnecting`), `unmark`
(`disconnectBase` tests it again), `take` (loads `ct`) and `close`. Between any two
of these every other thread may run. `reader` is the thread of `connect()`: `dial`
(the transport is made, not connected), `connect`, `greet` (the CONNECT is being
written), `read` (about to call `read`), `blocked` (in it), `handle`, `redeliver`,
and `ping`/`pinging` while it is joined to `pingLoop`'s thread. `unanswered` is
what the server has been sent and may answer.

`conn` is the transport that `ct` points to; `sock[c]` is the descriptor number that
transport `c` was given, which it keeps when the descriptor is closed; `file[n]` is
the connection that number `n` is open on, `peer` the other end. A thread that has
loaded an old transport writes to whatever its number is open on by then, which may
be the new connection, or a socket not yet connected, where the write raises SIGPIPE.

`races` records the three races that a property depends on: `identifier` (two
threads pass the lookup with one identifier), `buffer` (one fills a transport's
buffer before the other has written it) and `connack` (a CONNACK is handled between
`leave` and `unmark`). `RequestsAreKept` and `WillOutlivesDisconnect` promise nothing
after the ones they name, and hold under every other interleaving.

| Code | Actions |
|---|---|
| `connect`, `readLoop`, `readMessage` | `Connect`, `Dial`, `SendConnect`, `EnterRead`, `PeerClosed`, `RecvInvalid` |
| `publish`, `subscribe`, `unsubscribe`, `ping` | `Publish`, `Subscribe`, `Unsubscribe`, `Ping` |
| `disconnect`, `disconnectProcessing`, `disconnectBase` | `Disconnect`, `Leave`, `Unmark`, `Take`, `Close` |
| `sendMessage` | `Check`, `Lookup`, `Load`, `Fill`, `Write`, `Store` |
| `recv…Message` | `RecvConnack`, `RecvPublish`, `RecvPuback`, `RecvPubrec`, `RecvPubrel`, `RecvAck`, `RecvPingresp` |
| `pingLoop`, `redelivery` | `SendPing`, `PingEnds`, `Redelivery` |

Calls that return an error without touching anything (a QoS of 3, no identifier
without a clean session) are guards. Single accesses to a member or to the map
are taken as atomic; what a torn access to `std::map` may do is left out. A test of
`isConnecting` and the assignment under it, in `leave` and `unmark`, are one step: a
CONNACK between the two has the effect of one before or after both.

### How Frame and Link correspond to the code

A message is a record: the fields of `FixedHeader`, and a body with those of its
class. The constructors (`ConnectMessage`, `SubscribeMessage`, …) compute the
length that the header announces, `Wire` is `getWire` (`HeaderWire`, then `BodyWire` with one
operator per class), `Parse` is what `readLoop` does up to the call of the
handler: `parseHeader` (`HeaderError`, `ParseHeader`), then the `parse` of the
class (`ParseBody`). Bytes are
numbers, strings sequences of bytes, flags sums of powers of two. A length is given
by its digits (`Digits`, `RemainEncode`; `RemainingLength` has the loops), and
strings in a row by where each starts (`Iterate`). `parse` is
given no length of what was received; it reads on in `readBuff`, which holds what
earlier, longer messages have left, and then the zeros of its constructor. `Unset`
is a field that neither the constructor nor `parse` sets; `Link` takes any
identifier for one (`Given`), and ends the process where it is followed as a
pointer. Errors in a body are overwritten by what the handler returns, so that
only what has been parsed until then matters.

`Link` joins the two ends: `Read(e, k)` lays the bytes of the first `k` messages
of a stream over `buff[e]`, `ReadLoop` parses one message of them, whatever has
come with it, and the handler's outcome (`Handles`) is a terminal, an error and
the messages written, which are appended to the other stream. Handlers and calls
are atomic there; a handler that sends twice is a sequence of outcomes, each with
the error of its last step.

| Code | Definitions |
|---|---|
| `getWire`, `UTF8_encode`, `remainEncode` | `Wire`, `HeaderWire`, `BodyWire`, `ConnectWire`, …, `UTF8_encode`, `RemainEncode` |
| `parseHeader`, `parse`, `UTF8_decode`, `remainDecode` | `Parse`, `HeaderError`, `ParseHeader`, `ParseBody`, `ParseConnect`, …, `UTF8_decode`, `RemainDecode` |
| `readMessage`, `readLoop` | `Read`, `ReadLoop`, `Handle` |
| `BrokerSideClient::recv…Message` | `BrokerHandles`, `RecvConnect`, `RecvPublish`, `RecvSubscribe`, `RecvUnsubscribe`, `Exchange` |
| `Client::recv…Message` | `ClientHandles`, `Exchange`, `Acknowledge` |
| `Client`'s calls | `Connect`, `Subscribe`, `Unsubscribe`, `Publish`, `Ping` |

What the codec does that a reader may not expect:

- A PUBLISH's topic does not reach the wire: it is overwritten by the identifier
  and the payload, which the reader takes for the length of a topic.
- A SUBSCRIBE announces two bytes too few for each of its topics, so that its
  parser may stop before the last; the SUBACK has a code for each that arrived.
- `UnsubscribeMessage::parse` reads as many topics as the length has bytes, on into
  the leftovers: it may unsubscribe a topic that an earlier message named.
- A CONNACK without a session is one byte short. What is read as the return code
  is a leftover; it is right because the CONNACK is the first message its reader
  gets, in a buffer of zeros, which is part of what `ReadAsSent` checks.
- A message of length 0 has no length on the wire; its reader takes a leftover,
  which ends a length as long as every read has returned one message. After one
  that has returned several, a PINGREQ, PINGRESP or DISCONNECT may be refused.
- A `PINGRESP` that a client without a keep-alive receives ends its loop.
- The retained PUBLISH sent while a SUBSCRIBE is handled may have the SUBSCRIBE's
  identifier, as both generators start alike: the SUBACK is then refused.
- A CONNECT without a user ends the broker, and so may the DISCONNECT of a clean
  session, which `disconnectProcessing` deletes and then uses (`RecvDisconnect`).

Left out of `Link`: keep-alives (their loops are in `Broker` and `Client`), an
earlier session of the same name, a second client, `disconnect()` (in `Client`), a
peer that leaves, PUBLISHes with the retain flag, wildcards, topics of several
parts, and messages longer than the two buffers of 64 KiB. The session's own
subscriptions are its `subTopics`.

### Facts

Facts of the code that the models rest on, and that a reader may not expect:

- `PublishMessage::parse` sets the payload and the packet identifier only if the
  topic has both "#" and "+" (`frame.cc:287`). Of any other PUBLISH the payload is
  empty and the identifier arbitrary, so that only a will, or a topic with both
  wildcards, can leave a retained message (`PublishRetained` in `TopicTree`).
- A CONNECT without a will or without a user ends the process in `getString`.
- A refusing CONNACK is never written, as the session is not yet connected.
- `setPreviousSession` does not copy the identifier: a resumed session has none.
- `redelivery` passes messages to `sendMessage`, which refuses identifiers that
  are in flight: it fails at the first message, and drops the connection.
- `PEER_CLOSED` leaves `isConnecting` true.

**Abstractions.** Topics and identifiers are model values; a topic or filter
names one node (`BadTopics` are those `getTopicNode` refuses; wildcards are left
to `TopicTree`; what becomes of topics on the wire to `Frame`). Payloads are left out; a will's message is not empty.
`Draw` and `Period` stand for the cycle of `mt`. The topics of one SUBSCRIBE are
taken in any order and ask for one QoS. `subTopics` is left out: nothing reads
it. One `read()` returns one message, except in `Link`. A CONNECT with a wrong protocol has the
outcome of `RecvInvalid`.

**Assumed of the environment.** A client sends one CONNECT per connection
(`ConnectReceived`); everything else may come at any time, before the CONNECT
too. Wherever identifiers are promised anything, client-chosen names are not of
the form of the generated ones (the instances have `Names` and `DummyIDs`
disjoint).

## Runs

Every run takes less than three minutes with two workers.

| Run | Bounds | Shows |
|---|---|---|
| `broker_registry` | 3 connections, 3 sessions, 1 name, 3 dummy identifiers, 1 topic, QoS 0 | `SubscribersRegistered`, `DummyIDsFresh`, `DroppedStaysConnected`; `Broker` implements `Registry` |
| `broker_keepalive` | 2 connections, 2 sessions, with and without keep-alive, 2 PINGREQs, a good and a refused topic, wills on both | `TypeOK`, `WritesToOwnPeer`, `PingTimerSparesSession` |
| `broker_inflight` | 2 connections, 2 sessions, QoS 0–2, packet identifiers 0 and 1, a cycle of 3 draws, 2 trials | `NoZeroInFlight`, `DupIsLockedOut` |
| `broker_liveness` | 2 connections, 2 sessions, keep-alive, QoS 0–1, no symmetry | `HandlersReturn` |
| `length_roundtrip` | lengths on both sides of every change in the number of bytes, to 2^31 − 1; three leftover bytes | `RoundTrip`, `TooLongIsMalformed`, `SumFits` |
| `length_zero` | the same | *violated*: `ZeroTakesOneByte` |
| `topic_tree` | 3 names, one with "$"; 8 filters with wildcards first, last, twice, inside, adjacent, and "#" after the name with "$"; wills on one topic; every order of requests (the tree is finite, as a filter adds no node deeper than itself) | `TypeOK`, `FindsEveryMatch`, `FindsNothingElse`, `NothingLeft`, `OutlivesPublish` |
| `client_calls` | 2 connections, 1 call by one thread besides the reader, 1 PUBLISH received, QoS 0–2, identifiers 0–2, no keep-alive, no clean session | `TypeOK`, `RequestsAreKept`, `LeavingEndsConnect` |
| `client_overlap` | 2 connections and descriptors, 2 threads besides the reader, 2 calls, QoS 1, identifiers 0–1, with and without keep-alive | `RequestsAreKept`, `WillOutlivesDisconnect`, `SilentAfterDisconnect`, `DeafWithKeepAlive` |
| `client_disconnect` | 1 connection, 1 call | *violated*: `DisconnectStopsReadLoop` |
| `client_filters` | 1 connection, 1 call, the filter "a/#/b" | *violated*: `SubscribesToTails` |
| `link_exchange` | one connection, a CONNECT of 4, with and without user, name, password and clean session, 3 calls in any order (3 lists of topics to subscribe, 2 to unsubscribe, a PUBLISH of each QoS, PINGREQ), one retained message, identifiers 0–2, reads of up to 2 messages | `TypeOK`, `ReadAsSent`, `AnswersMeetRequests`, `RequestsAnswered` |

Why the bounds are enough. What one connection does to another goes through an
object, a key, a descriptor or a packet identifier, and each of these has, in the
run that is about it, enough instances to be left, taken again and contended for:
three connections let one take an identifier, one be refused it, resume it, or
be given the address of a deleted object, and one act on the result. With two
packet identifiers and a cycle of three draws, every outcome of
`getUsablePacketID` occurs, and so does the draw of 0. Three names
let a part of a filter meet a child that it names, another, and one with "$", and
the eight filters have each kind of part first, inside and last where the code tells
these apart. In the client one
call and the reader's replies to one PUBLISH suffice for two messages to meet in
the map or in the buffer, and a reconnect for either to be left over from an earlier
transport; in `client_overlap` a second thread makes the two that disconnect and
send, or disconnect twice, while the reader connects again on a descriptor with a
used number. In `Link` the third call meets a
buffer that two others have been read into, and a map in which both ends have
drawn; the lists of topics are one short enough to be cut off, one not, and
topics of one and two bytes, which the leftovers of each other complete. Deadlock is not checked in
the broker's runs, because a process that has died, or has served all its
connections, stops; nor in those of the codec, which ends, of the tree, where a
crash ends, and of the client and the link, whose calls are bounded.

`client_overlap` has a `VIEW`, which leaves out of a state what is in a transport's
buffer while no thread is about to write it: it is overwritten before it is read.

**Symmetry.** In the broker's safety runs slots and connections are
interchangeable: nothing orders them. The liveness runs, and those of the client
and the tree, do without.

**Fairness.** `FairSpec` is weakly fair to the broker's steps *within* a handler:
a thread that runs keeps running, timers end because `usleep` returns, and a
write returns because the peer reads. It assumes nothing of peers: a message may
never come and a connection may stay open for ever, in which case the broker
serves nobody else; `HandlersReturn` says nothing of that. `Client`'s `FairSpec`
is weakly fair to every thread of the client, reader and timer included, and
neither to the application's calls nor to the server (`client_calls`,
`client_disconnect`). `Link`'s is weakly fair to
both read loops: TCP delivers what has been written, and a thread in `read()`
runs when it does. It is written out (`FairReads`), since TLC is slow to evaluate
ENABLED of a read; `CanRead` is its guard. With it, `RequestsAnswered` says that
each SUBSCRIBE and UNSUBSCRIBE is answered, under exceptions that it names: two
messages in one read, of which the second is lost; a PINGREQ, whose answer ends
the client's loop; a PUBLISH of either end, whose identifiers may collide.

**Findings.** `remainEncode` writes nothing for the length 0, against the table
in `MQTT_test.cc:24`; the test compares as many bytes as were written and so
passes. PINGREQ, PINGRESP and DISCONNECT therefore go out as a single byte
(`length_zero`). `disconnectProcessing` sets `isConnecting` to false, which "makes
readLoop stop" (`client.cc:48`): the reader is in `read()` and stays there
(`client_disconnect`). `subscribe()` counts its inner loop with the outer index
and sends filters with "#" inside, which it has an error for (`client_filters`: the
client connects, and the SUBSCRIBE for "a/#/b" is written).

## Proofs

`tlapm` checks every proof. Besides the assumptions on the constants
(`TerminalAssumption`, `BrokerAssumption`, `ClientAssumption`, `LengthsAssumption`,
`LinkAssumption`, `LengthAssumption`, `TopicTreeAssumption`), which TLC evaluates
in the runs, some theorems have a hypothesis of their own, given below with its
reason. The theorems hold for any number of sessions, connections, threads, calls,
identifiers, topics and packet identifiers, any cycle of the generator, any bytes,
and any names, filters and trees.

### Broker

*Type correctness* (`BrokerProofs`, `TypeCorrect`). `TypeOK` says more than types:
while a handler runs, its session is live, although `FinishDisconnect` deletes the
session that `clients[ID]` leads to, which as a rule is the one being served. It
is not inductive: were a timer to find its entry while the session is connected,
the session would be deleted under the handler that waits. `TimerInv` excludes
that: no entry of `threads` lies above `threadIdx`, a session is not connected
before its CONNACK, and a timer joined later finds nothing. `TypeOK /\ TimerInv`
is inductive; the proof has a lemma for each way a handler ends (`Return`, `Done`,
`Reply`, `FinishDisconnect`) and one for each action.

*Kinds of steps* (`BrokerSteps`, `StepKinds`). `Broker` has some thirty actions, of
which few do anything to the registry, the descriptors or a session's fate. From
the invariant above, every step is one of: routine (the session served, the
tree and its own subscriptions change in ways that `Routine` lists), an accepted
connection, an accepted CONNECT (of which `Installs` says what it leaves in the
registry, whether the session is fresh or resumed), the CONNACK that connects the
session, the end of a session in `disconnectProcessing`, or the read that finds
the peer gone and closes the descriptor (`PeerClosed`). The theorems below have one
step for each kind instead of one for each action.

*Timers* (`BrokerSafety`, `PingTimerSpares`). A step taken while a connected session
waits for its timer leaves it connected.

*Packets in flight* (`NoZeroEver`, `DupNeverResumed`). Whatever a session keeps
under 0 after a step it kept before, or it inherits it with the map of an earlier
session, or its map is empty. A DUP comes from `redelivery` only, which then fails
in a session that is connected (`DupInv` adds that to `DupIsLockedOut`), so that it
is dropped; a CONNECT that resumes a session copies the map of one that is not
connected.

*Registry and tree* (`SubscribersAlwaysRegistered`). `SubscribersRegistered` needs
that a session that has an identifier has an entry for it, since it subscribes
under it: `RegInv`. It is preserved since no step removes an entry.

*Descriptors* (`WritesReachOwnPeer`). A session writes to its own peer, however
descriptors are closed and given out again, with two exceptions that
`WritesToOwnPeer` names: its peer has left, or the timer of its CONNECT has closed
the socket. In both the write may go to another connection, or nowhere. The rest
needs `NetInv`: a connection is behind
one descriptor and belongs to one session (`ConnsUsedOnce`), and the session being
served reaches the connection it was accepted on (`ServedReaches`).

*Generated identifiers* (`DummyIDsAlwaysFresh`). An identifier
is made from the size of `clients`; that it has no entry, unless a client has chosen
it, follows from the cardinality of the keys (`DummyInv`): the generated keys are
numbers below it.

*Dropped sessions and the refinement* (`DroppedIsKept`, `RegistryHolds`). A session
whose loop has ended while it was connected stays so, and `Broker` implements
`Registry` under `Ids`: every step is a step of `Registry` or leaves `Ids` alone.
Both need that the session which `FinishDisconnect` finds under `clients[ID]` is the
one that ends: `KeyInv`, by which the key of a live session leads to it or to none
(`KeysLead`) and the session served owns its own (`ServedOwnsKey`). They assume
`ChosenAreNotGenerated`: no client chooses an identifier of the generated form. The
code compares a generated identifier with none that clients have chosen, so that
without it a connection takes over another's entry and both are false.

### Client

`ClientProofs` first reduces the steps of the thread of `connect()` between its
sends, a dozen actions and handlers, to one relation `Listens` (`ClientSteps`), as
`BrokerSteps` does for the broker.

*Type correctness* (`ClientTypes`). That a thread fills and writes only on a
transport that has been made needs that the session is connected only after
`connect()` has made one, and that `readLoop` runs on one; that a descriptor is open
on the connection of a transport that has its number, that `connect()` is given a
number which no open one has: `TypeInv`.

*After disconnect* (`NothingAfterDisconnect`). Once the socket of the present
transport has been closed, no descriptor is open on its connection, under any
number, until `connect()` makes another (`SilentInv`); and what is written arrives
on the connection that the writer's descriptor is open on by then (`NewRequests`).

*Keep-alive* (`DeafAlways`). A request may well reach the new connection from a
thread that passed the tests on the old one. What makes the client deaf is its
reader: from the CONNACK of a connection on it is in `pingLoop`, or back from it with
the session disconnected, after which the loop ends (`DeafInv`).

*The will* (`WillIsKept`). As long as no CONNACK has been handled between the two
halves of `disconnectProcessing`, a thread there finds the session marked
disconnected, and leaves the will (`WillInv`).

*Packets in flight* (`RequestsKept`). As long as no two threads have passed the
lookup with one identifier and none has overwritten another's message (`NoClash`),
`Kept` is inductive: a thread past the lookup has its identifier to itself, in the
map, among the requests and among the other threads (`Owns`), and what it writes is
what it put into the buffer; so requests that are kept differ in their identifiers
(`Distinct`), and an answer deletes its own request's entry only. Nothing else about
the interleaving is assumed; each of the two races does break it.

### Codecs

*Remaining length* (`RemainingLengthProofs`). `SumFitsAlways`: whatever bytes are
read, the weight is a power of 128 and the sum is below it (`DecoderInv`). A byte is
read only while its weight is at most 2^21, so that the sum stays below 2^28, and the
next weight is at most 2^28: both fit in 32 bits.
`EveryLengthReadBack` and `LongerIsRefused`: `RoundTrip` for each of
the 2^28 − 1 lengths and `TooLongIsMalformed` for every longer one, whatever their
number of bytes. `DigitsInv`
says that the byte at a place is the lowest digit of what the encoder had left
there (`Rest`), `ReadInv` that the decoder's sum and `Rest` at its weight make up the
length. Five places are enough, as the decoder reads four bytes.

*Strings and lengths* (`FrameProofs`, `NumberReadBack`, `StringReadBack`,
`LengthReadBack`). The two bytes of a number below 2^16 are read back as that
number, a string of fewer than 2^16 bytes as that string, with the next field found
behind it, and a length from 1 to 2^28 − 1 as that length, wherever in the buffer
they are and whatever earlier messages have left around them. `Holds(b, i, s)` says
that a buffer has the bytes `s` from `i` on; what is concatenated on the wire is then
held one part behind the other, so that a message is taken apart field by field.

*Messages* (`HeaderReadBack`, `MessageReadBack`). Every message of every class,
whatever follows it in the buffer, is given to its handler as `Faithful` says. A
list of strings or topics is read one by one (`Iterate`), which takes an induction
over the list. The library's induction theorems cannot be instantiated, but the
least number that a set of naturals holds (`LeastNumber`, `Induction`) does as well.
Two messages are not read back unconditionally. One without a length may be refused,
but is not taken for another. A CONNACK without a session, being one byte short, is
read well if the byte behind it is 0: the theorem has that as a hypothesis,
and `Link` shows that it is met.

### Link

*The invariant* (`LinkProofs`, `Inv`). `TypeOK` is not inductive, and `ReadAsSent`
says nothing of what will be in the buffers later. `Inv` is the conjunction of

- `Typed`: the types of the terminals, streams and buffers. What is under way is a
  message that a constructor has made (`IsMessage`), which gives `MessageReadBack`
  its hypothesis; a filter has no wildcards; nothing is kept under identifier 0.
- `Written`: what is under way has been written, so that the history `wrote` speaks
  of the streams.
- `Legible`: as long as every read has returned one message, a length ends
  among the bytes that follow a buffer's first. Each read leaves it so, since a
  message that has a length lays one there and one that has none leaves the bytes
  as they were. PINGREQ, PINGRESP and DISCONNECT are therefore read until a read
  returns several.
- `Handshake`: CONNECT and then CONNACK are alone on their way, over buffers nobody
  has read into. The CONNACK therefore meets zeros.
- `Matching`: as long as the broker acknowledges no PUBLISH, for every identifier
  that the client's map keeps a request under, the request or its answer is under way
  at most once, and nothing else is under way that would delete the entry.

`InvConnect`, `InvCall` and `InvReads` are the steps; a handler's outcomes are
reduced to a few facts each (`Took…`), as `BrokerSteps` does for the broker.

*Types and what is read* (`LinkTyped`, `LinkReadAsSent`). Both follow from `Inv` and
`MessageReadBack`, for any strings, lists, calls and identifiers, any number of
messages in one read, and whatever order the ends run in.

*Answers* (`LinkAnswers`). An entry that changes is deleted by `ackMessage`, in the
handler of the first message under way to the client; by `Matching` only the
answer to it can have its identifier.

`LinkAssumption` gives the constants their types: strings shorter than 2^16 bytes,
QoS up to 2, and topics to subscribe and unsubscribe without wildcards, which `Link`
does not model (nor, with them, `unsubscribe`'s refusal).
`LengthAssumption` excludes messages longer than four digits can say, which
`LongerIsRefused` is about.

### TopicTree

`TopicTreeProofs` follows the walk from the inside out, in trees and topics of any
size. A loop, and a call that nests, is what its equations say (`LoopRuns`); what
holds of every turn or level is proved with `UpTo`, an induction over numbers below
a bound.

- *What "#" finds* (`NumberSignFinds`): the nodes below that are reached without a
  "$" name. A path has fewer names than its tree has nodes (`PathsAreShort`).
- *What a part does* (`NameStep`, `VisitStep`, `PlusSteps`, `PartStep`): a walk
  adds paths of names to the tree whose parents are there, loses nothing that it has
  found, and fails only if the topic has a "#" before its end or a wildcard next
  to other characters (`Bad`).
- *Looking up again* (`TopicFindsAgain`): of two walks of one topic, of which one
  adds nodes and the other, in a tree that has grown since, does not, the second is
  at the same node after every part and finds all that the first found.
- *Every match* (`FilledMatches`, `WalkFindsMatches`): a node that the topic matches
  is matched by the topic with a child's name for its first "+", for one of the
  children the walk visits; the induction is over the parts from that "+" on.
- *Below "$"* (`WalkHidden`): what a topic that ends in "#" finds has no "$" name in
  its path, whatever stands before the "#".
- *Nothing else* (`PlainExact`, `LastPlusExact`): a topic without wildcards
  finds its own node; with one "+", at its end, one node for each child, all
  different.

*Types* (`TreeTyped`), *what a filter finds* (`EveryMatchFound`, `NothingElseFound`)
and *publishing* (`PublishOutlived`) need no more of a state than that its nodes are
a tree, and hold in every tree whether requests lead to it or not.

*Unsubscribing* (`NothingIsLeft`) needs to know where `granted` comes from. `Given`
says that a walk of `watched` in some tree found the node, and that the tree it
left is contained in today's; `TypeOK /\ Given` is inductive, since nodes are never
removed. TLC cannot evaluate `Given`, which speaks of all trees; it checks what
follows from it.

`TopicTreeAssumption` says that a topic has at least one part and that every part is
a name or one of the three kinds with a wildcard. `split` yields at least one part,
an empty one for an empty topic.

### Only model-checked

- Liveness, and anything about ENABLED, which the provers do not reach:
  `HandlersReturn`, `LeavingEndsConnect`, `RequestsAnswered`.
- That `RemainEncode` and `RemainDecode` of `Frame`, which are written out in
  digits, are what the loops of `RemainingLength` compute. Both are proved to read
  back every length.

## Not modelled, and the plan

Not modelled: full paths of topic nodes of several parts (texts, cut character by
character); `applySubscriber` (no caller), `dumpTree`, `getString` and `flagString`
(which print); memory of messages; torn accesses to shared memory; the error
codes' texts; the example programs. A message that TCP splits over two reads is
left out: its parts are parsed with whatever the buffer held, into any type, any
identifier and any pointer, so that nothing can be promised after one; messages
here are much shorter than a segment. The keep-alive in microseconds, which
CONNECT truncates to 16 bits, is not followed in value: `Broker` and `Client` tell
zero from other values only.

Left for later: `Broker` with `TopicTree` in place of its one node per topic, on the
filters that the walk treats in its own way.
