------------------------------- MODULE MCLink -------------------------------
(* An instance of Link that TLC checks.  Strings are bytes: 97 is "a".     *)
EXTENDS Link

MCDraw == [i \in GeneratorStates |-> (i + 1) % (MaxPacketID + 1)]

A == <<97>>
BB == <<98, 98>>
C == <<99>>

MCClientID == <<105>>
MCWill == [topic |-> <<119>>, message |-> <<109>>, retain |-> TRUE, qos |-> 1]
MCConnects == {[clean |-> TRUE, user |-> NoUser],
               [clean |-> TRUE, user |-> [name |-> <<117>>, passwd |-> <<>>]],
               [clean |-> FALSE, user |-> [name |-> <<117>>, passwd |-> <<112>>]],
               [clean |-> TRUE, user |-> [name |-> <<>>, passwd |-> <<112>>]]}

\* One topic; two, of which the second is read; two, of which it is not.
Want(topic, qos) == [topic |-> topic, qos |-> qos]
MCSubscribeLists == {<<Want(C, 1)>>, <<Want(A, 1), Want(BB, 2)>>, <<Want(C, 2), Want(A, 0)>>}
MCUnsubscribeLists == {<<A>>, <<C, BB>>}

\* With QoS 0 the topic is read from the payload; with another, its length is
\* the identifier.
MCPublishes == {[qos |-> 0, topic |-> C, payload |-> UTF8_encode(C)],
                [qos |-> 1, topic |-> A, payload |-> BB],
                [qos |-> 2, topic |-> A, payload |-> A]}
MCRetained == {[topic |-> C, qos |-> 2, message |-> <<109>>]}
=============================================================================
