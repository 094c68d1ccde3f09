------------------------------ MODULE MCBroker ------------------------------
(* Instances of Broker that TLC checks.                                    *)
EXTENDS Broker, TLC

CONSTANTS s1, s2, s3, c1, c2, c3, a, t1, bad

MCSymmetry == Permutations(Slots) \cup Permutations(Conns)
MCDraw == [i \in GeneratorStates |-> IF i = Period - 1 THEN 0 ELSE MaxPacketID]
MCWills == {[topic |-> t1, qos |-> MaxQoS, retain |-> TRUE]}
MCBadWills == {[topic |-> t, qos |-> MaxQoS, retain |-> r] : t \in Topics, r \in BOOLEAN}
=============================================================================
