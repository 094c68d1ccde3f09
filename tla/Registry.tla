------------------------------ MODULE Registry ------------------------------
(***************************************************************************)
(* What the broker promises about client identifiers: an identifier is     *)
(* held by at most one connection at a time, a connection holds at most    *)
(* one, and it is given up only by the holder, while the broker serves it. *)
(* A holder that is dropped without giving its identifier up keeps it.     *)
(***************************************************************************)
CONSTANTS IDs, Conns, None

VARIABLES
    holder,   \* the connection that holds each identifier, or None
    serving   \* the connection the broker reads from, or None

vars == <<holder, serving>>

Held(c) == {k \in IDs : holder[k] = c}

Init == holder = [k \in IDs |-> None] /\ serving = None

Serve(c) ==
    /\ serving = None /\ Held(c) = {}
    /\ serving' = c
    /\ UNCHANGED holder

Claim(k) ==
    /\ serving # None /\ Held(serving) = {}
    /\ holder[k] = None
    /\ holder' = [holder EXCEPT ![k] = serving]
    /\ UNCHANGED serving

Leave ==
    /\ serving # None
    /\ holder' = [k \in IDs |-> IF holder[k] = serving THEN None ELSE holder[k]]
    /\ serving' = None

Drop ==
    /\ serving # None
    /\ serving' = None
    /\ UNCHANGED holder

Next ==
    \/ \E c \in Conns : Serve(c)
    \/ \E k \in IDs : Claim(k)
    \/ Leave
    \/ Drop

Spec == Init /\ [][Next]_vars
=============================================================================
