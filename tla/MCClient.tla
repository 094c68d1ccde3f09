------------------------------ MODULE MCClient ------------------------------
(* Instances of Client that TLC checks.                                    *)
EXTENDS Client

CONSTANTS a, b

MCDraw == [i \in GeneratorStates |-> (i + 1) % (MaxPacketID + 1)]

\* "a/#"; "#/a" and then a filter that is passed over.
MCFilters == {<<<<"name", "#">>>>, <<<<"#", "name">>, <<"name">>>>}
\* "a/#/b"
MCInnerHash == {<<<<"name", "#", "name">>>>}

Live(c) == IF \E th \in Threads : op[th].pc = "write" /\ op[th].ct = c THEN writeBuff[c] ELSE Idle.msg
View == <<status, term, conn, sock, file, peer, [c \in Conns |-> Live(c)], reader, op, unanswered, bounds, history>>
=============================================================================
