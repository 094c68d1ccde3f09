------------------------- MODULE MCRemainingLength -------------------------
(* The lengths next to every change in the number of bytes, and some others. *)
EXTENDS RemainingLength

MCLengths ==
    UNION {{128 ^ i + d : d \in -1 .. 2} : i \in 0 .. 4}
        \cup {300, 65535, 100000000, 2147483647}
MCLeftovers == {0, 16, 192}
=============================================================================
