--------------------------- MODULE RemainingLength ---------------------------
(***************************************************************************)
(* remainEncode and remainDecode (util.cc): a length is written to the     *)
(* buffer seven bits a byte, the low ones first, and read back.  The       *)
(* reader's buffer goes on after the bytes written, with what an earlier   *)
(* message has left there.                                                 *)
(***************************************************************************)
EXTENDS Integers, Sequences

CONSTANTS
    Lengths,   \* the lengths to encode
    Leftovers  \* the bytes that may follow in the reader's buffer

ASSUME LengthsAssumption ==
    /\ Lengths \subseteq Nat
    /\ Leftovers \subseteq 0 .. 255

VARIABLES
    phase,  \* "encode", "decode", "decoded" or "malformed"
    input,  \* the length to encode
    len,    \* what remains of it
    wire,   \* the bytes written
    pos,    \* the number of bytes read
    m,      \* the weight of the next byte read
    out     \* the sum of those read

vars == <<phase, input, len, wire, pos, m, out>>

MaxWeight == 2097152
Low(byte) == byte % 128
Continues(byte) == byte >= 128

Init ==
    /\ phase = "encode"
    /\ input \in Lengths
    /\ len = input
    /\ wire = <<>>
    /\ pos = 0 /\ m = 1 /\ out = 0

\* MUTANT of Digit: the continuation bit is set on the last byte too.
Digit_Continues(n) == (n % 128) + 128

Digit(n) == IF n \div 128 > 0 THEN (n % 128) + 128 ELSE n % 128

EncodeByte ==
    /\ phase = "encode" /\ len > 0
    /\ wire' = Append(wire, Digit(len))
    /\ len' = len \div 128
    /\ UNCHANGED <<phase, input, pos, m, out>>

EncodeDone ==
    /\ phase = "encode" /\ len = 0
    /\ phase' = "decode"
    /\ UNCHANGED <<input, len, wire, pos, m, out>>

\* The byte under the reader's pointer.
Readable == IF pos < Len(wire) THEN {wire[pos + 1]} ELSE Leftovers

\* MUTANT of AfterByte: the weight is compared before it is multiplied.
AfterByte_Late(byte, w) ==
    IF ~Continues(byte) THEN "decoded"
    ELSE IF w \div 128 > MaxWeight THEN "malformed" ELSE "decode"

\* MUTANT of AfterByte: the fourth byte is taken for the last.
AfterByte_Ends(byte, w) ==
    IF ~Continues(byte) \/ w > MaxWeight THEN "decoded" ELSE "decode"

\* The phase after a byte, w being the weight of the next one.
AfterByte(byte, w) ==
    IF ~Continues(byte) THEN "decoded"
    ELSE IF w > MaxWeight THEN "malformed" ELSE "decode"

DecodeByte ==
    /\ phase = "decode"
    /\ \E byte \in Readable :
         /\ out' = out + Low(byte) * m
         /\ m' = m * 128
         /\ phase' = AfterByte(byte, m * 128)
    /\ pos' = pos + 1
    /\ UNCHANGED <<input, len, wire>>

Next == EncodeByte \/ EncodeDone \/ DecodeByte
Spec == Init /\ [][Next]_vars

-----------------------------------------------------------------------------
Limit == 268435455

\* A length from 1 to the protocol's limit is read back as it was written,
\* over exactly the bytes written: the loops of encoder and decoder agree
\* on the order of the digits and on where the last one is.
RoundTrip ==
    phase \in {"decoded", "malformed"} /\ input \in 1 .. Limit =>
        phase = "decoded" /\ out = input /\ pos = Len(wire)

\* What the encoder writes beyond that limit, in five bytes, is refused.
TooLongIsMalformed == phase = "decoded" => input <= Limit

\* Whatever bytes follow in the buffer, a byte is only read while its weight is
\* at most 2^21, so that the sum stays below 2^28 and the next weight, which
\* may reach 2^28, within 32 bits.
SumFits == out <= Limit /\ (phase = "decode" => m <= MaxWeight)

\* The table of the test (MQTT_test.cc:24-28) has the length 0 take one byte
\* on the wire, as every other length up to 127.  remainEncode writes none.
ZeroTakesOneByte == phase # "encode" /\ input = 0 => Len(wire) = 1
=============================================================================
